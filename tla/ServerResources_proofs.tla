------------------------ MODULE ServerResources_proofs ------------------------
(* Proofs about ServerResources, for any number of handles: the handle maps   *)
(* and the dependency vectors form a forest whatever the clients delete; they *)
(* implement ResourceTree; and the ...Deleted messages report that forest's   *)
(* deletions, each once, dependents first, for good.                         *)
EXTENDS ServerResources, WellFoundedInduction, SequenceTheorems, TLAPS

\* The vectors are disjoint: a handle is entered in one of them, once.
OneOwner(dependencies) ==
    \A x, y \in DOMAIN dependencies :
        \A e \in ToSet(dependencies[x]) : e \in ToSet(dependencies[y]) => x = y

\* Every member of a map is in the vector of a live owner.
Owned(members, owners, dependencies) ==
    \A m \in members : \E o \in owners : m \in ToSet(dependencies[o])

IInv ==
    /\ TypeOK
    /\ DependenciesOfLive
    /\ OneOwner(fileDependencies) /\ OneOwner(artboardDependencies)
    /\ Owned(artboards, files, fileDependencies)
    /\ Owned(stateMachines, artboards, artboardDependencies)

LEMMA KindsAreFour ==
    Live["file"] = files /\ Live["artboard"] = artboards
      /\ Live["stateMachine"] = stateMachines /\ Live["viewModel"] = viewModels
  BY DEF Live

\* What a vector holds after push_back.
LEMMA AppendToVector ==
    ASSUME NEW S, NEW seq \in Seq(S), NEW e
    PROVE  ToSet(Append(seq, e)) = ToSet(seq) \cup {e}
<1>1. /\ DOMAIN Append(seq, e) = 1..(Len(seq) + 1)
      /\ DOMAIN seq = 1..Len(seq)
      /\ Len(seq) \in Nat
      /\ \A i \in 1..Len(seq) : Append(seq, e)[i] = seq[i]
      /\ Append(seq, e)[Len(seq) + 1] = e
  OBVIOUS
<1>2. 1..(Len(seq) + 1) = 1..Len(seq) \cup {Len(seq) + 1}
  BY <1>1
<1>3. QED
  BY <1>1, <1>2 DEF ToSet

LEMMA EmptyVector == ToSet(<<>>) = {}
  BY DEF ToSet

LEMMA VectorMembers ==
    ASSUME NEW S, NEW seq \in Seq(S)
    PROVE  ToSet(seq) \subseteq S
  BY DEF ToSet

LEMMA InitIInv == Init => IInv
  BY KindsAreFour DEF Init, IInv, TypeOK, DependenciesOfLive, OneOwner, Owned,
     Kinds, Known, Live

\* Commands that only look resources up.
LEMMA LookupKeepsIInv ==
    ASSUME IInv, UNCHANGED <<issued, maps>>
    PROVE  IInv'
  BY DEF IInv, maps, TypeOK, DependenciesOfLive, OneOwner, Owned, Known, Live

\* A handle that is issued now is in no map and in no vector.
LEMMA IssuedIsFresh ==
    ASSUME IInv, NEW kind \in Kinds, NEW h \in Nat, Issue(kind, h)
    PROVE  /\ issued' \in [Kinds -> Nat]
           /\ h \in Known(kind)' /\ h \notin Known(kind) /\ h \notin Live[kind]
           /\ \A k \in Kinds : Known(k) \subseteq Known(k)'
           /\ \A k \in Kinds \ {kind} : Known(k)' = Known(k)
<1>1. issued \in [Kinds -> Nat] /\ h = issued[kind] + 1
  BY DEF IInv, TypeOK, Issue
<1>2. issued' \in [Kinds -> Nat] /\ issued'[kind] = issued[kind] + 1
        /\ \A k \in Kinds \ {kind} : issued'[k] = issued[k]
  BY <1>1 DEF Issue
<1>3. QED
  BY <1>1, <1>2 DEF Known, IInv, TypeOK

\* What the type invariant says of the vectors, one by one.
LEMMA VectorTypes ==
    ASSUME TypeOK, DependenciesOfLive
    PROVE  /\ files \subseteq Known("file")
           /\ artboards \subseteq Known("artboard")
           /\ stateMachines \subseteq Known("stateMachine")
           /\ viewModels \subseteq Known("viewModel")
           /\ \A f \in files : fileDependencies[f] \in Seq(Known("artboard"))
           /\ \A a \in artboards :
                 artboardDependencies[a] \in Seq(Known("stateMachine"))
           /\ \A f \in files : ToSet(fileDependencies[f]) \subseteq Known("artboard")
           /\ \A a \in artboards :
                 ToSet(artboardDependencies[a]) \subseteq Known("stateMachine")
<1>1. /\ files \subseteq Known("file")
      /\ artboards \subseteq Known("artboard")
      /\ stateMachines \subseteq Known("stateMachine")
      /\ viewModels \subseteq Known("viewModel")
  BY KindsAreFour DEF TypeOK, Kinds
<1>2. /\ \A f \in files : fileDependencies[f] \in Seq(Known("artboard"))
      /\ \A a \in artboards :
            artboardDependencies[a] \in Seq(Known("stateMachine"))
  BY DEF TypeOK, DependenciesOfLive
<1>3. QED
  BY <1>1, <1>2, VectorMembers

\* The other way round, for the next state.
LEMMA TypesOfParts ==
    ASSUME issued' \in [Kinds -> Nat],
           files' \subseteq Known("file")',
           artboards' \subseteq Known("artboard")',
           stateMachines' \subseteq Known("stateMachine")',
           viewModels' \subseteq Known("viewModel")',
           fileDependencies' \in [files' -> Seq(Known("artboard")')],
           artboardDependencies' \in
              [artboards' -> Seq(Known("stateMachine")')]
    PROVE  TypeOK' /\ DependenciesOfLive'
<1>1. /\ DOMAIN fileDependencies' = files'
      /\ DOMAIN artboardDependencies' = artboards'
  OBVIOUS
<1>2. /\ Live["file"]' = files' /\ Live["artboard"]' = artboards'
      /\ Live["stateMachine"]' = stateMachines'
      /\ Live["viewModel"]' = viewModels'
  BY DEF Live
<1>3. \A k \in Kinds : Live[k]' \subseteq Known(k)'
  BY <1>2 DEF Kinds
<1>4. QED
  BY <1>1, <1>3 DEF TypeOK, DependenciesOfLive

\* A sequence over a set is one over every larger set.
LEMMA SeqMonotone ==
    ASSUME NEW S, NEW T, S \subseteq T
    PROVE  Seq(S) \subseteq Seq(T)
  OBVIOUS

LEMMA LoadFileStep == IInv /\ LoadFile => IInv'
<1> SUFFICES ASSUME IInv, NEW f \in 1..MaxFiles, Issue("file", f),
                    \/ /\ files' = files \cup {f}
                       /\ fileDependencies' = With(fileDependencies, f, <<>>)
                    \/ UNCHANGED <<files, fileDependencies>>,
                    UNCHANGED <<artboards, stateMachines, viewModels,
                                artboardDependencies>>
             PROVE  IInv'
  BY DEF LoadFile
<1>t. /\ TypeOK /\ DependenciesOfLive
      /\ OneOwner(fileDependencies) /\ OneOwner(artboardDependencies)
      /\ Owned(artboards, files, fileDependencies)
      /\ Owned(stateMachines, artboards, artboardDependencies)
  BY DEF IInv
<1>f. /\ issued' \in [Kinds -> Nat]
      /\ f \in Known("file")' /\ f \notin Known("file")
      /\ Known("file") \subseteq Known("file")'
      /\ Known("artboard")' = Known("artboard")
      /\ Known("stateMachine")' = Known("stateMachine")
      /\ Known("viewModel")' = Known("viewModel")
  BY IssuedIsFresh, f \in Nat, "file" \in Kinds DEF Kinds
<1>v. f \notin files
  BY <1>t, <1>f, VectorTypes
<1>1. CASE UNCHANGED <<files, fileDependencies>>
  <2>1. TypeOK' /\ DependenciesOfLive'
    BY <1>t, <1>f, <1>1, VectorTypes, TypesOfParts DEF TypeOK, DependenciesOfLive
  <2>2. QED
    BY <1>t, <1>1, <2>1 DEF IInv, OneOwner, Owned
<1>2. CASE /\ files' = files \cup {f}
           /\ fileDependencies' = With(fileDependencies, f, <<>>)
  <2>1. /\ DOMAIN fileDependencies' = files'
        /\ fileDependencies'[f] = <<>>
        /\ \A g \in files : fileDependencies'[g] = fileDependencies[g]
        /\ fileDependencies' \in [files' -> Seq(Known("artboard"))]
    BY <1>t, <1>v, <1>2, VectorTypes DEF With, DependenciesOfLive
  <2>2. TypeOK' /\ DependenciesOfLive'
    BY <1>t, <1>f, <1>2, <2>1, VectorTypes, TypesOfParts
    DEF TypeOK, DependenciesOfLive
  <2>3. OneOwner(fileDependencies')
    BY <1>t, <1>2, <2>1, EmptyVector DEF OneOwner, DependenciesOfLive
  <2>4. Owned(artboards', files', fileDependencies')
    BY <1>t, <1>2, <2>1 DEF Owned
  <2>5. QED
    BY <1>t, <2>2, <2>3, <2>4 DEF IInv, OneOwner, Owned
<1>3. QED
  BY <1>1, <1>2

LEMMA InstantiateArtboardStep ==
    ASSUME IInv, NEW f \in Known("file"), InstantiateArtboard(f)
    PROVE  IInv'
<1>0. PICK a \in 1..MaxArtboards :
        /\ Issue("artboard", a)
        /\ \/ /\ f \in files
              /\ fileDependencies' =
                   [fileDependencies EXCEPT ![f] = Append(@, a)]
              /\ artboardDependencies' = With(artboardDependencies, a, <<>>)
              /\ artboards' = artboards \cup {a}
           \/ UNCHANGED <<fileDependencies, artboardDependencies, artboards>>
        /\ UNCHANGED <<files, stateMachines, viewModels>>
  BY DEF InstantiateArtboard
<1>t. /\ TypeOK /\ DependenciesOfLive
      /\ OneOwner(fileDependencies) /\ OneOwner(artboardDependencies)
      /\ Owned(artboards, files, fileDependencies)
      /\ Owned(stateMachines, artboards, artboardDependencies)
  BY DEF IInv
<1>f. /\ issued' \in [Kinds -> Nat]
      /\ a \in Known("artboard")' /\ a \notin Known("artboard")
      /\ Known("artboard") \subseteq Known("artboard")'
      /\ Known("file")' = Known("file")
      /\ Known("stateMachine")' = Known("stateMachine")
      /\ Known("viewModel")' = Known("viewModel")
  BY <1>0, IssuedIsFresh, a \in Nat, "artboard" \in Kinds DEF Kinds
<1>v. /\ a \notin artboards
      /\ \A g \in files : a \notin ToSet(fileDependencies[g])
      /\ Seq(Known("artboard")) \subseteq Seq(Known("artboard")')
  BY <1>t, <1>f, VectorTypes, SeqMonotone
<1>1. CASE UNCHANGED <<fileDependencies, artboardDependencies, artboards>>
  <2>1. TypeOK' /\ DependenciesOfLive'
    BY <1>0, <1>t, <1>f, <1>v, <1>1, VectorTypes, TypesOfParts
    DEF TypeOK, DependenciesOfLive
  <2>2. QED
    BY <1>0, <1>t, <1>1, <2>1 DEF IInv, OneOwner, Owned
<1>2. CASE /\ f \in files
           /\ fileDependencies' =
                [fileDependencies EXCEPT ![f] = Append(@, a)]
           /\ artboardDependencies' = With(artboardDependencies, a, <<>>)
           /\ artboards' = artboards \cup {a}
  <2>1. /\ DOMAIN fileDependencies' = files
        /\ fileDependencies'[f] = Append(fileDependencies[f], a)
        /\ \A g \in files \ {f} : fileDependencies'[g] = fileDependencies[g]
    BY <1>t, <1>2 DEF DependenciesOfLive
  <2>2. /\ ToSet(fileDependencies'[f]) = ToSet(fileDependencies[f]) \cup {a}
        /\ \A g \in files \ {f} :
              ToSet(fileDependencies'[g]) = ToSet(fileDependencies[g])
    BY <1>t, <1>2, <2>1, VectorTypes, AppendToVector
  <2>3. /\ DOMAIN artboardDependencies' = artboards'
        /\ artboardDependencies'[a] = <<>>
        /\ \A b \in artboards : artboardDependencies'[b] = artboardDependencies[b]
        /\ artboardDependencies' \in [artboards' -> Seq(Known("stateMachine"))]
    BY <1>t, <1>v, <1>2, VectorTypes DEF With, DependenciesOfLive
  <2>4. fileDependencies' \in [files' -> Seq(Known("artboard")')]
    <3>1. \A g \in files : fileDependencies[g] \in Seq(Known("artboard")')
      BY <1>t, <1>v, VectorTypes
    <3>2. Append(fileDependencies[f], a) \in Seq(Known("artboard")')
      BY <1>f, <1>2, <3>1
    <3>3. QED
      BY <1>0, <1>2, <2>1, <3>1, <3>2
  <2>5. TypeOK' /\ DependenciesOfLive'
    BY <1>0, <1>t, <1>f, <1>2, <2>3, <2>4, VectorTypes, TypesOfParts
  <2>6. OneOwner(fileDependencies')
    <3>1. \A x, y \in files : \A e \in ToSet(fileDependencies[x]) :
             e \in ToSet(fileDependencies[y]) => x = y
      BY <1>t DEF OneOwner, DependenciesOfLive
    <3>2. \A x, y \in files : \A e \in ToSet(fileDependencies'[x]) :
             e \in ToSet(fileDependencies'[y]) => x = y
      BY <1>v, <2>2, <3>1, Zenon
    <3>3. QED
      BY <2>1, <3>2 DEF OneOwner
  <2>7. OneOwner(artboardDependencies')
    <3>1. \A x, y \in artboards : \A e \in ToSet(artboardDependencies[x]) :
             e \in ToSet(artboardDependencies[y]) => x = y
      BY <1>t DEF OneOwner, DependenciesOfLive
    <3>2. ToSet(artboardDependencies'[a]) = {}
      BY <2>3, EmptyVector
    <3>3. \A x, y \in artboards \cup {a} :
             \A e \in ToSet(artboardDependencies'[x]) :
                e \in ToSet(artboardDependencies'[y]) => x = y
      BY <2>3, <3>1, <3>2
    <3>4. QED
      BY <1>2, <2>3, <3>3 DEF OneOwner
  <2>8. Owned(artboards', files', fileDependencies')
    BY <1>0, <1>t, <1>2, <2>2 DEF Owned
  <2>9. Owned(stateMachines', artboards', artboardDependencies')
    BY <1>0, <1>t, <1>2, <2>3 DEF Owned
  <2>10. QED
    BY <2>5, <2>6, <2>7, <2>8, <2>9 DEF IInv, OneOwner, Owned
<1>3. QED
  BY <1>0, <1>1, <1>2

LEMMA InstantiateStateMachineStep ==
    ASSUME IInv, NEW a \in Known("artboard"), InstantiateStateMachine(a)
    PROVE  IInv'
<1>0. PICK s \in 1..MaxStateMachines :
        /\ Issue("stateMachine", s)
        /\ \/ /\ a \in artboards
              /\ stateMachines' = stateMachines \cup {s}
              /\ artboardDependencies' =
                   [artboardDependencies EXCEPT ![a] = Append(@, s)]
           \/ UNCHANGED <<stateMachines, artboardDependencies>>
        /\ UNCHANGED <<files, artboards, viewModels, fileDependencies>>
  BY DEF InstantiateStateMachine
<1>t. /\ TypeOK /\ DependenciesOfLive
      /\ OneOwner(fileDependencies) /\ OneOwner(artboardDependencies)
      /\ Owned(artboards, files, fileDependencies)
      /\ Owned(stateMachines, artboards, artboardDependencies)
  BY DEF IInv
<1>f. /\ issued' \in [Kinds -> Nat]
      /\ s \in Known("stateMachine")' /\ s \notin Known("stateMachine")
      /\ Known("stateMachine") \subseteq Known("stateMachine")'
      /\ Known("file")' = Known("file")
      /\ Known("artboard")' = Known("artboard")
      /\ Known("viewModel")' = Known("viewModel")
  BY <1>0, IssuedIsFresh, s \in Nat, "stateMachine" \in Kinds DEF Kinds
<1>v. /\ \A b \in artboards : s \notin ToSet(artboardDependencies[b])
      /\ Seq(Known("stateMachine")) \subseteq Seq(Known("stateMachine")')
  BY <1>t, <1>f, VectorTypes, SeqMonotone
<1>1. CASE UNCHANGED <<stateMachines, artboardDependencies>>
  <2>1. TypeOK' /\ DependenciesOfLive'
    BY <1>0, <1>t, <1>f, <1>v, <1>1, VectorTypes, TypesOfParts
    DEF TypeOK, DependenciesOfLive
  <2>2. QED
    BY <1>0, <1>t, <1>1, <2>1 DEF IInv, OneOwner, Owned
<1>2. CASE /\ a \in artboards
           /\ stateMachines' = stateMachines \cup {s}
           /\ artboardDependencies' =
                [artboardDependencies EXCEPT ![a] = Append(@, s)]
  <2>1. /\ DOMAIN artboardDependencies' = artboards
        /\ artboardDependencies'[a] = Append(artboardDependencies[a], s)
        /\ \A b \in artboards \ {a} :
              artboardDependencies'[b] = artboardDependencies[b]
    BY <1>t, <1>2 DEF DependenciesOfLive
  <2>2. /\ ToSet(artboardDependencies'[a])
              = ToSet(artboardDependencies[a]) \cup {s}
        /\ \A b \in artboards \ {a} :
              ToSet(artboardDependencies'[b]) = ToSet(artboardDependencies[b])
    BY <1>t, <1>2, <2>1, VectorTypes, AppendToVector
  <2>3. artboardDependencies' \in [artboards' -> Seq(Known("stateMachine")')]
    <3>1. \A b \in artboards :
             artboardDependencies[b] \in Seq(Known("stateMachine")')
      BY <1>t, <1>v, VectorTypes
    <3>2. Append(artboardDependencies[a], s) \in Seq(Known("stateMachine")')
      BY <1>f, <1>2, <3>1
    <3>3. QED
      BY <1>0, <1>2, <2>1, <3>1, <3>2
  <2>4. fileDependencies' \in [files' -> Seq(Known("artboard")')]
    BY <1>0, <1>t, <1>f DEF TypeOK, DependenciesOfLive
  <2>5. TypeOK' /\ DependenciesOfLive'
    BY <1>0, <1>t, <1>f, <1>2, <2>3, <2>4, VectorTypes, TypesOfParts
  <2>6. OneOwner(artboardDependencies')
    <3>1. \A x, y \in artboards : \A e \in ToSet(artboardDependencies[x]) :
             e \in ToSet(artboardDependencies[y]) => x = y
      BY <1>t DEF OneOwner, DependenciesOfLive
    <3>2. \A x, y \in artboards : \A e \in ToSet(artboardDependencies'[x]) :
             e \in ToSet(artboardDependencies'[y]) => x = y
      BY <1>v, <2>2, <3>1, Zenon
    <3>3. QED
      BY <2>1, <3>2 DEF OneOwner
  <2>7. Owned(stateMachines', artboards', artboardDependencies')
    BY <1>0, <1>t, <1>2, <2>2 DEF Owned
  <2>8. QED
    BY <1>0, <1>t, <2>5, <2>6, <2>7 DEF IInv, OneOwner, Owned
<1>3. QED
  BY <1>0, <1>1, <1>2

\* cleanupArtboard leaves no state machine without its artboard.
LEMMA CleanupKeepsMachinesOwned ==
    ASSUME IInv, NEW doomed, CleanupArtboards(doomed)
    PROVE  /\ artboards' = artboards \ doomed
           /\ stateMachines' \subseteq stateMachines
           /\ artboardDependencies' \in [artboards' -> Seq(Known("stateMachine"))]
           /\ OneOwner(artboardDependencies')
           /\ Owned(stateMachines', artboards', artboardDependencies')
<1>t. /\ TypeOK /\ DependenciesOfLive
      /\ OneOwner(artboardDependencies)
      /\ Owned(stateMachines, artboards, artboardDependencies)
  BY DEF IInv
<1>1. /\ artboards' = artboards \ doomed
      /\ stateMachines' = stateMachines \ UNION {ToSet(artboardDependencies[a]) :
                                                 a \in doomed \cap artboards}
      /\ DOMAIN artboardDependencies' = artboards'
      /\ \A a \in artboards' : artboardDependencies'[a] = artboardDependencies[a]
  BY <1>t DEF CleanupArtboards, Without, DependenciesOfLive
<1>2. artboardDependencies' \in [artboards' -> Seq(Known("stateMachine"))]
  <2>1. artboardDependencies' = [a \in artboards' |-> artboardDependencies[a]]
    BY <1>t, <1>1 DEF CleanupArtboards, Without, DependenciesOfLive
  <2>2. \A a \in artboards' :
           artboardDependencies[a] \in Seq(Known("stateMachine"))
    BY <1>t, <1>1, VectorTypes
  <2>3. QED
    BY <2>1, <2>2
<1>3. OneOwner(artboardDependencies')
  BY <1>t, <1>1 DEF OneOwner, DependenciesOfLive
<1>4. Owned(stateMachines', artboards', artboardDependencies')
  <2> SUFFICES ASSUME NEW s \in stateMachines'
               PROVE  \E a \in artboards' : s \in ToSet(artboardDependencies'[a])
    BY DEF Owned
  <2>1. PICK a \in artboards : s \in ToSet(artboardDependencies[a])
    BY <1>t, <1>1 DEF Owned
  <2>2. a \notin doomed
    BY <1>1, <2>1
  <2>3. QED
    BY <1>1, <2>1, <2>2
<1>5. QED
  BY <1>1, <1>2, <1>3, <1>4

LEMMA DeleteArtboardStep ==
    ASSUME IInv, NEW a \in Known("artboard"), DeleteArtboard(a)
    PROVE  IInv'
<1>t. /\ TypeOK /\ DependenciesOfLive
      /\ OneOwner(fileDependencies)
      /\ Owned(artboards, files, fileDependencies)
  BY DEF IInv
<1>1. /\ CleanupArtboards({a})
      /\ UNCHANGED <<issued, files, viewModels, fileDependencies>>
  BY DEF DeleteArtboard
<1>2. \A k \in Kinds : Known(k)' = Known(k)
  BY <1>1 DEF Known
<1>3. /\ artboards' \subseteq artboards /\ stateMachines' \subseteq stateMachines
      /\ artboardDependencies' \in [artboards' -> Seq(Known("stateMachine"))]
      /\ OneOwner(artboardDependencies')
      /\ Owned(stateMachines', artboards', artboardDependencies')
  BY <1>1, CleanupKeepsMachinesOwned
<1>4. /\ issued' \in [Kinds -> Nat]
      /\ fileDependencies' \in [files' -> Seq(Known("artboard"))]
  BY <1>t, <1>1 DEF TypeOK, DependenciesOfLive
<1>5. TypeOK' /\ DependenciesOfLive'
  BY <1>t, <1>1, <1>2, <1>3, <1>4, VectorTypes, TypesOfParts DEF Kinds
<1>6. QED
  BY <1>t, <1>1, <1>3, <1>5 DEF IInv, OneOwner, Owned

LEMMA DeleteFileStep ==
    ASSUME IInv, NEW f \in Known("file"), DeleteFile(f)
    PROVE  IInv'
<1> DEFINE dependents == IF f \in DOMAIN fileDependencies
                         THEN fileDependencies[f] ELSE <<>>
<1>t. /\ TypeOK /\ DependenciesOfLive
      /\ OneOwner(fileDependencies)
      /\ Owned(artboards, files, fileDependencies)
  BY DEF IInv
<1>1. /\ CleanupArtboards(ToSet(dependents))
      /\ files' = files \ {f}
      /\ fileDependencies' = Without(fileDependencies, {f})
      /\ UNCHANGED <<issued, viewModels>>
  BY DEF DeleteFile
<1>2. \A k \in Kinds : Known(k)' = Known(k)
  BY <1>1 DEF Known
<1>3. /\ artboards' = artboards \ ToSet(dependents)
      /\ stateMachines' \subseteq stateMachines
      /\ artboardDependencies' \in [artboards' -> Seq(Known("stateMachine"))]
      /\ OneOwner(artboardDependencies')
      /\ Owned(stateMachines', artboards', artboardDependencies')
  BY <1>1, CleanupKeepsMachinesOwned
<1>4. /\ DOMAIN fileDependencies' = files'
      /\ \A g \in files' : fileDependencies'[g] = fileDependencies[g]
      /\ fileDependencies' \in [files' -> Seq(Known("artboard"))]
  <2>1. fileDependencies' = [g \in files' |-> fileDependencies[g]]
    BY <1>t, <1>1 DEF Without, DependenciesOfLive
  <2>2. \A g \in files' : fileDependencies[g] \in Seq(Known("artboard"))
    BY <1>t, <1>1, VectorTypes
  <2>3. QED
    BY <2>1, <2>2
<1>5. issued' \in [Kinds -> Nat]
  BY <1>t, <1>1 DEF TypeOK
<1>6. TypeOK' /\ DependenciesOfLive'
  BY <1>t, <1>1, <1>2, <1>3, <1>4, <1>5, VectorTypes, TypesOfParts DEF Kinds
<1>7. OneOwner(fileDependencies')
  BY <1>t, <1>1, <1>4 DEF OneOwner, DependenciesOfLive
<1>8. Owned(artboards', files', fileDependencies')
  <2> SUFFICES ASSUME NEW a \in artboards'
               PROVE  \E g \in files' : a \in ToSet(fileDependencies'[g])
    BY DEF Owned
  <2>1. PICK g \in files : a \in ToSet(fileDependencies[g])
    BY <1>t, <1>3 DEF Owned
  <2>2. g # f
    BY <1>t, <1>3, <2>1 DEF DependenciesOfLive
  <2>3. QED
    BY <1>1, <1>4, <2>1, <2>2
<1>9. QED
  BY <1>3, <1>6, <1>7, <1>8 DEF IInv, OneOwner, Owned

LEMMA DeleteStateMachineStep ==
    ASSUME IInv, NEW s, DeleteStateMachine(s)
    PROVE  IInv'
<1>1. /\ stateMachines' \subseteq stateMachines
      /\ UNCHANGED <<issued, files, artboards, viewModels, fileDependencies,
                     artboardDependencies>>
  BY DEF DeleteStateMachine
<1>2. Live["stateMachine"]' \subseteq Live["stateMachine"]
        /\ \A k \in Kinds \ {"stateMachine"} : Live[k]' = Live[k]
  BY <1>1 DEF Live, Kinds
<1>3. QED
  BY <1>1, <1>2
  DEF IInv, TypeOK, DependenciesOfLive, OneOwner, Owned, Known

\* The commands that touch only the map of view models.
LEMMA ViewModelStep ==
    ASSUME IInv,
           UNCHANGED <<files, artboards, stateMachines, fileDependencies,
                       artboardDependencies>>,
           \/ UNCHANGED issued /\ viewModels' \subseteq viewModels
           \/ \E v \in Nat : /\ Issue("viewModel", v)
                             /\ viewModels' \subseteq viewModels \cup {v}
    PROVE  IInv'
<1>t. TypeOK /\ DependenciesOfLive
  BY DEF IInv
<1>1. /\ issued' \in [Kinds -> Nat]
      /\ viewModels' \subseteq Known("viewModel")'
      /\ \A k \in Kinds \ {"viewModel"} : Known(k)' = Known(k)
  <2>1. CASE UNCHANGED issued /\ viewModels' \subseteq viewModels
    BY <1>t, <2>1, VectorTypes DEF TypeOK, Known
  <2>2. CASE \E v \in Nat : /\ Issue("viewModel", v)
                            /\ viewModels' \subseteq viewModels \cup {v}
    <3>1. PICK v \in Nat : /\ Issue("viewModel", v)
                           /\ viewModels' \subseteq viewModels \cup {v}
      BY <2>2
    <3>2. "viewModel" \in Kinds
      BY DEF Kinds
    <3>3. QED
      BY <1>t, <3>1, <3>2, IssuedIsFresh, VectorTypes
  <2>3. QED
    BY <2>1, <2>2
<1>2. /\ fileDependencies' \in [files' -> Seq(Known("artboard")')]
      /\ artboardDependencies' \in [artboards' -> Seq(Known("stateMachine")')]
  BY <1>t, <1>1 DEF TypeOK, DependenciesOfLive, Kinds
<1>3. TypeOK' /\ DependenciesOfLive'
  BY <1>t, <1>1, <1>2, VectorTypes, TypesOfParts DEF Kinds
<1>4. QED
  BY <1>3 DEF IInv, OneOwner, Owned

LEMMA StepIInv == IInv /\ [Next]_vars => IInv'
<1> SUFFICES ASSUME IInv, [Next]_vars PROVE IInv'
  OBVIOUS
<1>1. CASE LoadFile
  BY <1>1, LoadFileStep
<1>2. ASSUME NEW f \in Known("file"), FileCommand(f)
      PROVE  IInv'
  <2>1. CASE DeleteFile(f)
    BY <2>1, DeleteFileStep
  <2>2. CASE \/ ListOfFile(f) \/ ListViewModels(f)
             \/ ListProperties(f) \/ ListInstanceNames(f)
    BY <2>2, LookupKeepsIInv
    DEF ListOfFile, ListViewModels, ListProperties, ListInstanceNames
  <2>3. CASE InstantiateArtboard(f)
    BY <2>3, InstantiateArtboardStep
  <2>4. CASE InstantiateViewModel(f)
    BY <2>4, ViewModelStep DEF InstantiateViewModel
  <2>5. QED
    BY <1>2, <2>1, <2>2, <2>3, <2>4 DEF FileCommand
<1>3. ASSUME NEW a \in Known("artboard"), ArtboardCommand(a)
      PROVE  IInv'
  <2>1. CASE DeleteArtboard(a)
    BY <2>1, DeleteArtboardStep
  <2>2. CASE ListStateMachines(a)
    BY <2>2, LookupKeepsIInv DEF ListStateMachines
  <2>3. CASE InstantiateStateMachine(a)
    BY <2>3, InstantiateStateMachineStep
  <2>4. ASSUME NEW f, GetDefaultViewModel(a, f)
        PROVE  IInv'
    BY <2>4, LookupKeepsIInv DEF GetDefaultViewModel
  <2>5. ASSUME NEW f, InstantiateViewModelForArtboard(f, a)
        PROVE  IInv'
    BY <2>5, ViewModelStep DEF InstantiateViewModelForArtboard
  <2>6. QED
    BY <1>3, <2>1, <2>2, <2>3, <2>4, <2>5 DEF ArtboardCommand
<1>4. ASSUME NEW s \in Known("stateMachine"), StateMachineCommand(s)
      PROVE  IInv'
  BY <1>4, DeleteStateMachineStep, LookupKeepsIInv
  DEF StateMachineCommand, AdvanceStateMachine, PointerEvent,
      BindViewModelInstance
<1>5. ASSUME NEW v \in Known("viewModel"), ViewModelCommand(v)
      PROVE  IInv'
  <2>1. CASE DeleteViewModel(v)
    <3>1. UNCHANGED issued /\ viewModels' \subseteq viewModels
      BY <2>1 DEF DeleteViewModel
    <3>2. QED
      BY <2>1, <3>1, ViewModelStep DEF DeleteViewModel
  <2>2. CASE RefNestedViewModel(v) \/ RefListViewModel(v)
    <3>1. /\ UNCHANGED <<files, artboards, stateMachines, fileDependencies,
                         artboardDependencies>>
          /\ \E w \in Nat : /\ Issue("viewModel", w)
                            /\ viewModels' \subseteq viewModels \cup {w}
      <4>1. CASE RefNestedViewModel(v)
        BY <4>1 DEF RefNestedViewModel
      <4>2. CASE RefListViewModel(v)
        BY <4>2 DEF RefListViewModel
      <4>3. QED
        BY <2>2, <4>1, <4>2
    <3>2. QED
      BY <3>1, ViewModelStep
  <2>3. CASE EditList(v) \/ SetValue(v) \/ GetListSize(v) \/ GetPropertyValue(v)
    BY <2>3, LookupKeepsIInv DEF EditList, SetValue, GetListSize, GetPropertyValue
  <2>4. ASSUME NEW w, AddListValue(v, w) \/ SetNestedViewModel(v, w)
                        \/ SetArtboard(v, w)
        PROVE  IInv'
    BY <2>4, LookupKeepsIInv DEF AddListValue, SetNestedViewModel, SetArtboard
  <2>5. QED
    BY <1>5, <2>1, <2>2, <2>3, <2>4 DEF ViewModelCommand
<1>6. CASE UNCHANGED vars
  BY <1>6, LookupKeepsIInv DEF vars
<1>7. QED
  BY <1>1, <1>2, <1>3, <1>4, <1>5, <1>6 DEF Next

\* The handle maps and vectors are what the comments in command_server.hpp say
\* of them, in every reachable state and for any number of handles.
THEOREM ResourceInvariant == Spec => []IInv
  BY InitIInv, StepIInv, PTL DEF Spec

\* No map or vector holds a handle that was not issued.
THEOREM ResourceTypes == Spec => []TypeOK
  BY ResourceInvariant, PTL DEF IInv

\* The assertions of instantiateArtboard and instantiateStateMachine hold.
THEOREM DependencyAssertionsHold == Spec => []DependenciesOfLive
  BY ResourceInvariant, PTL DEF IInv

\* A live artboard has one live file and a live state machine one live artboard.
THEOREM NobodyIsOrphaned == Spec => []NoOrphans
<1>1. IInv => NoOrphans
  <2> SUFFICES ASSUME IInv PROVE NoOrphans
    OBVIOUS
  <2>t. /\ DependenciesOfLive
        /\ OneOwner(fileDependencies) /\ OneOwner(artboardDependencies)
        /\ Owned(artboards, files, fileDependencies)
        /\ Owned(stateMachines, artboards, artboardDependencies)
    BY DEF IInv
  <2>1. ASSUME NEW a \in artboards
        PROVE  \E f \in files : \A g \in DOMAIN fileDependencies :
                  a \in ToSet(fileDependencies[g]) <=> g = f
    <3>1. PICK f \in files : a \in ToSet(fileDependencies[f])
      BY <2>t DEF Owned
    <3>2. QED
      BY <2>t, <3>1 DEF OneOwner, DependenciesOfLive
  <2>2. ASSUME NEW s \in stateMachines
        PROVE  \E a \in artboards : \A b \in DOMAIN artboardDependencies :
                  s \in ToSet(artboardDependencies[b]) <=> b = a
    <3>1. PICK a \in artboards : s \in ToSet(artboardDependencies[a])
      BY <2>t DEF Owned
    <3>2. QED
      BY <2>t, <3>1 DEF OneOwner, DependenciesOfLive
  <2>3. QED
    BY <2>1, <2>2 DEF NoOrphans
<1>2. QED
  BY <1>1, ResourceInvariant, PTL

(***************************************************************************)
(* The refinement of ResourceTree                                          *)
(***************************************************************************)

\* The edges of the forest that these maps and vectors stand for.
IsEdge(e, fs, as, ss, vs, fileDeps, artboardDeps) ==
    \/ \E h \in fs : e = <<Resource("file", h), NoOwner>>
    \/ \E h \in vs : e = <<Resource("viewModel", h), NoOwner>>
    \/ \E f \in DOMAIN fileDeps : \E h \in ToSet(fileDeps[f]) \cap as :
          e = <<Resource("artboard", h), Resource("file", f)>>
    \/ \E a \in DOMAIN artboardDeps : \E h \in ToSet(artboardDeps[a]) \cap ss :
          e = <<Resource("stateMachine", h), Resource("artboard", a)>>

\* The forest holds exactly the edges of the maps and vectors ...
LEMMA ForestEdges ==
    \A e : e \in Forest <=> IsEdge(e, files, artboards, stateMachines,
                                   viewModels, fileDependencies,
                                   artboardDependencies)
  BY KindsAreFour DEF Forest, Listed, IsEdge

\* ... and so it does after a step.
LEMMA ForestEdgesNext ==
    \A e : e \in Forest' <=> IsEdge(e, files', artboards', stateMachines',
                                    viewModels', fileDependencies',
                                    artboardDependencies')
<1> DEFINE Edges == \A e :
       e \in Forest <=> IsEdge(e, files, artboards, stateMachines, viewModels,
                               fileDependencies, artboardDependencies)
<1>1. Edges
  BY ForestEdges
<1>2. Edges'
  BY <1>1, PTL
<1>3. QED
  BY <1>2 DEF IsEdge, NoOwner, Resource, ToSet

\* Resources of different kinds or handles differ, and none is the root.
LEMMA ResourcesDiffer ==
    /\ \A k, l, h, g : Resource(k, h) = Resource(l, g) <=> k = l /\ h = g
    /\ \A h : \A k \in Kinds : Resource(k, h) # NoOwner
  BY DEF Resource, NoOwner, Kinds

\* The four kinds of edges tell the kind of both ends.
LEMMA EdgeEnds ==
    ASSUME NEW e \in Forest
    PROVE  /\ e = <<e[1], e[2]>>
           /\ \E k \in Kinds : \E h \in Live[k] : e[1] = Resource(k, h)
  BY ForestEdges, KindsAreFour DEF IsEdge, Kinds

\* The live resources of the forest are those of the maps.
LEMMA LiveResources ==
    ASSUME IInv
    PROVE  \A k \in Kinds : \A h : Resource(k, h) \in Tree!Live <=> h \in Live[k]
<1>0. /\ Owned(artboards, files, fileDependencies)
      /\ Owned(stateMachines, artboards, artboardDependencies)
      /\ DependenciesOfLive
  BY DEF IInv
<1>1. ASSUME NEW k \in Kinds, NEW h, Resource(k, h) \in Tree!Live
      PROVE  h \in Live[k]
  <2>1. PICK e \in Forest : Resource(k, h) = e[1]
    BY <1>1 DEF Tree!Live
  <2>2. PICK l \in Kinds : \E g \in Live[l] : e[1] = Resource(l, g)
    BY EdgeEnds
  <2>3. QED
    BY <2>1, <2>2, ResourcesDiffer
<1>2. ASSUME NEW k \in Kinds, NEW h \in Live[k], NEW o,
             <<Resource(k, h), o>> \in Forest
      PROVE  Resource(k, h) \in Tree!Live
  BY <1>2 DEF Tree!Live
<1>3. ASSUME NEW k \in Kinds, NEW h \in Live[k]
      PROVE  \E o : <<Resource(k, h), o>> \in Forest
  <2>1. CASE k = "file"
    BY <1>3, <2>1, ForestEdges, KindsAreFour DEF IsEdge
  <2>2. CASE k = "viewModel"
    BY <1>3, <2>2, ForestEdges, KindsAreFour DEF IsEdge
  <2>3. CASE k = "artboard"
    <3>1. PICK f \in files : h \in ToSet(fileDependencies[f])
      BY <1>0, <1>3, <2>3, KindsAreFour DEF Owned
    <3>2. IsEdge(<<Resource(k, h), Resource("file", f)>>, files, artboards,
                 stateMachines, viewModels, fileDependencies,
                 artboardDependencies)
      BY <1>0, <1>3, <2>3, <3>1, KindsAreFour DEF IsEdge, DependenciesOfLive
    <3>3. QED
      BY <3>2, ForestEdges
  <2>4. CASE k = "stateMachine"
    <3>1. PICK a \in artboards : h \in ToSet(artboardDependencies[a])
      BY <1>0, <1>3, <2>4, KindsAreFour DEF Owned
    <3>2. IsEdge(<<Resource(k, h), Resource("artboard", a)>>, files, artboards,
                 stateMachines, viewModels, fileDependencies,
                 artboardDependencies)
      BY <1>0, <1>3, <2>4, <3>1, KindsAreFour DEF IsEdge, DependenciesOfLive
    <3>3. QED
      BY <3>2, ForestEdges
  <2>5. QED
    BY <2>1, <2>2, <2>3, <2>4 DEF Kinds
<1>4. QED
  BY <1>1, <1>2, <1>3

\* A new edge is a creation of the abstract forest.
LEMMA EdgeIsCreated ==
    ASSUME IInv, NEW k \in Kinds, NEW h \in 1..Limit(k), h \notin Live[k],
           NEW o \in Tree!Live \cup {NoOwner},
           \A e : e \in Forest' <=> e \in Forest \/ e = <<Resource(k, h), o>>
    PROVE  Tree!TreeNext
<1> DEFINE edge == <<Resource(k, h), o>>
<1>1. Resource(k, h) \notin Tree!Live
  BY LiveResources
<1>2. edge \in Forest' \ Forest /\ Forest' = Forest \cup {edge}
  BY <1>1 DEF Tree!Live
<1>3. edge[1] = Resource(k, h) /\ edge[2] = o
  OBVIOUS
<1>4. Tree!Create(edge[1], edge[2])
  BY <1>1, <1>2, <1>3 DEF Tree!Create
<1>5. QED
  BY <1>2, <1>4 DEF Tree!TreeNext

\* Edges that go together with everything below one of them are a deletion.
LEMMA SubtreeIsDeleted ==
    ASSUME NEW r \in Tree!Live,
           \A e : e \in Forest' <=> /\ e \in Forest
                                    /\ e[1] \notin {r} \cup Tree!Below(r)
    PROVE  Tree!TreeNext
<1>1. PICK e \in Forest : e[1] = r
  BY DEF Tree!Live
<1>2. e \in Forest \ Forest'
  BY <1>1
<1>3. Forest' = {d \in Forest : d[1] \notin {r} \cup Tree!Below(r)}
  OBVIOUS
<1>4. Tree!Delete(e[1])
  BY <1>1, <1>3 DEF Tree!Delete
<1>5. QED
  BY <1>2, <1>4 DEF Tree!TreeNext

\* Who lies below a resource: the resource, its children, theirs.
LEMMA BelowMembers ==
    ASSUME NEW r, NEW x
    PROVE  x \in Tree!Below(r) <=>
              \/ \E e \in Forest : e[2] = r /\ e[1] = x
              \/ \E d, e \in Forest : d[2] = r /\ e[2] = d[1] /\ e[1] = x
  BY DEF Tree!Below

\* The same maps and vectors are the same forest.
LEMMA SameForest ==
    ASSUME UNCHANGED maps
    PROVE  Forest' = Forest
  BY DEF maps, Forest, Listed, Live

\* A loaded file is a new child of the root; a failed load changes nothing.
LEMMA LoadFileCreates == IInv /\ LoadFile => Tree!TreeNext \/ Forest' = Forest
<1> SUFFICES ASSUME IInv, NEW f \in 1..MaxFiles, Issue("file", f),
                    \/ /\ files' = files \cup {f}
                       /\ fileDependencies' = With(fileDependencies, f, <<>>)
                    \/ UNCHANGED <<files, fileDependencies>>,
                    UNCHANGED <<artboards, stateMachines, viewModels,
                                artboardDependencies>>
             PROVE  Tree!TreeNext \/ Forest' = Forest
  BY DEF LoadFile
<1>1. CASE UNCHANGED <<files, fileDependencies>>
  BY <1>1, SameForest DEF maps
<1>2. CASE /\ files' = files \cup {f}
           /\ fileDependencies' = With(fileDependencies, f, <<>>)
  <2>1. "file" \in Kinds /\ f \in Nat /\ f \in 1..Limit("file")
    BY DEF Kinds, Limit
  <2>2. f \notin Live["file"] /\ f \notin files
    BY <2>1, IssuedIsFresh, KindsAreFour
  <2>3. /\ DOMAIN fileDependencies' = files \cup {f}
        /\ ToSet(fileDependencies'[f]) = {}
        /\ \A g \in files : fileDependencies'[g] = fileDependencies[g]
        /\ DOMAIN fileDependencies = files
    BY <1>2, <2>2, EmptyVector DEF With, IInv, DependenciesOfLive
  <2>4. \A e : e \in Forest' <=> e \in Forest \/ e = <<Resource("file", f), NoOwner>>
    BY <1>2, <2>3, ForestEdges, ForestEdgesNext DEF IsEdge
  <2>5. QED
    BY <2>1, <2>2, <2>4, EdgeIsCreated
<1>3. QED
  BY <1>1, <1>2

\* An artboard is created below its file ...
LEMMA InstantiateArtboardCreates ==
    ASSUME IInv, NEW f \in Known("file"), InstantiateArtboard(f)
    PROVE  Tree!TreeNext \/ Forest' = Forest
<1>0. PICK a \in 1..MaxArtboards :
        /\ Issue("artboard", a)
        /\ \/ /\ f \in files
              /\ fileDependencies' =
                   [fileDependencies EXCEPT ![f] = Append(@, a)]
              /\ artboardDependencies' = With(artboardDependencies, a, <<>>)
              /\ artboards' = artboards \cup {a}
           \/ UNCHANGED <<fileDependencies, artboardDependencies, artboards>>
        /\ UNCHANGED <<files, stateMachines, viewModels>>
  BY DEF InstantiateArtboard
<1>1. CASE UNCHANGED <<fileDependencies, artboardDependencies, artboards>>
  BY <1>0, <1>1, SameForest DEF maps
<1>2. CASE /\ f \in files
           /\ fileDependencies' =
                [fileDependencies EXCEPT ![f] = Append(@, a)]
           /\ artboardDependencies' = With(artboardDependencies, a, <<>>)
           /\ artboards' = artboards \cup {a}
  <2>0. TypeOK /\ DependenciesOfLive
    BY DEF IInv
  <2>1. {"artboard", "file"} \subseteq Kinds /\ a \in Nat /\ a \in 1..Limit("artboard")
    BY DEF Kinds, Limit
  <2>2. a \notin Known("artboard") /\ a \notin Live["artboard"] /\ a \notin artboards
    BY <1>0, <2>1, IssuedIsFresh, KindsAreFour
  <2>3. \A g \in files : a \notin ToSet(fileDependencies[g])
    BY <2>0, <2>2, VectorTypes
  <2>4. /\ DOMAIN fileDependencies = files /\ DOMAIN fileDependencies' = files
        /\ fileDependencies'[f] = Append(fileDependencies[f], a)
        /\ \A g \in files \ {f} : fileDependencies'[g] = fileDependencies[g]
    BY <1>2, <2>0 DEF DependenciesOfLive
  <2>5. ToSet(fileDependencies'[f]) = ToSet(fileDependencies[f]) \cup {a}
    BY <1>2, <2>0, <2>4, VectorTypes, AppendToVector
  <2>6. /\ DOMAIN artboardDependencies = artboards
        /\ DOMAIN artboardDependencies' = artboards \cup {a}
        /\ ToSet(artboardDependencies'[a]) = {}
        /\ \A b \in artboards : artboardDependencies'[b] = artboardDependencies[b]
    BY <1>2, <2>0, <2>2, EmptyVector DEF With, DependenciesOfLive
  <2>7. \A g \in files : ToSet(fileDependencies'[g]) \cap artboards'
           = (ToSet(fileDependencies[g]) \cap artboards)
               \cup (IF g = f THEN {a} ELSE {})
    BY <1>2, <2>3, <2>4, <2>5
  <2>8. \A e : e \in Forest' <=> \/ e \in Forest
                                 \/ e = <<Resource("artboard", a), Resource("file", f)>>
    BY <1>0, <1>2, <2>4, <2>6, <2>7, ForestEdges, ForestEdgesNext DEF IsEdge
  <2>9. Resource("file", f) \in Tree!Live
    BY <1>2, <2>1, LiveResources, KindsAreFour
  <2>10. QED
    BY <2>1, <2>2, <2>8, <2>9, EdgeIsCreated
<1>3. QED
  BY <1>0, <1>1, <1>2

\* ... and a state machine below its artboard.
LEMMA InstantiateStateMachineCreates ==
    ASSUME IInv, NEW a \in Known("artboard"), InstantiateStateMachine(a)
    PROVE  Tree!TreeNext \/ Forest' = Forest
<1>0. PICK s \in 1..MaxStateMachines :
        /\ Issue("stateMachine", s)
        /\ \/ /\ a \in artboards
              /\ stateMachines' = stateMachines \cup {s}
              /\ artboardDependencies' =
                   [artboardDependencies EXCEPT ![a] = Append(@, s)]
           \/ UNCHANGED <<stateMachines, artboardDependencies>>
        /\ UNCHANGED <<files, artboards, viewModels, fileDependencies>>
  BY DEF InstantiateStateMachine
<1>1. CASE UNCHANGED <<stateMachines, artboardDependencies>>
  BY <1>0, <1>1, SameForest DEF maps
<1>2. CASE /\ a \in artboards
           /\ stateMachines' = stateMachines \cup {s}
           /\ artboardDependencies' =
                [artboardDependencies EXCEPT ![a] = Append(@, s)]
  <2>0. TypeOK /\ DependenciesOfLive
    BY DEF IInv
  <2>1. /\ {"artboard", "stateMachine"} \subseteq Kinds
        /\ s \in Nat /\ s \in 1..Limit("stateMachine")
    BY DEF Kinds, Limit
  <2>2. s \notin Known("stateMachine") /\ s \notin Live["stateMachine"]
    BY <1>0, <2>1, IssuedIsFresh, KindsAreFour
  <2>3. \A b \in artboards : s \notin ToSet(artboardDependencies[b])
    BY <2>0, <2>2, VectorTypes
  <2>4. /\ DOMAIN artboardDependencies = artboards
        /\ DOMAIN artboardDependencies' = artboards
        /\ artboardDependencies'[a] = Append(artboardDependencies[a], s)
        /\ \A b \in artboards \ {a} :
              artboardDependencies'[b] = artboardDependencies[b]
    BY <1>2, <2>0 DEF DependenciesOfLive
  <2>5. ToSet(artboardDependencies'[a]) = ToSet(artboardDependencies[a]) \cup {s}
    BY <1>2, <2>0, <2>4, VectorTypes, AppendToVector
  <2>6. \A b \in artboards : ToSet(artboardDependencies'[b]) \cap stateMachines'
           = (ToSet(artboardDependencies[b]) \cap stateMachines)
               \cup (IF b = a THEN {s} ELSE {})
    BY <1>2, <2>3, <2>4, <2>5
  <2>7. \A e : e \in Forest' <=>
           \/ e \in Forest
           \/ e = <<Resource("stateMachine", s), Resource("artboard", a)>>
    BY <1>0, <1>2, <2>4, <2>6, ForestEdges, ForestEdgesNext DEF IsEdge
  <2>8. Resource("artboard", a) \in Tree!Live
    BY <1>2, <2>1, LiveResources, KindsAreFour
  <2>9. QED
    BY <2>1, <2>2, <2>7, <2>8, EdgeIsCreated
<1>3. QED
  BY <1>0, <1>1, <1>2

\* Who lies directly below whom.
LEMMA Children ==
    ASSUME DependenciesOfLive
    PROVE  /\ \A f \in files : \A x :
                 (\E e \in Forest : e[2] = Resource("file", f) /\ e[1] = x) <=>
                    \E a \in ToSet(fileDependencies[f]) \cap artboards :
                       x = Resource("artboard", a)
           /\ \A a \in artboards : \A x :
                 (\E e \in Forest : e[2] = Resource("artboard", a) /\ e[1] = x) <=>
                    \E s \in ToSet(artboardDependencies[a]) \cap stateMachines :
                       x = Resource("stateMachine", s)
           /\ \A e \in Forest : \A h : /\ e[2] # Resource("stateMachine", h)
                                      /\ e[2] # Resource("viewModel", h)
<1>0. DOMAIN fileDependencies = files /\ DOMAIN artboardDependencies = artboards
  BY DEF DependenciesOfLive
<1>1. ASSUME NEW f \in files, NEW x
      PROVE  (\E e \in Forest : e[2] = Resource("file", f) /\ e[1] = x) <=>
                \E a \in ToSet(fileDependencies[f]) \cap artboards :
                   x = Resource("artboard", a)
  <2>1. ASSUME NEW e \in Forest, e[2] = Resource("file", f), e[1] = x
        PROVE  \E a \in ToSet(fileDependencies[f]) \cap artboards :
                  x = Resource("artboard", a)
    BY <1>0, <2>1, ForestEdges, ResourcesDiffer DEF IsEdge, Kinds
  <2>2. ASSUME NEW a \in ToSet(fileDependencies[f]) \cap artboards
        PROVE  <<Resource("artboard", a), Resource("file", f)>> \in Forest
    BY <1>0, ForestEdges DEF IsEdge
  <2>3. QED
    BY <2>1, <2>2
<1>2. ASSUME NEW a \in artboards, NEW x
      PROVE  (\E e \in Forest : e[2] = Resource("artboard", a) /\ e[1] = x) <=>
                \E s \in ToSet(artboardDependencies[a]) \cap stateMachines :
                   x = Resource("stateMachine", s)
  <2>1. ASSUME NEW e \in Forest, e[2] = Resource("artboard", a), e[1] = x
        PROVE  \E s \in ToSet(artboardDependencies[a]) \cap stateMachines :
                  x = Resource("stateMachine", s)
    BY <1>0, <2>1, ForestEdges, ResourcesDiffer DEF IsEdge, Kinds
  <2>2. ASSUME NEW s \in ToSet(artboardDependencies[a]) \cap stateMachines
        PROVE  <<Resource("stateMachine", s), Resource("artboard", a)>> \in Forest
    BY <1>0, ForestEdges DEF IsEdge
  <2>3. QED
    BY <2>1, <2>2
<1>3. ASSUME NEW e \in Forest, NEW h
      PROVE  e[2] # Resource("stateMachine", h) /\ e[2] # Resource("viewModel", h)
  BY <1>3, ForestEdges, ResourcesDiffer DEF IsEdge, Kinds
<1>4. QED
  BY <1>1, <1>2, <1>3

\* The subtree of a resource of each kind.
LEMMA BelowEach ==
    ASSUME DependenciesOfLive
    PROVE  /\ \A f \in files : \A x : x \in Tree!Below(Resource("file", f)) <=>
                 \E a \in ToSet(fileDependencies[f]) \cap artboards :
                    \/ x = Resource("artboard", a)
                    \/ \E s \in ToSet(artboardDependencies[a]) \cap stateMachines :
                          x = Resource("stateMachine", s)
           /\ \A a \in artboards : \A x :
                 x \in Tree!Below(Resource("artboard", a)) <=>
                    \E s \in ToSet(artboardDependencies[a]) \cap stateMachines :
                       x = Resource("stateMachine", s)
           /\ \A h, x : /\ x \notin Tree!Below(Resource("stateMachine", h))
                        /\ x \notin Tree!Below(Resource("viewModel", h))
<1>1. ASSUME NEW f \in files, NEW x
      PROVE  x \in Tree!Below(Resource("file", f)) <=>
                 \E a \in ToSet(fileDependencies[f]) \cap artboards :
                    \/ x = Resource("artboard", a)
                    \/ \E s \in ToSet(artboardDependencies[a]) \cap stateMachines :
                          x = Resource("stateMachine", s)
  <2> DEFINE listed == ToSet(fileDependencies[f]) \cap artboards
             child(q, y) == \E e \in Forest : e[2] = q /\ e[1] = y
  <2>1. \A y : child(Resource("file", f), y) <=>
                 \E a \in listed : y = Resource("artboard", a)
    BY Children
  <2>2. \A a \in listed : \A y : child(Resource("artboard", a), y) <=>
           \E s \in ToSet(artboardDependencies[a]) \cap stateMachines :
              y = Resource("stateMachine", s)
    BY Children
  <2>3. x \in Tree!Below(Resource("file", f)) <=>
           \/ child(Resource("file", f), x)
           \/ \E y : child(Resource("file", f), y) /\ child(y, x)
    BY BelowMembers
  <2> HIDE DEF listed, child
  <2>4. x \in Tree!Below(Resource("file", f)) <=>
           \E a \in listed : \/ x = Resource("artboard", a)
                             \/ child(Resource("artboard", a), x)
    BY <2>1, <2>3
  <2>5. QED
    BY <2>2, <2>4 DEF listed
<1>2. ASSUME NEW a \in artboards, NEW x
      PROVE  x \in Tree!Below(Resource("artboard", a)) <=>
                    \E s \in ToSet(artboardDependencies[a]) \cap stateMachines :
                       x = Resource("stateMachine", s)
  BY Children, BelowMembers
<1>3. ASSUME NEW h, NEW x
      PROVE  /\ x \notin Tree!Below(Resource("stateMachine", h))
             /\ x \notin Tree!Below(Resource("viewModel", h))
  BY Children, BelowMembers
<1>4. QED
  BY <1>1, <1>2, <1>3

\* A state machine is a leaf: deleting it takes one edge.
LEMMA DeleteStateMachineDeletes ==
    ASSUME IInv, NEW s, DeleteStateMachine(s)
    PROVE  Tree!TreeNext \/ Forest' = Forest
<1>0. DependenciesOfLive
  BY DEF IInv
<1>1. /\ stateMachines' = stateMachines \ {s}
      /\ UNCHANGED <<issued, files, artboards, viewModels, fileDependencies,
                     artboardDependencies>>
  BY DEF DeleteStateMachine
<1>2. CASE s \notin stateMachines
  <2>1. UNCHANGED maps
    BY <1>1, <1>2 DEF maps
  <2>2. QED
    BY <2>1, SameForest
<1>3. CASE s \in stateMachines
  <2>1. Resource("stateMachine", s) \in Tree!Live
    BY <1>3, LiveResources, KindsAreFour DEF Kinds
  <2>2. \A e : e \in Forest' <=>
           e \in Forest /\ e[1] # Resource("stateMachine", s)
    BY <1>1, ForestEdges, ForestEdgesNext, ResourcesDiffer DEF IsEdge
  <2>3. QED
    BY <1>0, <2>1, <2>2, BelowEach, SubtreeIsDeleted
<1>4. QED
  BY <1>2, <1>3

\* So is a view model.
LEMMA DeleteViewModelDeletes ==
    ASSUME IInv, NEW v, DeleteViewModel(v)
    PROVE  Tree!TreeNext \/ Forest' = Forest
<1>0. DependenciesOfLive
  BY DEF IInv
<1>1. /\ viewModels' = viewModels \ {v}
      /\ UNCHANGED <<issued, files, artboards, stateMachines, fileDependencies,
                     artboardDependencies>>
  BY DEF DeleteViewModel
<1>2. CASE v \notin viewModels
  <2>1. UNCHANGED maps
    BY <1>1, <1>2 DEF maps
  <2>2. QED
    BY <2>1, SameForest
<1>3. CASE v \in viewModels
  <2>1. Resource("viewModel", v) \in Tree!Live
    BY <1>3, LiveResources, KindsAreFour DEF Kinds
  <2>2. \A e : e \in Forest' <=> e \in Forest /\ e[1] # Resource("viewModel", v)
    BY <1>1, ForestEdges, ForestEdgesNext, ResourcesDiffer DEF IsEdge
  <2>3. QED
    BY <1>0, <2>1, <2>2, BelowEach, SubtreeIsDeleted
<1>4. QED
  BY <1>2, <1>3

\* Resources go, the vectors of the others stay, and no owner goes without what
\* it owns: their edges are what the forest loses.
LEMMA ForestShrinks ==
    ASSUME DependenciesOfLive, DependenciesOfLive', NEW gone,
           files' = {f \in files : Resource("file", f) \notin gone},
           artboards' = {a \in artboards : Resource("artboard", a) \notin gone},
           stateMachines' = {s \in stateMachines :
                               Resource("stateMachine", s) \notin gone},
           viewModels' = {v \in viewModels : Resource("viewModel", v) \notin gone},
           \A f \in files' : fileDependencies'[f] = fileDependencies[f],
           \A a \in artboards' : artboardDependencies'[a] = artboardDependencies[a],
           \A f \in files : Resource("file", f) \in gone =>
              \A a \in ToSet(fileDependencies[f]) \cap artboards :
                 Resource("artboard", a) \in gone,
           \A a \in artboards : Resource("artboard", a) \in gone =>
              \A s \in ToSet(artboardDependencies[a]) \cap stateMachines :
                 Resource("stateMachine", s) \in gone
    PROVE  \A e : e \in Forest' <=> e \in Forest /\ e[1] \notin gone
<1>d. /\ DOMAIN fileDependencies = files /\ DOMAIN fileDependencies' = files'
      /\ DOMAIN artboardDependencies = artboards
      /\ DOMAIN artboardDependencies' = artboards'
  BY DEF DependenciesOfLive
<1>1. ASSUME NEW e \in Forest'
      PROVE  e \in Forest /\ e[1] \notin gone
  <2>1. CASE \E h \in files' : e = <<Resource("file", h), NoOwner>>
    BY <2>1, ForestEdges DEF IsEdge
  <2>2. CASE \E h \in viewModels' : e = <<Resource("viewModel", h), NoOwner>>
    BY <2>2, ForestEdges DEF IsEdge
  <2>3. ASSUME NEW f \in files', NEW h \in ToSet(fileDependencies'[f]) \cap artboards',
               e = <<Resource("artboard", h), Resource("file", f)>>
        PROVE  e \in Forest /\ e[1] \notin gone
    BY <1>d, <2>3, ForestEdges DEF IsEdge
  <2>4. ASSUME NEW a \in artboards',
               NEW h \in ToSet(artboardDependencies'[a]) \cap stateMachines',
               e = <<Resource("stateMachine", h), Resource("artboard", a)>>
        PROVE  e \in Forest /\ e[1] \notin gone
    BY <1>d, <2>4, ForestEdges DEF IsEdge
  <2>5. QED
    BY <1>d, <2>1, <2>2, <2>3, <2>4, ForestEdgesNext DEF IsEdge
<1>2. ASSUME NEW e \in Forest, e[1] \notin gone
      PROVE  e \in Forest'
  <2>1. CASE \E h \in files : e = <<Resource("file", h), NoOwner>>
    BY <1>2, <2>1, ForestEdgesNext DEF IsEdge
  <2>2. CASE \E h \in viewModels : e = <<Resource("viewModel", h), NoOwner>>
    BY <1>2, <2>2, ForestEdgesNext DEF IsEdge
  <2>3. ASSUME NEW f \in files, NEW h \in ToSet(fileDependencies[f]) \cap artboards,
               e = <<Resource("artboard", h), Resource("file", f)>>
        PROVE  e \in Forest'
    <3>1. h \in artboards' /\ f \in files'
      BY <1>2, <2>3
    <3>2. QED
      BY <1>d, <2>3, <3>1, ForestEdgesNext DEF IsEdge
  <2>4. ASSUME NEW a \in artboards,
               NEW h \in ToSet(artboardDependencies[a]) \cap stateMachines,
               e = <<Resource("stateMachine", h), Resource("artboard", a)>>
        PROVE  e \in Forest'
    <3>1. h \in stateMachines' /\ a \in artboards'
      BY <1>2, <2>4
    <3>2. QED
      BY <1>d, <2>4, <3>1, ForestEdgesNext DEF IsEdge
  <2>5. QED
    BY <1>d, <2>1, <2>2, <2>3, <2>4, ForestEdges DEF IsEdge
<1>3. QED
  BY <1>1, <1>2

\* Deleting an artboard takes the subtree of the artboard, its machines.
LEMMA DeleteArtboardDeletes ==
    ASSUME IInv, IInv', NEW a, DeleteArtboard(a)
    PROVE  Tree!TreeNext \/ Forest' = Forest
<1>0. /\ DependenciesOfLive /\ DependenciesOfLive'
      /\ OneOwner(artboardDependencies) /\ TypeOK
  BY DEF IInv
<1>1. /\ artboards' = artboards \ {a}
      /\ stateMachines' = stateMachines \ UNION {ToSet(artboardDependencies[b]) :
                                                 b \in {a} \cap artboards}
      /\ artboardDependencies' = Without(artboardDependencies, {a} \cap artboards)
      /\ UNCHANGED <<issued, files, viewModels, fileDependencies>>
  BY DEF DeleteArtboard, CleanupArtboards
<1>d. DOMAIN fileDependencies = files /\ DOMAIN artboardDependencies = artboards
  BY <1>0 DEF DependenciesOfLive
<1>2. CASE a \notin artboards
  <2>1. {a} \cap artboards = {} /\ artboards' = artboards
    BY <1>1, <1>2
  <2>2. stateMachines' = stateMachines
    BY <1>1, <2>1
  <2>3. artboardDependencies' = artboardDependencies
    BY <1>0, <1>1, <2>1 DEF Without, TypeOK
  <2>4. UNCHANGED maps
    BY <1>1, <2>1, <2>2, <2>3 DEF maps
  <2>5. QED
    BY <2>4, SameForest
<1>3. CASE a \in artboards
  <2> DEFINE gone == {Resource("artboard", a)} \cup Tree!Below(Resource("artboard", a))
  <2>1. {a} \cap artboards = {a}
    BY <1>3
  <2>2. /\ stateMachines' = stateMachines \ ToSet(artboardDependencies[a])
        /\ \A b \in artboards' : artboardDependencies'[b] = artboardDependencies[b]
    BY <1>1, <1>d, <2>1 DEF Without
  <2>3. Resource("artboard", a) \in Tree!Live
    BY <1>3, LiveResources, KindsAreFour DEF Kinds
  <2>4. \A x : x \in gone <=>
           \/ x = Resource("artboard", a)
           \/ \E s \in ToSet(artboardDependencies[a]) \cap stateMachines :
                 x = Resource("stateMachine", s)
    BY <1>0, <1>3, BelowEach
  <2> HIDE DEF gone
  <2>5. /\ \A h : Resource("file", h) \notin gone /\ Resource("viewModel", h) \notin gone
        /\ \A h : Resource("artboard", h) \in gone <=> h = a
        /\ \A h : Resource("stateMachine", h) \in gone <=>
                     h \in ToSet(artboardDependencies[a]) \cap stateMachines
    BY <2>4, ResourcesDiffer
  <2>6. \A e : e \in Forest' <=> e \in Forest /\ e[1] \notin gone
    <3>1. /\ files' = {f \in files : Resource("file", f) \notin gone}
          /\ artboards' = {b \in artboards : Resource("artboard", b) \notin gone}
          /\ stateMachines' = {s \in stateMachines :
                               Resource("stateMachine", s) \notin gone}
          /\ viewModels' = {v \in viewModels : Resource("viewModel", v) \notin gone}
      BY <1>1, <2>2, <2>5
    <3>2. \A f \in files' : fileDependencies'[f] = fileDependencies[f]
      BY <1>1
    <3>3. /\ \A f \in files : Resource("file", f) \in gone =>
                \A b \in ToSet(fileDependencies[f]) \cap artboards :
                   Resource("artboard", b) \in gone
          /\ \A b \in artboards : Resource("artboard", b) \in gone =>
                \A s \in ToSet(artboardDependencies[b]) \cap stateMachines :
                   Resource("stateMachine", s) \in gone
      BY <2>5
    <3>4. QED
      BY <1>0, <2>2, <3>1, <3>2, <3>3, ForestShrinks
  <2>7. QED
    BY <2>3, <2>6, SubtreeIsDeleted DEF gone
<1>4. QED
  BY <1>2, <1>3

\* Deleting a file takes the file, its artboards and their machines.
LEMMA DeleteFileDeletes ==
    ASSUME IInv, IInv', NEW f, DeleteFile(f)
    PROVE  Tree!TreeNext \/ Forest' = Forest
<1>0. /\ DependenciesOfLive /\ DependenciesOfLive' /\ TypeOK
  BY DEF IInv
<1> DEFINE dependents == IF f \in DOMAIN fileDependencies
                         THEN fileDependencies[f] ELSE <<>>
           cleaned == ToSet(dependents) \cap artboards
<1>1. /\ files' = files \ {f}
      /\ artboards' = artboards \ ToSet(dependents)
      /\ stateMachines' = stateMachines \ UNION {ToSet(artboardDependencies[b]) :
                                                 b \in cleaned}
      /\ artboardDependencies' = Without(artboardDependencies, cleaned)
      /\ fileDependencies' = Without(fileDependencies, {f})
      /\ UNCHANGED <<issued, viewModels>>
  BY DEF DeleteFile, CleanupArtboards
<1>d. DOMAIN fileDependencies = files /\ DOMAIN artboardDependencies = artboards
  BY <1>0 DEF DependenciesOfLive
<1>2. CASE f \notin files
  <2>1. ToSet(dependents) = {} /\ cleaned = {} /\ files' = files
    BY <1>1, <1>2, <1>d, EmptyVector
  <2>2. artboards' = artboards /\ stateMachines' = stateMachines
    BY <1>1, <2>1
  <2>3. artboardDependencies' = artboardDependencies
    BY <1>0, <1>1, <2>1 DEF Without, TypeOK
  <2>4. fileDependencies' = fileDependencies
    BY <1>0, <1>1, <1>2, <1>d DEF Without, TypeOK
  <2>5. UNCHANGED maps
    BY <1>1, <2>1, <2>2, <2>3, <2>4 DEF maps
  <2>6. QED
    BY <2>5, SameForest
<1>3. CASE f \in files
  <2> DEFINE gone == {Resource("file", f)} \cup Tree!Below(Resource("file", f))
  <2>1. cleaned = ToSet(fileDependencies[f]) \cap artboards
    BY <1>3, <1>d
  <2>2. /\ artboards' = artboards \ cleaned
        /\ \A b \in artboards' : artboardDependencies'[b] = artboardDependencies[b]
        /\ \A g \in files' : fileDependencies'[g] = fileDependencies[g]
    BY <1>1, <1>d DEF Without
  <2>3. Resource("file", f) \in Tree!Live
    BY <1>3, LiveResources, KindsAreFour DEF Kinds
  <2>4. \A x : x \in gone <=>
           \/ x = Resource("file", f)
           \/ \E a \in cleaned :
                 \/ x = Resource("artboard", a)
                 \/ \E s \in ToSet(artboardDependencies[a]) \cap stateMachines :
                       x = Resource("stateMachine", s)
    BY <1>0, <1>3, <2>1, BelowEach
  <2> HIDE DEF gone, cleaned
  <2>5. /\ \A h : Resource("viewModel", h) \notin gone
        /\ \A h : Resource("file", h) \in gone <=> h = f
        /\ \A h : Resource("artboard", h) \in gone <=> h \in cleaned
        /\ \A h : Resource("stateMachine", h) \in gone <=>
              \E a \in cleaned : h \in ToSet(artboardDependencies[a]) \cap stateMachines
    BY <2>4, ResourcesDiffer
  <2>6. \A e : e \in Forest' <=> e \in Forest /\ e[1] \notin gone
    <3>1. /\ files' = {g \in files : Resource("file", g) \notin gone}
          /\ artboards' = {b \in artboards : Resource("artboard", b) \notin gone}
          /\ viewModels' = {v \in viewModels : Resource("viewModel", v) \notin gone}
      BY <1>1, <2>2, <2>5
    <3>2. stateMachines' = {s \in stateMachines :
                               Resource("stateMachine", s) \notin gone}
      BY <1>1, <2>5
    <3>3. /\ \A g \in files : Resource("file", g) \in gone =>
                \A b \in ToSet(fileDependencies[g]) \cap artboards :
                   Resource("artboard", b) \in gone
          /\ \A b \in artboards : Resource("artboard", b) \in gone =>
                \A s \in ToSet(artboardDependencies[b]) \cap stateMachines :
                   Resource("stateMachine", s) \in gone
      BY <2>1, <2>5
    <3>4. QED
      BY <1>0, <2>2, <3>1, <3>2, <3>3, ForestShrinks
  <2>7. QED
    BY <2>3, <2>6, SubtreeIsDeleted DEF gone
<1>4. QED
  BY <1>2, <1>3

\* A view model is a root: a command adds one or none.
LEMMA ViewModelCreates ==
    ASSUME IInv, NEW v \in 1..MaxViewModels, Issue("viewModel", v),
           viewModels' = viewModels \cup {v} \/ UNCHANGED viewModels,
           UNCHANGED <<files, artboards, stateMachines, fileDependencies,
                       artboardDependencies>>
    PROVE  Tree!TreeNext \/ Forest' = Forest
<1>1. CASE UNCHANGED viewModels
  BY <1>1, SameForest DEF maps
<1>2. CASE viewModels' = viewModels \cup {v}
  <2>1. "viewModel" \in Kinds /\ v \in Nat /\ v \in 1..Limit("viewModel")
    BY DEF Kinds, Limit
  <2>2. v \notin Live["viewModel"]
    BY <2>1, IssuedIsFresh
  <2>3. \A e : e \in Forest' <=>
           e \in Forest \/ e = <<Resource("viewModel", v), NoOwner>>
    BY <1>2, ForestEdges, ForestEdgesNext DEF IsEdge
  <2>4. QED
    BY <2>1, <2>2, <2>3, EdgeIsCreated
<1>3. QED
  BY <1>1, <1>2

\* Commands that only look resources up leave the forest alone.
LEMMA LookupSame ==
    ASSUME UNCHANGED <<issued, maps>>
    PROVE  Forest' = Forest
  BY SameForest DEF maps

\* Every command is a creation, a deletion or a stutter of the forest.
LEMMA StepInTree == IInv /\ IInv' /\ [Next]_vars => [Tree!TreeNext]_Forest
<1> SUFFICES ASSUME IInv, IInv', [Next]_vars
             PROVE  Tree!TreeNext \/ Forest' = Forest
  OBVIOUS
<1>1. CASE LoadFile
  BY <1>1, LoadFileCreates
<1>2. ASSUME NEW f \in Known("file"), FileCommand(f)
      PROVE  Tree!TreeNext \/ Forest' = Forest
  <2>1. CASE DeleteFile(f)
    BY <2>1, DeleteFileDeletes
  <2>2. CASE \/ ListOfFile(f) \/ ListViewModels(f)
             \/ ListProperties(f) \/ ListInstanceNames(f)
    BY <2>2, LookupSame
    DEF ListOfFile, ListViewModels, ListProperties, ListInstanceNames
  <2>3. CASE InstantiateArtboard(f)
    BY <2>3, InstantiateArtboardCreates
  <2>4. CASE InstantiateViewModel(f)
    BY <2>4, ViewModelCreates DEF InstantiateViewModel
  <2>5. QED
    BY <1>2, <2>1, <2>2, <2>3, <2>4 DEF FileCommand
<1>3. ASSUME NEW a \in Known("artboard"), ArtboardCommand(a)
      PROVE  Tree!TreeNext \/ Forest' = Forest
  <2>1. CASE DeleteArtboard(a)
    BY <2>1, DeleteArtboardDeletes
  <2>2. CASE ListStateMachines(a)
    BY <2>2, LookupSame DEF ListStateMachines
  <2>3. CASE InstantiateStateMachine(a)
    BY <2>3, InstantiateStateMachineCreates
  <2>4. ASSUME NEW f, GetDefaultViewModel(a, f)
        PROVE  Tree!TreeNext \/ Forest' = Forest
    BY <2>4, LookupSame DEF GetDefaultViewModel
  <2>5. ASSUME NEW f, InstantiateViewModelForArtboard(f, a)
        PROVE  Tree!TreeNext \/ Forest' = Forest
    BY <2>5, ViewModelCreates DEF InstantiateViewModelForArtboard
  <2>6. QED
    BY <1>3, <2>1, <2>2, <2>3, <2>4, <2>5 DEF ArtboardCommand
<1>4. ASSUME NEW s \in Known("stateMachine"), StateMachineCommand(s)
      PROVE  Tree!TreeNext \/ Forest' = Forest
  BY <1>4, DeleteStateMachineDeletes, LookupSame
  DEF StateMachineCommand, AdvanceStateMachine, PointerEvent,
      BindViewModelInstance
<1>5. ASSUME NEW v \in Known("viewModel"), ViewModelCommand(v)
      PROVE  Tree!TreeNext \/ Forest' = Forest
  <2>1. CASE DeleteViewModel(v)
    BY <2>1, DeleteViewModelDeletes
  <2>2. CASE RefNestedViewModel(v)
    BY <2>2, ViewModelCreates DEF RefNestedViewModel
  <2>3. CASE RefListViewModel(v)
    BY <2>3, ViewModelCreates DEF RefListViewModel
  <2>4. CASE EditList(v) \/ SetValue(v) \/ GetListSize(v) \/ GetPropertyValue(v)
    BY <2>4, LookupSame DEF EditList, SetValue, GetListSize, GetPropertyValue
  <2>5. ASSUME NEW w, AddListValue(v, w) \/ SetNestedViewModel(v, w)
                        \/ SetArtboard(v, w)
        PROVE  Tree!TreeNext \/ Forest' = Forest
    BY <2>5, LookupSame DEF AddListValue, SetNestedViewModel, SetArtboard
  <2>6. QED
    BY <1>5, <2>1, <2>2, <2>3, <2>4, <2>5 DEF ViewModelCommand
<1>6. CASE UNCHANGED vars
  BY <1>6, LookupSame DEF vars
<1>7. QED
  BY <1>1, <1>2, <1>3, <1>4, <1>5, <1>6 DEF Next

\* The server implements the abstract forest of ResourceTree: whatever the
\* clients ask, a command creates one resource below a live owner, deletes one
\* with exactly the subtree below it, or leaves the forest as it is.
THEOREM ServerImplementsTree == Spec => ImplementsTree
<1>1. Init => Tree!TreeInit
  <2> SUFFICES ASSUME Init PROVE Forest = {}
    BY DEF Tree!TreeInit
  <2>1. \A e : e \notin Forest
    BY ForestEdges DEF Init, IsEdge
  <2>2. QED
    BY <2>1
<1>2. QED
  BY <1>1, StepInTree, ResourceInvariant, PTL
  DEF Spec, ImplementsTree, Tree!TreeSpec

(***************************************************************************)
(* Induction, and the places of members in FlattenSeq                      *)
(***************************************************************************)

\* Induction over the natural numbers for a set of them: every nonempty set of
\* naturals has a least member.
LEMMA LessIsWellFounded == IsWellFoundedOn({p \in Nat \X Nat : p[1] < p[2]}, Nat)
  BY NatLessThanWellFounded, Zenon DEF OpToRel

\* A set of natural numbers that is not empty has a least member ...
LEMMA LeastMember ==
    ASSUME NEW S \in SUBSET Nat, S # {}
    PROVE  \E n \in S : \A m \in S : ~ (m < n)
<1> DEFINE R == {p \in Nat \X Nat : p[1] < p[2]}
<1>1. IsWellFoundedOn(R, Nat)
  BY LessIsWellFounded
<1>2. S \subseteq Nat /\ S # {}
  OBVIOUS
<1> HIDE DEF R
<1>3. \E n \in S : \A m \in S : <<m, n>> \notin R
  BY <1>1, <1>2, WFMin, Zenon
<1>4. QED
  BY <1>2, <1>3 DEF R

\* ... so a set that holds 0 and every successor holds them all.
LEMMA SetInduction ==
    ASSUME NEW S \in SUBSET Nat, 0 \in S, \A n \in S : n + 1 \in S
    PROVE  S = Nat
<1> SUFFICES ASSUME Nat \ S # {} PROVE FALSE
  OBVIOUS
<1>1. PICK n \in Nat \ S : \A m \in Nat \ S : ~ (m < n)
  BY LeastMember
<1>2. n # 0 /\ n - 1 \in Nat /\ n - 1 < n /\ (n - 1) + 1 = n
  BY <1>1
<1>3. QED
  BY <1>1, <1>2

\* F holds the members of the first n of these sequences, one sequence after the
\* other: offset says where each of them starts.
IsFlat(F, offset, seqs, n, S) ==
    /\ F \in Seq(S)
    /\ offset \in [1..n -> Nat]
    /\ \A i \in 1..n : \A p \in 1..Len(seqs[i]) :
          offset[i] + p \in 1..Len(F) /\ F[offset[i] + p] = seqs[i][p]
    /\ \A k \in 1..Len(F) : \E i \in 1..n : \E p \in 1..Len(seqs[i]) :
          k = offset[i] + p

\* One sequence is flat.
LEMMA FlatFirst ==
    ASSUME NEW S, NEW seqs \in Seq(Seq(S)), 1 \in 1..Len(seqs)
    PROVE  \E offset : IsFlat(seqs[1], offset, seqs, 1, S)
<1>1. seqs[1] \in Seq(S) /\ Len(seqs[1]) \in Nat
  OBVIOUS
<1> DEFINE offset == [i \in 1..1 |-> 0]
<1>2. offset \in [1..1 -> Nat] /\ \A i \in 1..1 : i = 1 /\ offset[i] = 0
  OBVIOUS
<1> HIDE DEF offset
<1>3. IsFlat(seqs[1], offset, seqs, 1, S)
  BY <1>1, <1>2 DEF IsFlat
<1>4. QED
  BY <1>3

\* Appending the next sequence keeps it flat.
LEMMA FlatNext ==
    ASSUME NEW S, NEW seqs \in Seq(Seq(S)), NEW n \in Nat, n + 1 \in 1..Len(seqs),
           NEW F, NEW offset, IsFlat(F, offset, seqs, n, S)
    PROVE  \E off : IsFlat(F \o seqs[n + 1], off, seqs, n + 1, S)
<1> DEFINE next == seqs[n + 1]
           G == F \o next
           off == [i \in 1..(n + 1) |-> IF i \in 1..n THEN offset[i] ELSE Len(F)]
<1>1. next \in Seq(S) /\ F \in Seq(S) /\ Len(F) \in Nat /\ Len(next) \in Nat
  BY DEF IsFlat
<1>2. /\ G \in Seq(S) /\ Len(G) = Len(F) + Len(next)
      /\ \A k \in 1..Len(F) : G[k] = F[k]
      /\ \A p \in 1..Len(next) : G[Len(F) + p] = next[p]
  BY <1>1
<1>3. /\ off \in [1..(n + 1) -> Nat]
      /\ \A i \in 1..n : off[i] = offset[i] /\ off[n + 1] = Len(F)
  BY <1>1 DEF IsFlat
<1>4. off[n + 1] = Len(F) /\ 1..(n + 1) = 1..n \cup {n + 1}
  OBVIOUS
<1> HIDE DEF off, next, G
<1>5. ASSUME NEW i \in 1..(n + 1), NEW p \in 1..Len(seqs[i])
      PROVE  off[i] + p \in 1..Len(G) /\ G[off[i] + p] = seqs[i][p]
  <2>1. CASE i \in 1..n
    <3>1. offset[i] + p \in 1..Len(F) /\ F[offset[i] + p] = seqs[i][p]
      BY <2>1 DEF IsFlat
    <3>2. Len(F) <= Len(G) /\ off[i] = offset[i] /\ Len(G) \in Nat
      BY <1>1, <1>2, <1>3, <2>1
    <3>3. off[i] + p \in 1..Len(F) /\ off[i] + p \in 1..Len(G)
      BY <1>1, <3>1, <3>2
    <3>4. QED
      BY <1>2, <3>1, <3>2, <3>3
  <2>2. CASE i = n + 1
    <3>1. seqs[i] = next /\ off[i] = Len(F) /\ p \in 1..Len(next)
      BY <1>4, <2>2 DEF next
    <3>2. Len(F) + p \in 1..Len(G)
      BY <1>1, <1>2, <3>1
    <3>3. QED
      BY <1>2, <3>1, <3>2
  <2>3. QED
    BY <1>4, <2>1, <2>2
<1>6. ASSUME NEW k \in 1..Len(G)
      PROVE  \E i \in 1..(n + 1) : \E p \in 1..Len(seqs[i]) : k = off[i] + p
  <2>1. CASE k \in 1..Len(F)
    <3>1. PICK i \in 1..n : \E p \in 1..Len(seqs[i]) : k = offset[i] + p
      BY <2>1 DEF IsFlat
    <3>2. QED
      BY <1>3, <1>4, <3>1
  <2>2. CASE k \notin 1..Len(F)
    <3>1. k - Len(F) \in 1..Len(next) /\ k = Len(F) + (k - Len(F))
      BY <1>1, <1>2, <2>2
    <3>2. QED
      BY <1>4, <3>1 DEF next
  <2>3. QED
    BY <2>1, <2>2
<1>7. IsFlat(G, off, seqs, n + 1, S)
  BY <1>2, <1>3, <1>5, <1>6 DEF IsFlat
<1>8. QED
  BY <1>7 DEF G, next

\* FlattenSeq is defined by recursion on the number of sequences: f is its
\* recursive function up to the n-th.
IsPrefixOf(f, seqs, n) ==
    f = [i \in 1..n |-> IF i = 1 THEN seqs[i] ELSE f[i-1] \o seqs[i]]

\* What the recursive function of FlattenSeq is at each index.
LEMMA PrefixValues ==
    ASSUME NEW f, NEW seqs, NEW n \in Nat, IsPrefixOf(f, seqs, n)
    PROVE  \A i \in 1..n : f[i] = IF i = 1 THEN seqs[i] ELSE f[i-1] \o seqs[i]
  BY DEF IsPrefixOf

\* It can be continued by one sequence ...
LEMMA PrefixExtends ==
    ASSUME NEW f, NEW seqs, NEW n \in Nat, IsPrefixOf(f, seqs, n)
    PROVE  \E g : IsPrefixOf(g, seqs, n + 1)
<1> DEFINE value == IF n = 0 THEN seqs[1] ELSE f[n] \o seqs[n + 1]
           g == [i \in 1..(n + 1) |-> IF i = n + 1 THEN value ELSE f[i]]
<1> HIDE DEF value
<1>1. /\ g = [i \in 1..(n + 1) |-> g[i]]
      /\ \A i \in 1..n : g[i] = f[i]
      /\ g[n + 1] = value
  BY n + 1 \in 1..(n + 1), \A i \in 1..n : i \in 1..(n + 1) /\ i # n + 1
<1> HIDE DEF g
<1>2. ASSUME NEW i \in 1..(n + 1)
      PROVE  g[i] = IF i = 1 THEN seqs[i] ELSE g[i-1] \o seqs[i]
  <2>1. CASE i = n + 1
    <3>1. CASE n = 0
      BY <1>1, <2>1, <3>1 DEF value
    <3>2. CASE n # 0
      <4>1. i # 1 /\ i - 1 = n /\ n \in 1..n
        BY <2>1, <3>2
      <4>2. QED
        BY <1>1, <2>1, <3>2, <4>1 DEF value
    <3>3. QED
      BY <3>1, <3>2
  <2>2. CASE i # n + 1
    <3>1. i \in 1..n /\ (i # 1 => i - 1 \in 1..n)
      BY <2>2
    <3>2. g[i] = f[i] /\ (i # 1 => g[i - 1] = f[i - 1])
      BY <1>1, <3>1
    <3>3. f[i] = IF i = 1 THEN seqs[i] ELSE f[i-1] \o seqs[i]
      BY <3>1, PrefixValues
    <3>4. QED
      BY <3>2, <3>3
  <2>3. QED
    BY <2>1, <2>2
<1>3. g = [i \in 1..(n + 1) |-> IF i = 1 THEN seqs[i] ELSE g[i-1] \o seqs[i]]
  BY <1>1, <1>2
<1>4. QED
  BY <1>3 DEF IsPrefixOf

\* ... hence exists for any number of them.
LEMMA PrefixExists ==
    ASSUME NEW seqs, NEW n \in Nat
    PROVE  \E f : IsPrefixOf(f, seqs, n)
<1> DEFINE P == {m \in Nat : \E f : IsPrefixOf(f, seqs, m)}
<1>1. 0 \in P
  <2>1. IsPrefixOf([i \in 1..0 |-> 0], seqs, 0)
    BY DEF IsPrefixOf
  <2>2. QED
    BY <2>1
<1>2. \A m \in P : m + 1 \in P
  BY PrefixExtends
<1>3. P \in SUBSET Nat
  OBVIOUS
<1> HIDE DEF P
<1>4. P = Nat
  BY <1>1, <1>2, <1>3, SetInduction
<1>5. QED
  BY <1>4 DEF P

\* FlattenSeq concatenates: every member has its place in the result.
LEMMA FlattenPositions ==
    ASSUME NEW S, NEW seqs \in Seq(Seq(S))
    PROVE  \E offset : IsFlat(FlattenSeq(seqs), offset, seqs, Len(seqs), S)
<1> DEFINE N == Len(seqs)
<1>0. N \in Nat
  OBVIOUS
<1>1. ASSUME N = 0
      PROVE  \E offset : IsFlat(FlattenSeq(seqs), offset, seqs, N, S)
  <2>1. FlattenSeq(seqs) = seqs /\ seqs = <<>>
    BY <1>1 DEF FlattenSeq
  <2>2. [i \in 1..0 |-> 0] \in [1..0 -> Nat]
    OBVIOUS
  <2>3. IsFlat(<<>>, [i \in 1..0 |-> 0], seqs, 0, S)
    BY <2>2 DEF IsFlat
  <2>4. QED
    BY <1>1, <2>1, <2>3
<1>3. ASSUME N # 0
      PROVE  \E offset : IsFlat(FlattenSeq(seqs), offset, seqs, N, S)
  <2> DEFINE flatten == CHOOSE f : IsPrefixOf(f, seqs, N)
  <2>1. IsPrefixOf(flatten, seqs, N)
    BY <1>0, PrefixExists
  <2>2. FlattenSeq(seqs) = flatten[N]
    BY <1>3 DEF FlattenSeq, IsPrefixOf
  <2> HIDE DEF flatten
  <2>3. \A i \in 1..N : flatten[i] =
           IF i = 1 THEN seqs[i] ELSE flatten[i-1] \o seqs[i]
    BY <1>0, <2>1, PrefixValues
  <2> DEFINE P == {n \in Nat : n + 1 \in 1..N =>
                      \E offset : IsFlat(flatten[n + 1], offset, seqs, n + 1, S)}
  <2>4. 0 \in P
    <3> SUFFICES ASSUME 1 \in 1..N
                 PROVE  \E offset : IsFlat(flatten[1], offset, seqs, 1, S)
      OBVIOUS
    <3>1. flatten[1] = seqs[1]
      BY <2>3
    <3>2. QED
      BY <3>1, FlatFirst
  <2>5. ASSUME NEW n \in P
        PROVE  n + 1 \in P
    <3> SUFFICES ASSUME (n + 1) + 1 \in 1..N
                 PROVE  \E offset : IsFlat(flatten[(n + 1) + 1], offset, seqs,
                                           (n + 1) + 1, S)
      OBVIOUS
    <3> DEFINE m == n + 1
    <3>1. m \in Nat /\ m \in 1..N /\ m + 1 # 1 /\ (m + 1) - 1 = m
      BY <1>0
    <3>2. PICK offset : IsFlat(flatten[m], offset, seqs, m, S)
      BY <3>1
    <3>3. flatten[m + 1] = flatten[m] \o seqs[m + 1]
      BY <2>3, <3>1
    <3> HIDE DEF m
    <3>4. \E off : IsFlat(flatten[m] \o seqs[m + 1], off, seqs, m + 1, S)
      BY <3>1, <3>2, FlatNext DEF m
    <3>5. QED
      BY <3>3, <3>4 DEF m
  <2>6. P \in SUBSET Nat
    OBVIOUS
  <2>7. P = Nat
    <3> HIDE DEF P
    <3>1. QED
      BY <2>4, <2>5, <2>6, SetInduction
  <2>8. N - 1 \in Nat /\ (N - 1) + 1 = N /\ N \in 1..N
    BY <1>0, <1>3
  <2>9. \E offset : IsFlat(flatten[(N - 1) + 1], offset, seqs, (N - 1) + 1, S)
    BY <2>7, <2>8
  <2>10. QED
    BY <2>2, <2>8, <2>9
<1>4. QED
  BY <1>1, <1>3

(***************************************************************************)
(* What a command says                                                     *)
(***************************************************************************)

Messages == [type : {"error", "deleted", "reply"}, kind : Kinds, handle : Nat]

NoRepeats(seq) == \A i, j \in DOMAIN seq : seq[i] = seq[j] => i = j

\* No vector holds a handle twice.
VectorsInv ==
    /\ \A f \in files : NoRepeats(fileDependencies[f])
    /\ \A a \in artboards : NoRepeats(artboardDependencies[a])

\* Messages differ unless type, kind and handle agree.
LEMMA MessageFacts ==
    /\ \A k \in Kinds : \A h \in Nat : /\ Error(k, h) \in Messages
                                       /\ Deleted(k, h) \in Messages
                                       /\ Reply(k, h) \in Messages
    /\ \A k, l, h, g : /\ Deleted(k, h) = Deleted(l, g) <=> k = l /\ h = g
                       /\ Reply(k, h) = Reply(l, g) <=> k = l /\ h = g
                       /\ Error(k, h) # Deleted(l, g)
                       /\ Error(k, h) # Reply(l, g)
                       /\ Reply(k, h) # Deleted(l, g)
    /\ \A k, h : /\ Deleted(k, h).type = "deleted" /\ Deleted(k, h).kind = k
                 /\ Deleted(k, h).handle = h
  BY DEF Messages, Error, Deleted, Reply, Message

\* What the loop over the vector of an artboard says.
LEMMA MachinesAreReported ==
    ASSUME NEW machines \in Seq(Nat), NoRepeats(machines)
    PROVE  /\ MachineMessages(machines) \in Seq(Messages)
           /\ NoRepeats(MachineMessages(machines))
           /\ \A p \in DOMAIN MachineMessages(machines) :
                 \E s \in ToSet(machines) \cap stateMachines :
                    MachineMessages(machines)[p] = Deleted("stateMachine", s)
           /\ \A s \in ToSet(machines) \cap stateMachines :
                 \E p \in DOMAIN MachineMessages(machines) :
                    MachineMessages(machines)[p] = Deleted("stateMachine", s)
<1> DEFINE seqs == [i \in DOMAIN machines |->
                      IF machines[i] \in stateMachines
                      THEN <<Deleted("stateMachine", machines[i])>> ELSE <<>>]
           flat == FlattenSeq(seqs)
<1>1. DOMAIN machines = 1..Len(machines) /\ Len(machines) \in Nat
  OBVIOUS
<1>2. ASSUME NEW i \in 1..Len(machines)
      PROVE  /\ seqs[i] \in Seq(Messages)
             /\ machines[i] \in stateMachines =>
                   /\ Len(seqs[i]) = 1
                   /\ seqs[i][1] = Deleted("stateMachine", machines[i])
             /\ machines[i] \notin stateMachines => Len(seqs[i]) = 0
  <2>1. machines[i] \in Nat /\ "stateMachine" \in Kinds
    BY <1>1 DEF Kinds
  <2>2. Deleted("stateMachine", machines[i]) \in Messages
    BY <2>1, MessageFacts
  <2>3. seqs[i] = IF machines[i] \in stateMachines
                  THEN <<Deleted("stateMachine", machines[i])>> ELSE <<>>
    BY <1>1
  <2> HIDE DEF seqs
  <2>4. CASE machines[i] \in stateMachines
    <3> DEFINE d == Deleted("stateMachine", machines[i])
    <3> HIDE DEF d
    <3>1. d \in Messages /\ seqs[i] = <<d>>
      BY <2>2, <2>3, <2>4 DEF d
    <3>2. QED
      BY <2>4, <3>1 DEF d
  <2>5. CASE machines[i] \notin stateMachines
    BY <2>3, <2>5
  <2>6. QED
    BY <2>4, <2>5
<1>3. seqs = [i \in 1..Len(machines) |-> seqs[i]]
  BY <1>1
<1> HIDE DEF seqs
<1>4. seqs \in Seq(Seq(Messages)) /\ Len(seqs) = Len(machines)
  BY <1>1, <1>2, <1>3
<1>5. PICK offset : IsFlat(flat, offset, seqs, Len(machines), Messages)
  BY <1>4, FlattenPositions
<1> HIDE DEF flat
<1>6. flat \in Seq(Messages) /\ DOMAIN flat = 1..Len(flat)
  BY <1>5 DEF IsFlat
<1>7. \A k \in 1..Len(flat) : \E i \in 1..Len(machines) :
         /\ machines[i] \in stateMachines /\ k = offset[i] + 1
         /\ flat[k] = Deleted("stateMachine", machines[i])
  <2> SUFFICES ASSUME NEW k \in 1..Len(flat)
               PROVE  \E i \in 1..Len(machines) :
                         /\ machines[i] \in stateMachines /\ k = offset[i] + 1
                         /\ flat[k] = Deleted("stateMachine", machines[i])
    OBVIOUS
  <2>1. PICK i \in 1..Len(machines) : \E p \in 1..Len(seqs[i]) : k = offset[i] + p
    BY <1>5 DEF IsFlat
  <2>2. PICK p \in 1..Len(seqs[i]) : k = offset[i] + p
    BY <2>1
  <2>3. flat[k] = seqs[i][p]
    BY <1>5, <2>2 DEF IsFlat
  <2>4. machines[i] \in stateMachines /\ p = 1
    <3>1. CASE machines[i] \notin stateMachines
      <4>1. Len(seqs[i]) = 0
        BY <1>2, <3>1
      <4>2. QED
        BY <2>2, <4>1
    <3>2. CASE machines[i] \in stateMachines
      <4>1. Len(seqs[i]) = 1
        BY <1>2, <3>2
      <4>2. QED
        BY <2>2, <3>2, <4>1
    <3>3. QED
      BY <3>1, <3>2
  <2>5. QED
    BY <1>2, <2>2, <2>3, <2>4
<1>8. NoRepeats(flat)
  <2> SUFFICES ASSUME NEW k \in 1..Len(flat), NEW l \in 1..Len(flat),
                      flat[k] = flat[l]
               PROVE  k = l
    BY <1>6 DEF NoRepeats
  <2>1. PICK i \in 1..Len(machines) :
           k = offset[i] + 1 /\ flat[k] = Deleted("stateMachine", machines[i])
    BY <1>7
  <2>2. PICK j \in 1..Len(machines) :
           l = offset[j] + 1 /\ flat[l] = Deleted("stateMachine", machines[j])
    BY <1>7
  <2>3. machines[i] = machines[j]
    BY <2>1, <2>2, MessageFacts
  <2>4. i = j
    BY <1>1, <2>3 DEF NoRepeats
  <2>5. QED
    BY <2>1, <2>2, <2>4
<1>9. ASSUME NEW p \in DOMAIN flat
      PROVE  \E s \in ToSet(machines) \cap stateMachines :
                flat[p] = Deleted("stateMachine", s)
  BY <1>1, <1>6, <1>7 DEF ToSet
<1>10. ASSUME NEW s \in ToSet(machines) \cap stateMachines
       PROVE  \E p \in DOMAIN flat : flat[p] = Deleted("stateMachine", s)
  <2>1. PICK i \in 1..Len(machines) : machines[i] = s
    BY <1>1 DEF ToSet
  <2>2. 1 \in 1..Len(seqs[i]) /\ seqs[i][1] = Deleted("stateMachine", s)
    BY <1>2, <2>1
  <2>3. offset[i] + 1 \in 1..Len(flat) /\ flat[offset[i] + 1] = seqs[i][1]
    BY <1>5, <2>2 DEF IsFlat
  <2>4. QED
    BY <1>6, <2>2, <2>3
<1>11. flat = MachineMessages(machines)
  BY DEF flat, seqs, MachineMessages
<1>12. QED
  BY <1>6, <1>8, <1>9, <1>10, <1>11

\* What cleanupArtboard says: the machines of the artboard, then the artboard.
LEMMA CleanupSays ==
    ASSUME IInv, VectorsInv, NEW a \in artboards, NEW says,
           says = CleanupMessages(a)
    PROVE  /\ says \in Seq(Messages) /\ Len(says) \in Nat \ {0}
           /\ NoRepeats(says)
           /\ says[Len(says)] = Deleted("artboard", a)
           /\ \A p \in 1..(Len(says) - 1) :
                 \E s \in ToSet(artboardDependencies[a]) \cap stateMachines :
                    says[p] = Deleted("stateMachine", s)
           /\ \A s \in ToSet(artboardDependencies[a]) \cap stateMachines :
                 \E p \in 1..Len(says) : says[p] = Deleted("stateMachine", s)
<1> DEFINE machines == artboardDependencies[a]
           first == MachineMessages(machines)
<1>1. machines \in Seq(Nat) /\ NoRepeats(machines)
  <2>1. TypeOK /\ DependenciesOfLive
    BY DEF IInv
  <2>2. Known("stateMachine") \subseteq Nat
    BY <2>1 DEF TypeOK, Known, Kinds
  <2>3. machines \in Seq(Known("stateMachine"))
    BY <2>1, VectorTypes
  <2>4. QED
    BY <2>2, <2>3, SeqMonotone DEF VectorsInv
<1>2. a \in Nat /\ "artboard" \in Kinds
  <2>1. TypeOK /\ DependenciesOfLive
    BY DEF IInv
  <2>2. Known("artboard") \subseteq Nat
    BY <2>1 DEF TypeOK, Known, Kinds
  <2>3. QED
    BY <2>1, <2>2, VectorTypes DEF Kinds
<1> HIDE DEF machines
<1>3. /\ first \in Seq(Messages) /\ NoRepeats(first)
      /\ \A p \in DOMAIN first : \E s \in ToSet(machines) \cap stateMachines :
            first[p] = Deleted("stateMachine", s)
      /\ \A s \in ToSet(machines) \cap stateMachines :
            \E p \in DOMAIN first : first[p] = Deleted("stateMachine", s)
  BY <1>1, MachinesAreReported
<1> DEFINE last == Deleted("artboard", a)
<1>4. last \in Messages /\ \A s : last # Deleted("stateMachine", s)
  BY <1>2, MessageFacts
<1>5. says = first \o <<last>>
  BY DEF CleanupMessages, machines
<1> HIDE DEF first, last
<1>6. /\ says \in Seq(Messages) /\ Len(says) = Len(first) + 1 /\ Len(first) \in Nat
      /\ \A p \in 1..Len(first) : says[p] = first[p]
      /\ says[Len(first) + 1] = last
      /\ DOMAIN first = 1..Len(first) /\ DOMAIN says = 1..Len(says)
  BY <1>3, <1>4, <1>5
<1>7. 1..Len(says) = 1..Len(first) \cup {Len(first) + 1} /\ Len(says) - 1 = Len(first)
  BY <1>6
<1>8. NoRepeats(says)
  <2> SUFFICES ASSUME NEW i \in 1..Len(says), NEW j \in 1..Len(says), says[i] = says[j]
               PROVE  i = j
    BY <1>6 DEF NoRepeats
  <2>1. CASE i \in 1..Len(first) /\ j \in 1..Len(first)
    BY <1>3, <1>6, <2>1 DEF NoRepeats
  <2>2. CASE i \in 1..Len(first) /\ j = Len(first) + 1
    BY <1>3, <1>4, <1>6, <2>2
  <2>3. CASE i = Len(first) + 1 /\ j \in 1..Len(first)
    BY <1>3, <1>4, <1>6, <2>3
  <2>4. QED
    BY <1>7, <2>1, <2>2, <2>3
<1>9. QED
  BY <1>3, <1>6, <1>7, <1>8 DEF machines, last

\* says holds one message for every artboard of file f and for every state machine
\* of these artboards, the machines of an artboard before it.
Reports(says, f) ==
    /\ says \in Seq(Messages) /\ NoRepeats(says)
    /\ \A i \in DOMAIN says :
          \E a \in ToSet(fileDependencies[f]) \cap artboards :
             \/ says[i] = Deleted("artboard", a)
             \/ \E s \in ToSet(artboardDependencies[a]) \cap stateMachines :
                   says[i] = Deleted("stateMachine", s)
    /\ \A a \in ToSet(fileDependencies[f]) \cap artboards :
          /\ \E i \in DOMAIN says : says[i] = Deleted("artboard", a)
          /\ \A s \in ToSet(artboardDependencies[a]) \cap stateMachines :
                \E i \in DOMAIN says : says[i] = Deleted("stateMachine", s)
    /\ \A i, j \in DOMAIN says : \A a \in artboards :
          \A s \in ToSet(artboardDependencies[a]) :
             says[i] = Deleted("artboard", a)
               /\ says[j] = Deleted("stateMachine", s) => j < i

\* What deleteFile says of the artboards of the file.
LEMMA ArtboardsAreReported ==
    ASSUME IInv, VectorsInv, NEW f \in files, NEW says,
           says = FlattenSeq([i \in DOMAIN fileDependencies[f] |->
                                CleanupMessages(fileDependencies[f][i])])
    PROVE  Reports(says, f)
<1> DEFINE dependents == fileDependencies[f]
           seqs == [i \in DOMAIN dependents |-> CleanupMessages(dependents[i])]
           N == Len(dependents)
<1>t. /\ TypeOK /\ DependenciesOfLive /\ OneOwner(artboardDependencies)
      /\ DOMAIN artboardDependencies = artboards
  BY DEF IInv, DependenciesOfLive
<1>1. /\ dependents \in Seq(Known("artboard")) /\ NoRepeats(dependents)
      /\ DOMAIN dependents = 1..N /\ N \in Nat
  BY <1>t, VectorTypes DEF VectorsInv
<1>2. /\ \A i \in 1..N : seqs[i] = CleanupMessages(dependents[i])
      /\ seqs = [i \in 1..N |-> seqs[i]]
  BY <1>1
<1> HIDE DEF seqs, N
<1>3. ASSUME NEW i \in 1..N
      PROVE  /\ seqs[i] \in Seq(Messages) /\ Len(seqs[i]) \in Nat
             /\ dependents[i] \notin artboards => Len(seqs[i]) = 0
  <2>1. CASE dependents[i] \in artboards
    BY <1>2, <2>1, CleanupSays
  <2>2. CASE dependents[i] \notin artboards
    <3>1. seqs[i] = <<>>
      BY <1>2, <2>2 DEF CleanupMessages
    <3>2. QED
      BY <2>2, <3>1
  <2>3. QED
    BY <2>1, <2>2
<1>4. seqs \in Seq(Seq(Messages)) /\ Len(seqs) = N
  BY <1>1, <1>2, <1>3
<1>5. says = FlattenSeq(seqs)
  BY DEF seqs
<1>6. PICK offset : IsFlat(says, offset, seqs, N, Messages)
  BY <1>4, <1>5, FlattenPositions
<1>7. says \in Seq(Messages) /\ DOMAIN says = 1..Len(says) /\ offset \in [1..N -> Nat]
  BY <1>6 DEF IsFlat
<1> HIDE DEF dependents
\* Each message is the last of its block, of the artboard, or another one, of a
\* state machine of the artboard.
<1> DEFINE At(k, i, p) ==
       /\ k = offset[i] + p /\ says[k] = seqs[i][p]
       /\ dependents[i] \in artboards
       /\ \/ p = Len(seqs[i]) /\ says[k] = Deleted("artboard", dependents[i])
          \/ /\ p < Len(seqs[i])
             /\ \E s \in ToSet(artboardDependencies[dependents[i]]) \cap stateMachines :
                   says[k] = Deleted("stateMachine", s)
<1>8. \A k \in 1..Len(says) : \E i \in 1..N : \E p \in 1..Len(seqs[i]) : At(k, i, p)
  <2> SUFFICES ASSUME NEW k \in 1..Len(says)
               PROVE  \E i \in 1..N : \E p \in 1..Len(seqs[i]) : At(k, i, p)
    OBVIOUS
  <2>1. PICK i \in 1..N : \E p \in 1..Len(seqs[i]) : k = offset[i] + p
    BY <1>6 DEF IsFlat
  <2>2. PICK p \in 1..Len(seqs[i]) : k = offset[i] + p
    BY <2>1
  <2>3. says[k] = seqs[i][p]
    BY <1>6, <2>2 DEF IsFlat
  <2>4. dependents[i] \in artboards
    <3>1. Len(seqs[i]) # 0
      BY <1>3, <2>2
    <3>2. QED
      BY <1>3, <3>1
  <2>5. CASE p = Len(seqs[i])
    <3>1. seqs[i][Len(seqs[i])] = Deleted("artboard", dependents[i])
      BY <1>2, <2>4, CleanupSays
    <3>2. QED
      BY <2>2, <2>3, <2>4, <2>5, <3>1
  <2>6. CASE p # Len(seqs[i])
    <3>1. p \in 1..(Len(seqs[i]) - 1) /\ p < Len(seqs[i])
      BY <1>3, <2>2, <2>6
    <3>2. \A q \in 1..(Len(seqs[i]) - 1) :
             \E s \in ToSet(artboardDependencies[dependents[i]]) \cap stateMachines :
                seqs[i][q] = Deleted("stateMachine", s)
      BY <1>2, <2>4, CleanupSays
    <3>3. QED
      BY <2>2, <2>3, <2>4, <3>1, <3>2
  <2>7. QED
    BY <2>5, <2>6
\* The blocks of two artboards have no message in common.
<1>9. ASSUME NEW k \in 1..Len(says), NEW l \in 1..Len(says),
             NEW i \in 1..N, NEW j \in 1..N, NEW p \in 1..Len(seqs[i]),
             NEW q \in 1..Len(seqs[j]), At(k, i, p), At(l, j, q),
             says[k] = says[l]
      PROVE  dependents[i] = dependents[j]
  <2>1. CASE says[k] = Deleted("artboard", dependents[i])
    BY <1>9, <2>1, MessageFacts
  <2>2. CASE says[k] # Deleted("artboard", dependents[i])
    <3>1. PICK s \in ToSet(artboardDependencies[dependents[i]]) :
             says[k] = Deleted("stateMachine", s)
      BY <1>9, <2>2
    <3>2. says[l] # Deleted("artboard", dependents[j])
      BY <1>9, <3>1, MessageFacts
    <3>3. PICK r \in ToSet(artboardDependencies[dependents[j]]) :
             says[l] = Deleted("stateMachine", r)
      BY <1>9, <3>2
    <3>4. s = r
      BY <1>9, <3>1, <3>3, MessageFacts
    <3>5. QED
      BY <1>t, <1>9, <3>1, <3>3, <3>4 DEF OneOwner
  <2>3. QED
    BY <2>1, <2>2
<1> HIDE DEF At
<1>u. \A i, j \in 1..N : dependents[i] = dependents[j] => i = j
  BY <1>1 DEF NoRepeats
<1>10. NoRepeats(says)
  <2> SUFFICES ASSUME NEW k \in 1..Len(says), NEW l \in 1..Len(says),
                      says[k] = says[l]
               PROVE  k = l
    BY <1>7 DEF NoRepeats
  <2>1. PICK i \in 1..N : \E p \in 1..Len(seqs[i]) : At(k, i, p)
    BY <1>8
  <2>2. PICK p \in 1..Len(seqs[i]) : At(k, i, p)
    BY <2>1
  <2>3. PICK j \in 1..N : \E q \in 1..Len(seqs[j]) : At(l, j, q)
    BY <1>8
  <2>4. PICK q \in 1..Len(seqs[j]) : At(l, j, q)
    BY <2>3
  <2>5. i = j
    BY <1>9, <1>u, <2>2, <2>4
  <2>6. seqs[i][p] = seqs[i][q] /\ dependents[i] \in artboards
    BY <2>2, <2>4, <2>5 DEF At
  <2>7. NoRepeats(seqs[i]) /\ DOMAIN seqs[i] = 1..Len(seqs[i])
    BY <1>2, <1>3, <2>6, CleanupSays
  <2>8. p = q
    BY <2>5, <2>6, <2>7 DEF NoRepeats
  <2>9. QED
    BY <2>2, <2>4, <2>5, <2>8 DEF At
<1>11. ASSUME NEW k \in 1..Len(says)
       PROVE  \E a \in ToSet(dependents) \cap artboards :
                 \/ says[k] = Deleted("artboard", a)
                 \/ \E s \in ToSet(artboardDependencies[a]) \cap stateMachines :
                       says[k] = Deleted("stateMachine", s)
  <2>1. PICK i \in 1..N : \E p \in 1..Len(seqs[i]) : At(k, i, p)
    BY <1>8
  <2>2. dependents[i] \in ToSet(dependents) \cap artboards
    BY <1>1, <2>1 DEF ToSet, At
  <2>3. QED
    BY <2>1, <2>2 DEF At
<1>12. ASSUME NEW a \in ToSet(dependents) \cap artboards
       PROVE  /\ \E k \in 1..Len(says) : says[k] = Deleted("artboard", a)
              /\ \A s \in ToSet(artboardDependencies[a]) \cap stateMachines :
                   \E k \in 1..Len(says) : says[k] = Deleted("stateMachine", s)
  <2>1. PICK i \in 1..N : dependents[i] = a
    BY <1>1 DEF ToSet
  <2>2. seqs[i] = CleanupMessages(a)
    BY <1>2, <2>1
  <2>3. \A p \in 1..Len(seqs[i]) :
           offset[i] + p \in 1..Len(says) /\ says[offset[i] + p] = seqs[i][p]
    BY <1>6 DEF IsFlat
  <2>4. /\ Len(seqs[i]) \in 1..Len(seqs[i])
        /\ seqs[i][Len(seqs[i])] = Deleted("artboard", a)
        /\ \A s \in ToSet(artboardDependencies[a]) \cap stateMachines :
              \E p \in 1..Len(seqs[i]) : seqs[i][p] = Deleted("stateMachine", s)
    BY <2>2, CleanupSays
  <2>5. QED
    BY <2>3, <2>4
<1>13. ASSUME NEW k \in 1..Len(says), NEW l \in 1..Len(says), NEW a \in artboards,
              NEW s \in ToSet(artboardDependencies[a]),
              says[k] = Deleted("artboard", a), says[l] = Deleted("stateMachine", s)
       PROVE  l < k
  <2>1. PICK i \in 1..N : \E p \in 1..Len(seqs[i]) : At(k, i, p)
    BY <1>8
  <2>2. PICK p \in 1..Len(seqs[i]) : At(k, i, p)
    BY <2>1
  <2>3. PICK j \in 1..N : \E q \in 1..Len(seqs[j]) : At(l, j, q)
    BY <1>8
  <2>4. PICK q \in 1..Len(seqs[j]) : At(l, j, q)
    BY <2>3
  <2>5. dependents[i] = a /\ p = Len(seqs[i])
    BY <1>13, <2>2, MessageFacts DEF At
  <2>6. PICK r \in ToSet(artboardDependencies[dependents[j]]) :
           says[l] = Deleted("stateMachine", r) /\ q < Len(seqs[j])
    BY <1>13, <2>4, MessageFacts DEF At
  <2>7. r = s
    BY <1>13, <2>6, MessageFacts
  <2>8. dependents[j] = a
    BY <1>t, <1>13, <2>4, <2>6, <2>7 DEF OneOwner, At
  <2>9. i = j
    BY <1>u, <2>5, <2>8
  <2>10. q < p /\ k = offset[i] + p /\ l = offset[i] + q /\ offset[i] \in Nat
    BY <1>7, <2>2, <2>4, <2>5, <2>6, <2>9 DEF At
  <2>11. QED
    BY <1>3, <2>2, <2>4, <2>9, <2>10
<1>14. QED
  BY <1>7, <1>10, <1>11, <1>12, <1>13 DEF dependents, Reports

\* The vectors of a step: kept from before, or without repetitions.
LEMMA VectorsStay ==
    ASSUME VectorsInv,
           \A f \in files' : \/ f \in files /\ fileDependencies'[f] = fileDependencies[f]
                             \/ NoRepeats(fileDependencies'[f]),
           \A a \in artboards' :
              \/ a \in artboards /\ artboardDependencies'[a] = artboardDependencies[a]
              \/ NoRepeats(artboardDependencies'[a])
    PROVE  VectorsInv'
  BY DEF VectorsInv, NoRepeats

\* push_back of a handle the vector does not hold repeats nothing.
LEMMA AppendFresh ==
    ASSUME NEW S, NEW seq \in Seq(S), NEW e, e \notin ToSet(seq), NoRepeats(seq)
    PROVE  NoRepeats(Append(seq, e))
<1>1. /\ DOMAIN Append(seq, e) = 1..(Len(seq) + 1)
      /\ DOMAIN seq = 1..Len(seq)
      /\ Len(seq) \in Nat
      /\ \A i \in 1..Len(seq) : Append(seq, e)[i] = seq[i]
      /\ Append(seq, e)[Len(seq) + 1] = e
  OBVIOUS
<1>2. 1..(Len(seq) + 1) = 1..Len(seq) \cup {Len(seq) + 1}
  BY <1>1
<1>3. QED
  BY <1>1, <1>2 DEF ToSet, NoRepeats

\* No command enters a handle twice.
LEMMA VectorsStep == IInv /\ VectorsInv /\ [Next]_vars => VectorsInv'
<1> SUFFICES ASSUME IInv, VectorsInv, [Next]_vars PROVE VectorsInv'
  OBVIOUS
<1>t. /\ TypeOK /\ DependenciesOfLive
      /\ DOMAIN fileDependencies = files /\ DOMAIN artboardDependencies = artboards
  BY DEF IInv, DependenciesOfLive
<1>q. CASE UNCHANGED <<files, artboards, fileDependencies, artboardDependencies>>
  BY <1>q, VectorsStay
<1>1. CASE LoadFile
  <2>1. PICK f \in 1..MaxFiles :
           /\ Issue("file", f)
           /\ \/ /\ files' = files \cup {f}
                 /\ fileDependencies' = With(fileDependencies, f, <<>>)
              \/ UNCHANGED <<files, fileDependencies>>
           /\ UNCHANGED <<artboards, artboardDependencies>>
    BY <1>1 DEF LoadFile
  <2>2. CASE /\ files' = files \cup {f}
             /\ fileDependencies' = With(fileDependencies, f, <<>>)
    <3>1. \A g \in files' :
                 \/ fileDependencies'[g] = fileDependencies[g] /\ g \in files
                 \/ fileDependencies'[g] = <<>>
      BY <1>t, <2>2 DEF With
    <3>2. NoRepeats(<<>>)
      BY DEF NoRepeats
    <3>3. QED
      BY <2>1, <3>1, <3>2, VectorsStay
  <2>3. QED
    BY <1>q, <2>1, <2>2
<1>2. ASSUME NEW f, InstantiateArtboard(f)
      PROVE  VectorsInv'
  <2>1. PICK a \in 1..MaxArtboards :
        /\ Issue("artboard", a)
        /\ \/ /\ f \in files
              /\ fileDependencies' =
                   [fileDependencies EXCEPT ![f] = Append(@, a)]
              /\ artboardDependencies' = With(artboardDependencies, a, <<>>)
              /\ artboards' = artboards \cup {a}
           \/ UNCHANGED <<fileDependencies, artboardDependencies, artboards>>
        /\ UNCHANGED files
    BY <1>2 DEF InstantiateArtboard
  <2>2. CASE /\ f \in files
             /\ fileDependencies' =
                  [fileDependencies EXCEPT ![f] = Append(@, a)]
             /\ artboardDependencies' = With(artboardDependencies, a, <<>>)
             /\ artboards' = artboards \cup {a}
    <3>1. a \notin Known("artboard")
      BY <2>1, IssuedIsFresh DEF Kinds
    <3>2. /\ fileDependencies[f] \in Seq(Known("artboard"))
          /\ a \notin ToSet(fileDependencies[f])
      BY <1>t, <2>2, <3>1, VectorTypes
    <3>3. NoRepeats(Append(fileDependencies[f], a))
      BY <2>2, <3>2, AppendFresh DEF VectorsInv
    <3>4. \A g \in files' :
                 \/ fileDependencies'[g] = fileDependencies[g] /\ g \in files
                 \/ NoRepeats(fileDependencies'[g])
      BY <1>t, <2>1, <2>2, <3>3
    <3>5. \A b \in artboards' :
             \/ artboardDependencies'[b] = artboardDependencies[b] /\ b \in artboards
             \/ artboardDependencies'[b] = <<>>
      BY <1>t, <2>2 DEF With
    <3>6. NoRepeats(<<>>)
      BY DEF NoRepeats
    <3>7. QED
      BY <3>4, <3>5, <3>6, VectorsStay
  <2>3. QED
    BY <1>q, <2>1, <2>2
<1>3. ASSUME NEW a, InstantiateStateMachine(a)
      PROVE  VectorsInv'
  <2>1. PICK s \in 1..MaxStateMachines :
        /\ Issue("stateMachine", s)
        /\ \/ /\ a \in artboards
              /\ artboardDependencies' =
                   [artboardDependencies EXCEPT ![a] = Append(@, s)]
           \/ UNCHANGED artboardDependencies
        /\ UNCHANGED <<files, artboards, fileDependencies>>
    BY <1>3 DEF InstantiateStateMachine
  <2>2. CASE /\ a \in artboards
             /\ artboardDependencies' =
                  [artboardDependencies EXCEPT ![a] = Append(@, s)]
    <3>1. s \notin Known("stateMachine")
      BY <2>1, IssuedIsFresh DEF Kinds
    <3>2. /\ artboardDependencies[a] \in Seq(Known("stateMachine"))
          /\ s \notin ToSet(artboardDependencies[a])
      BY <1>t, <2>2, <3>1, VectorTypes
    <3>3. NoRepeats(Append(artboardDependencies[a], s))
      BY <2>2, <3>2, AppendFresh DEF VectorsInv
    <3>4. \A b \in artboards' :
             \/ artboardDependencies'[b] = artboardDependencies[b] /\ b \in artboards
             \/ NoRepeats(artboardDependencies'[b])
      BY <1>t, <2>1, <2>2, <3>3
    <3>5. QED
      BY <2>1, <3>4, VectorsStay
  <2>3. QED
    BY <1>q, <2>1, <2>2
<1>4. ASSUME NEW doomed, CleanupArtboards(doomed)
      PROVE  \A b \in artboards' :
                b \in artboards /\ artboardDependencies'[b] = artboardDependencies[b]
  BY <1>t, <1>4 DEF CleanupArtboards, Without
<1>5. ASSUME NEW a, DeleteArtboard(a)
      PROVE  VectorsInv'
  BY <1>4, <1>5, VectorsStay DEF DeleteArtboard
<1>6. ASSUME NEW f, DeleteFile(f)
      PROVE  VectorsInv'
  <2>1. \A g \in files' : g \in files /\ fileDependencies'[g] = fileDependencies[g]
    BY <1>t, <1>6 DEF DeleteFile, Without
  <2>2. PICK doomed : CleanupArtboards(doomed)
    BY <1>6 DEF DeleteFile
  <2>3. QED
    BY <1>4, <2>1, <2>2, VectorsStay
<1>7. ASSUME NEW f, FileCommand(f)
      PROVE  VectorsInv'
  BY <1>q, <1>2, <1>6, <1>7
  DEF FileCommand, ListOfFile, ListViewModels, ListProperties, ListInstanceNames,
      InstantiateViewModel, maps
<1>8. ASSUME NEW a, ArtboardCommand(a)
      PROVE  VectorsInv'
  BY <1>q, <1>3, <1>5, <1>8
  DEF ArtboardCommand, ListStateMachines, GetDefaultViewModel,
      InstantiateViewModelForArtboard, maps
<1>9. ASSUME NEW s, StateMachineCommand(s)
      PROVE  VectorsInv'
  BY <1>q, <1>9
  DEF StateMachineCommand, DeleteStateMachine, AdvanceStateMachine,
      PointerEvent, BindViewModelInstance, maps
<1>10. ASSUME NEW v, ViewModelCommand(v)
       PROVE  VectorsInv'
  BY <1>q, <1>10
  DEF ViewModelCommand, DeleteViewModel, RefNestedViewModel, RefListViewModel,
      EditList, SetValue, GetListSize, GetPropertyValue, AddListValue,
      SetNestedViewModel, SetArtboard, maps
<1>11. QED
  BY <1>q, <1>1, <1>7, <1>8, <1>9, <1>10 DEF Next, vars, maps

Told(k, h) == \E i \in DOMAIN outbox' : outbox'[i] = Deleted(k, h)

\* What the messages of a step say of the resources of a kind: ends are told
\* once, of what was live and is not, and only the live or the new is answered for.
SaysOf(k) ==
    /\ Known(k) \subseteq Known(k)'
    /\ deleted'[k] = deleted[k] \cup {h \in Nat : Told(k, h)}
    /\ \A h : \A i, j \in DOMAIN outbox' :
          outbox'[i] = Deleted(k, h) /\ outbox'[j] = Deleted(k, h) => i = j
    /\ \A h \in Live[k] : h \notin Live[k]' => Told(k, h)
    /\ \A h : Told(k, h) => h \in Known(k) /\ h \notin Live[k]'
    /\ \A h \in Live[k]' : h \in Live[k] \/ h \notin Known(k)
    /\ \A h : \A i \in DOMAIN outbox' :
          outbox'[i] = Reply(k, h) => h \in Live[k] \/ h \notin Known(k)

\* Dependents are told of before what they depend on.
InOrder ==
    \A i, j \in DOMAIN outbox' :
        /\ \A a \in DOMAIN artboardDependencies : \A s \in ToSet(artboardDependencies[a]) :
              outbox'[i] = Deleted("artboard", a) /\ outbox'[j] = Deleted("stateMachine", s)
                => j < i
        /\ \A f, a : outbox'[i] = Deleted("file", f) /\ outbox'[j] = Deleted("artboard", a)
                       => j < i

StepSays == /\ outbox' \in Seq(Messages)
            /\ \A k \in Kinds : SaysOf(k)
            /\ deleted' \in [Kinds -> SUBSET Nat]
            /\ InOrder

DeletedType == deleted \in [Kinds -> SUBSET Nat]

\* Say records in deleted what the messages tell of.
LEMMA SayRecords ==
    ASSUME DeletedType, NEW messages \in Seq(Messages), Say(messages)
    PROVE  /\ outbox' = messages
           /\ deleted' \in [Kinds -> SUBSET Nat]
           /\ \A k \in Kinds : deleted'[k] = deleted[k] \cup {h \in Nat : Told(k, h)}
<1>1. outbox' = messages /\ outbox' \in Seq(Messages)
  BY DEF Say
<1>2. \A i \in DOMAIN outbox' : outbox'[i] \in Messages
  BY <1>1
<1>3. deleted' = [k \in Kinds |-> deleted[k] \cup
            {messages[i].handle : i \in {j \in DOMAIN messages :
                messages[j].type = "deleted" /\ messages[j].kind = k}}]
  BY DEF Say
<1>4. ASSUME NEW k \in Kinds
      PROVE  deleted'[k] = deleted[k] \cup {h \in Nat : Told(k, h)}
  <2>1. ASSUME NEW i \in DOMAIN messages, messages[i].type = "deleted",
               messages[i].kind = k
        PROVE  messages[i].handle \in Nat /\ Told(k, messages[i].handle)
    <3>1. messages[i] \in Messages
      BY <1>1, <1>2
    <3>2. messages[i] = Deleted(k, messages[i].handle) /\ messages[i].handle \in Nat
      BY <2>1, <3>1 DEF Messages, Deleted, Message
    <3>3. QED
      BY <1>1, <3>2 DEF Told
  <2>2. ASSUME NEW h \in Nat, Told(k, h)
        PROVE  \E i \in DOMAIN messages : /\ messages[i].type = "deleted"
                                          /\ messages[i].kind = k
                                          /\ messages[i].handle = h
    BY <1>1, <2>2, MessageFacts DEF Told
  <2>3. deleted'[k] = deleted[k] \cup
            {messages[i].handle : i \in {j \in DOMAIN messages :
                messages[j].type = "deleted" /\ messages[j].kind = k}}
    BY <1>3
  <2>4. QED
    BY <2>1, <2>2, <2>3
<1>5. deleted' \in [Kinds -> SUBSET Nat]
  <2>1. \A k \in Kinds : deleted'[k] \in SUBSET Nat
    BY <1>4 DEF DeletedType
  <2>2. QED
    BY <1>3, <2>1
<1>6. QED
  BY <1>1, <1>4, <1>5

\* Messages that tell of no end, and answer only for the live or the new.
Talk == {m \in Messages :
           \/ m.type = "error"
           \/ /\ m.type = "reply"
              /\ m.handle \in Live[m.kind] \/ m.handle \notin Known(m.kind)}

\* What the messages are made of that tell of no end.
LEMMA TalkFacts ==
    /\ \A k \in Kinds : \A h \in Nat : Error(k, h) \in Talk
    /\ \A k \in Kinds : \A h \in Nat :
          h \in Live[k] \/ h \notin Known(k) => Reply(k, h) \in Talk
    /\ \A m \in Talk : /\ m \in Messages
                       /\ \A k, h : m # Deleted(k, h)
                       /\ \A k, h : m = Reply(k, h) => h \in Live[k] \/ h \notin Known(k)
    /\ \A m \in Talk : <<m>> \in Seq(Talk)
    /\ \A m, n \in Talk : <<m, n>> \in Seq(Talk)
    /\ <<>> \in Seq(Talk)
<1>1. /\ \A k \in Kinds : \A h \in Nat : Error(k, h) \in Talk
      /\ \A k \in Kinds : \A h \in Nat :
            h \in Live[k] \/ h \notin Known(k) => Reply(k, h) \in Talk
      /\ \A m \in Talk : /\ m \in Messages
                         /\ \A k, h : m # Deleted(k, h)
                         /\ \A k, h : m = Reply(k, h) => h \in Live[k] \/ h \notin Known(k)
  BY DEF Talk, Messages, Error, Reply, Deleted, Message
<1> DEFINE T == Talk
<1> HIDE DEF T
<1>2. /\ \A m \in T : <<m>> \in Seq(T)
      /\ \A m, n \in T : <<m, n>> \in Seq(T)
      /\ <<>> \in Seq(T)
  OBVIOUS
<1>3. QED
  BY <1>1, <1>2 DEF T

\* A command that kills nothing, tells of no end.
LEMMA TalkSays ==
    ASSUME DeletedType, NEW messages \in Seq(Talk), Say(messages),
           \A k \in Kinds : /\ Known(k) \subseteq Known(k)'
                            /\ Live[k] \subseteq Live[k]'
                            /\ \A h \in Live[k]' : h \in Live[k] \/ h \notin Known(k)
    PROVE  StepSays
<1>1. messages \in Seq(Messages) /\ outbox' = messages
  <2>1. Talk \subseteq Messages
    BY TalkFacts
  <2>2. messages \in Seq(Messages)
    BY <2>1, SeqMonotone
  <2>3. QED
    BY <2>2 DEF Say
<1>2. /\ deleted' \in [Kinds -> SUBSET Nat]
      /\ \A k \in Kinds : deleted'[k] = deleted[k] \cup {h \in Nat : Told(k, h)}
  BY <1>1, SayRecords
<1>3. \A i \in DOMAIN outbox' : outbox'[i] \in Talk
  BY <1>1
<1>4. \A i \in DOMAIN outbox' : \A k, h : outbox'[i] # Deleted(k, h)
  BY <1>3, TalkFacts
<1>5. \A k, h : ~ Told(k, h)
  BY <1>4 DEF Told
<1>6. \A i \in DOMAIN outbox' : \A k, h :
         outbox'[i] = Reply(k, h) => h \in Live[k] \/ h \notin Known(k)
  BY <1>3, TalkFacts
<1>7. \A k \in Kinds : SaysOf(k)
  BY <1>2, <1>4, <1>5, <1>6 DEF SaysOf
<1>8. InOrder
  BY <1>4 DEF InOrder
<1>9. QED
  BY <1>1, <1>2, <1>7, <1>8 DEF StepSays

\* Handles are numbers.
LEMMA KnownAreNumbers == TypeOK => \A k \in Kinds : Known(k) \subseteq Nat
  BY DEF TypeOK, Known

\* Commands that only look resources up.
LEMMA LookupSays ==
    ASSUME IInv, DeletedType, UNCHANGED <<issued, maps>>,
           \E messages \in Seq(Talk) : Say(messages)
    PROVE  StepSays
<1>1. \A k \in Kinds : Known(k)' = Known(k) /\ Live[k]' = Live[k]
  BY DEF Known, Live, maps
<1>2. QED
  BY <1>1, TalkSays

\* Commands that issue a handle and may create its resource.
LEMMA CreationSays ==
    ASSUME IInv, DeletedType, NEW kind \in Kinds, NEW h \in Nat, Issue(kind, h),
           \A k \in Kinds \ {kind} : Live[k]' = Live[k],
           Live[kind]' = Live[kind] \/ Live[kind]' = Live[kind] \cup {h},
           \E messages \in Seq(Talk) : Say(messages)
    PROVE  StepSays
<1>1. /\ h \notin Known(kind)
      /\ \A k \in Kinds : Known(k) \subseteq Known(k)'
  BY IssuedIsFresh
<1>2. \A k \in Kinds : /\ Live[k] \subseteq Live[k]'
                       /\ \A g \in Live[k]' : g \in Live[k] \/ g \notin Known(k)
  BY <1>1
<1>3. QED
  BY <1>1, <1>2, TalkSays

\* The commands on a file but its deletion.
LEMMA FileCommandSays ==
    ASSUME IInv, DeletedType, NEW f \in Known("file"), FileCommand(f), ~ DeleteFile(f)
    PROVE  StepSays
<1>t. f \in Nat /\ Kinds = {"file", "artboard", "stateMachine", "viewModel"}
  BY KnownAreNumbers DEF IInv, Kinds
<1>e. /\ Error("file", f) \in Talk /\ Error("viewModel", f) \in Talk
      /\ f \in files => Reply("file", f) \in Talk
  BY <1>t, TalkFacts, KindsAreFour
<1>1. CASE ListOfFile(f) \/ ListViewModels(f)
  BY <1>1, <1>e, TalkFacts, LookupSays DEF ListOfFile, ListViewModels
<1>2. CASE ListProperties(f)
  BY <1>2, <1>e, TalkFacts, LookupSays DEF ListProperties
<1>3. CASE ListInstanceNames(f)
  BY <1>3, <1>e, TalkFacts, LookupSays DEF ListInstanceNames
<1>4. CASE InstantiateArtboard(f)
  <2>1. PICK a \in 1..MaxArtboards :
           /\ Issue("artboard", a)
           /\ artboards' = artboards \cup {a} \/ artboards' = artboards
           /\ Say(<<>>) \/ Say(<<Error("file", f)>>)
           /\ UNCHANGED <<files, stateMachines, viewModels>>
    BY <1>4 DEF InstantiateArtboard
  <2>2. \E messages \in Seq(Talk) : Say(messages)
    BY <1>e, <2>1, TalkFacts
  <2>3. \A k \in Kinds \ {"artboard"} : Live[k]' = Live[k]
    BY <2>1 DEF Live, Kinds
  <2>4. Live["artboard"]' = Live["artboard"] \/ Live["artboard"]' = Live["artboard"] \cup {a}
    BY <2>1 DEF Live
  <2>5. QED
    BY <1>t, <2>1, <2>2, <2>3, <2>4, CreationSays
<1>5. CASE InstantiateViewModel(f)
  <2>1. PICK v \in 1..MaxViewModels :
           /\ Issue("viewModel", v)
           /\ viewModels' = viewModels \cup {v} \/ viewModels' = viewModels
           /\ Say(<<>>) \/ Say(<<Error("file", f)>>)
           /\ UNCHANGED <<files, artboards, stateMachines>>
    BY <1>5 DEF InstantiateViewModel
  <2>2. \E messages \in Seq(Talk) : Say(messages)
    BY <1>e, <2>1, TalkFacts
  <2>3. \A k \in Kinds \ {"viewModel"} : Live[k]' = Live[k]
    BY <2>1 DEF Live, Kinds
  <2>4. Live["viewModel"]' = Live["viewModel"] \/ Live["viewModel"]' = Live["viewModel"] \cup {v}
    BY <2>1 DEF Live
  <2>5. QED
    BY <1>t, <2>1, <2>2, <2>3, <2>4, CreationSays
<1>6. QED
  BY <1>1, <1>2, <1>3, <1>4, <1>5 DEF FileCommand

\* Loading answers for the new handle.
LEMMA LoadFileSays == IInv /\ DeletedType /\ LoadFile => StepSays
<1> SUFFICES ASSUME IInv, DeletedType, LoadFile PROVE StepSays
  OBVIOUS
<1>1. PICK f \in 1..MaxFiles :
         /\ Issue("file", f)
         /\ files' = files \cup {f} \/ files' = files
         /\ Say(<<Reply("file", f)>>) \/ Say(<<Error("file", f)>>)
         /\ UNCHANGED <<artboards, stateMachines, viewModels>>
  BY DEF LoadFile
<1>2. f \in Nat /\ "file" \in Kinds /\ f \notin Known("file")
  BY <1>1, IssuedIsFresh DEF Kinds
<1>3. \E messages \in Seq(Talk) : Say(messages)
  BY <1>1, <1>2, TalkFacts
<1>4. \A k \in Kinds \ {"file"} : Live[k]' = Live[k]
  BY <1>1 DEF Live, Kinds
<1>5. Live["file"]' = Live["file"] \/ Live["file"]' = Live["file"] \cup {f}
  BY <1>1 DEF Live
<1>6. QED
  BY <1>1, <1>2, <1>3, <1>4, <1>5, CreationSays

\* The commands on an artboard but its deletion.
LEMMA ArtboardCommandSays ==
    ASSUME IInv, DeletedType, NEW a \in Known("artboard"), ArtboardCommand(a),
           ~ DeleteArtboard(a)
    PROVE  StepSays
<1>t. /\ a \in Nat /\ Kinds = {"file", "artboard", "stateMachine", "viewModel"}
      /\ Known("file") \subseteq Nat
  BY KnownAreNumbers DEF IInv, Kinds
<1>e. /\ Error("artboard", a) \in Talk
      /\ \A f \in Known("file") : Error("file", f) \in Talk
      /\ a \in artboards => Reply("artboard", a) \in Talk
  BY <1>t, TalkFacts, KindsAreFour
<1>1. CASE ListStateMachines(a)
  BY <1>1, <1>e, TalkFacts, LookupSays DEF ListStateMachines
<1>2. ASSUME NEW f \in Known("file"), GetDefaultViewModel(a, f)
      PROVE  StepSays
  BY <1>2, <1>e, TalkFacts, LookupSays DEF GetDefaultViewModel
<1>3. CASE InstantiateStateMachine(a)
  <2>1. PICK s \in 1..MaxStateMachines :
           /\ Issue("stateMachine", s)
           /\ \/ stateMachines' = stateMachines \cup {s}
              \/ stateMachines' = stateMachines
           /\ Say(<<>>) \/ Say(<<Error("artboard", a)>>)
           /\ UNCHANGED <<files, artboards, viewModels>>
    BY <1>3 DEF InstantiateStateMachine
  <2>2. \E messages \in Seq(Talk) : Say(messages)
    BY <1>e, <2>1, TalkFacts
  <2>3. \A k \in Kinds \ {"stateMachine"} : Live[k]' = Live[k]
    BY <2>1 DEF Live, Kinds
  <2>4. \/ Live["stateMachine"]' = Live["stateMachine"]
        \/ Live["stateMachine"]' = Live["stateMachine"] \cup {s}
    BY <2>1 DEF Live
  <2>5. QED
    BY <1>t, <2>1, <2>2, <2>3, <2>4, CreationSays
<1>4. ASSUME NEW f \in Known("file"), InstantiateViewModelForArtboard(f, a)
      PROVE  StepSays
  <2>1. PICK v \in 1..MaxViewModels :
           /\ Issue("viewModel", v)
           /\ viewModels' = viewModels \cup {v} \/ viewModels' = viewModels
           /\ Say(<<>>) \/ Say(<<Error("file", f)>>)
           /\ UNCHANGED <<files, artboards, stateMachines>>
    BY <1>4 DEF InstantiateViewModelForArtboard
  <2>2. \E messages \in Seq(Talk) : Say(messages)
    BY <1>e, <2>1, TalkFacts
  <2>3. \A k \in Kinds \ {"viewModel"} : Live[k]' = Live[k]
    BY <2>1 DEF Live, Kinds
  <2>4. Live["viewModel"]' = Live["viewModel"] \/ Live["viewModel"]' = Live["viewModel"] \cup {v}
    BY <2>1 DEF Live
  <2>5. QED
    BY <1>t, <2>1, <2>2, <2>3, <2>4, CreationSays
<1>5. QED
  BY <1>1, <1>2, <1>3, <1>4 DEF ArtboardCommand

\* A state machine or a view model is deleted alone, whether it was there or not.
LEMMA LoneDeletionSays ==
    ASSUME IInv, DeletedType, NEW kind \in {"stateMachine", "viewModel"},
           NEW h \in Known(kind), Say(<<Deleted(kind, h)>>), UNCHANGED issued,
           \A k \in Kinds : Live[k]' = IF k = kind THEN Live[k] \ {h} ELSE Live[k]
    PROVE  StepSays
<1>t. kind \in Kinds /\ h \in Nat
  BY KnownAreNumbers DEF IInv, Kinds
<1> DEFINE d == Deleted(kind, h)
<1>1. d \in Messages
  BY <1>t, MessageFacts
<1>2. <<d>> \in Seq(Messages)
  <2> HIDE DEF d
  <2>1. QED
    BY <1>1
<1>3. /\ outbox' = <<d>> /\ outbox' \in Seq(Messages)
      /\ deleted' \in [Kinds -> SUBSET Nat]
      /\ \A k \in Kinds : deleted'[k] = deleted[k] \cup {g \in Nat : Told(k, g)}
  BY <1>2, SayRecords
<1>4. DOMAIN outbox' = {1} /\ outbox'[1] = d
  <2> HIDE DEF d
  <2>1. QED
    BY <1>3
<1>5. \A k, g : Told(k, g) <=> k = kind /\ g = h
  BY <1>4, MessageFacts DEF Told
<1>6. \A k \in Kinds : Known(k)' = Known(k)
  BY DEF Known
<1>7. \A k, g : d # Reply(k, g)
  BY DEF Deleted, Reply, Message
<1> HIDE DEF d
<1>8. \A k \in Kinds : SaysOf(k)
  BY <1>3, <1>4, <1>5, <1>6, <1>7 DEF SaysOf
<1>9. \A i \in DOMAIN outbox' : \A g : /\ outbox'[i] # Deleted("artboard", g)
                                       /\ outbox'[i] # Deleted("file", g)
  BY <1>4, MessageFacts DEF d
<1>10. InOrder
  BY <1>9 DEF InOrder
<1>11. QED
  BY <1>3, <1>8, <1>10 DEF StepSays

\* The commands on a state machine.
LEMMA StateMachineCommandSays ==
    ASSUME IInv, DeletedType, NEW s \in Known("stateMachine"), StateMachineCommand(s)
    PROVE  StepSays
<1>t. s \in Nat /\ Kinds = {"file", "artboard", "stateMachine", "viewModel"}
  BY KnownAreNumbers DEF IInv, Kinds
<1>e. /\ Error("stateMachine", s) \in Talk
      /\ s \in stateMachines => Reply("stateMachine", s) \in Talk
  BY <1>t, TalkFacts, KindsAreFour
<1>1. CASE DeleteStateMachine(s)
  <2>1. \A k \in Kinds :
           Live[k]' = IF k = "stateMachine" THEN Live[k] \ {s} ELSE Live[k]
    BY <1>1 DEF DeleteStateMachine, Live, Kinds
  <2>2. QED
    BY <1>1, <2>1, LoneDeletionSays DEF DeleteStateMachine
<1>2. CASE AdvanceStateMachine(s)
  BY <1>2, <1>e, TalkFacts, LookupSays DEF AdvanceStateMachine
<1>3. CASE PointerEvent(s)
  BY <1>3, <1>e, TalkFacts, LookupSays DEF PointerEvent
<1>4. ASSUME NEW v, BindViewModelInstance(s, v)
      PROVE  StepSays
  BY <1>4, <1>e, TalkFacts, LookupSays DEF BindViewModelInstance
<1>5. QED
  BY <1>1, <1>2, <1>3, <1>4 DEF StateMachineCommand

\* The commands on a view model.
LEMMA ViewModelCommandSays ==
    ASSUME IInv, DeletedType, NEW v \in Known("viewModel"), ViewModelCommand(v)
    PROVE  StepSays
<1>t. v \in Nat /\ Kinds = {"file", "artboard", "stateMachine", "viewModel"}
  BY KnownAreNumbers DEF IInv, Kinds
<1>e. /\ Error("viewModel", v) \in Talk
      /\ v \in viewModels => Reply("viewModel", v) \in Talk
  BY <1>t, TalkFacts, KindsAreFour
<1>1. CASE DeleteViewModel(v)
  <2>1. \A k \in Kinds :
           Live[k]' = IF k = "viewModel" THEN Live[k] \ {v} ELSE Live[k]
    BY <1>1 DEF DeleteViewModel, Live, Kinds
  <2>2. QED
    BY <1>1, <2>1, LoneDeletionSays DEF DeleteViewModel
<1>2. CASE RefNestedViewModel(v) \/ RefListViewModel(v)
  <2>1. PICK w \in 1..MaxViewModels :
           /\ Issue("viewModel", w)
           /\ viewModels' = viewModels \cup {w} \/ viewModels' = viewModels
           /\ Say(<<>>) \/ Say(<<Error("viewModel", w)>>) \/ Say(<<Error("viewModel", v)>>)
           /\ UNCHANGED <<files, artboards, stateMachines>>
    BY <1>2 DEF RefNestedViewModel, RefListViewModel
  <2>2. Error("viewModel", w) \in Talk
    BY <1>t, TalkFacts
  <2>3. \E messages \in Seq(Talk) : Say(messages)
    BY <1>e, <2>1, <2>2, TalkFacts
  <2>4. \A k \in Kinds \ {"viewModel"} : Live[k]' = Live[k]
    BY <2>1 DEF Live, Kinds
  <2>5. Live["viewModel"]' = Live["viewModel"] \/ Live["viewModel"]' = Live["viewModel"] \cup {w}
    BY <2>1 DEF Live
  <2>6. QED
    BY <1>t, <2>1, <2>3, <2>4, <2>5, CreationSays
<1>3. CASE EditList(v)
  BY <1>3, <1>e, TalkFacts, LookupSays DEF EditList
<1>4. CASE SetValue(v)
  BY <1>4, <1>e, TalkFacts, LookupSays DEF SetValue
<1>5. CASE GetListSize(v)
  BY <1>5, <1>e, TalkFacts, LookupSays DEF GetListSize
<1>6. CASE GetPropertyValue(v)
  BY <1>6, <1>e, TalkFacts, LookupSays DEF GetPropertyValue
<1>7. ASSUME NEW w, AddListValue(v, w)
      PROVE  StepSays
  BY <1>7, <1>e, TalkFacts, LookupSays DEF AddListValue
<1>8. ASSUME NEW w, SetNestedViewModel(v, w)
      PROVE  StepSays
  BY <1>8, <1>e, TalkFacts, LookupSays DEF SetNestedViewModel
<1>9. ASSUME NEW a, SetArtboard(v, a)
      PROVE  StepSays
  BY <1>9, <1>e, TalkFacts, LookupSays DEF SetArtboard
<1>10. QED
  BY <1>1, <1>2, <1>3, <1>4, <1>5, <1>6, <1>7, <1>8, <1>9 DEF ViewModelCommand

\* A deletion whose messages are in order, each of them the end of a resource
\* that was live and is not, or of the handle named in the command.
LEMMA DeletionSays ==
    ASSUME DeletedType, NEW says \in Seq(Messages), Say(says), UNCHANGED issued,
           NoRepeats(says), InOrder,
           \A k \in Kinds : Live[k]' \subseteq Live[k],
           \A k \in Kinds : \A h \in Live[k] \ Live[k]' : Told(k, h),
           \A i \in DOMAIN says : \E k \in Kinds : \E h \in Known(k) :
              says[i] = Deleted(k, h) /\ h \notin Live[k]'
    PROVE  StepSays
<1>1. /\ outbox' = says /\ outbox' \in Seq(Messages)
      /\ deleted' \in [Kinds -> SUBSET Nat]
      /\ \A k \in Kinds : deleted'[k] = deleted[k] \cup {h \in Nat : Told(k, h)}
  BY SayRecords
<1>2. \A k \in Kinds : Known(k)' = Known(k)
  BY DEF Known
<1>3. ASSUME NEW k \in Kinds
      PROVE  SaysOf(k)
  <2>1. \A h : \A i, j \in DOMAIN outbox' :
          outbox'[i] = Deleted(k, h) /\ outbox'[j] = Deleted(k, h) => i = j
    BY <1>1 DEF NoRepeats
  <2>2. ASSUME NEW h, Told(k, h)
        PROVE  h \in Known(k) /\ h \notin Live[k]'
    <3>1. PICK i \in DOMAIN says : says[i] = Deleted(k, h)
      BY <1>1, <2>2 DEF Told
    <3>2. PICK l \in Kinds : \E g \in Known(l) :
             says[i] = Deleted(l, g) /\ g \notin Live[l]'
      BY <3>1
    <3>3. l = k /\ \A g : says[i] = Deleted(l, g) => g = h
      BY <3>1, <3>2 DEF Deleted, Message
    <3>4. QED
      BY <3>2, <3>3
  <2>3. ASSUME NEW h, NEW i \in DOMAIN outbox'
        PROVE  outbox'[i] # Reply(k, h)
    <3>1. PICK l \in Kinds : \E g \in Known(l) : says[i] = Deleted(l, g)
      BY <1>1, <2>3
    <3>2. QED
      BY <1>1, <3>1 DEF Deleted, Reply, Message
  <2>4. QED
    BY <1>1, <1>2, <2>1, <2>2, <2>3 DEF SaysOf
<1>4. QED
  BY <1>1, <1>3 DEF StepSays

\* cleanupArtboard tells of the machines that die, then of the artboard.
LEMMA DeleteArtboardSays ==
    ASSUME IInv, VectorsInv, DeletedType, NEW a \in Known("artboard"),
           DeleteArtboard(a)
    PROVE  StepSays
<1>t. /\ TypeOK /\ DependenciesOfLive /\ OneOwner(artboardDependencies)
      /\ DOMAIN artboardDependencies = artboards
      /\ stateMachines \subseteq Known("stateMachine")
      /\ Kinds = {"file", "artboard", "stateMachine", "viewModel"}
  BY VectorTypes DEF IInv, DependenciesOfLive, Kinds
<1>1. /\ Say(CleanupMessages(a)) /\ CleanupArtboards({a})
      /\ UNCHANGED <<issued, files, viewModels, fileDependencies>>
  BY DEF DeleteArtboard
<1>2. CASE a \notin artboards
  <2>1. CleanupMessages(a) = <<>>
    BY <1>2 DEF CleanupMessages
  <2>2. artboards' = artboards /\ stateMachines' = stateMachines
    BY <1>1, <1>2 DEF CleanupArtboards
  <2>3. \A k \in Kinds : Live[k]' = Live[k] /\ Known(k)' = Known(k)
    BY <1>1, <2>2 DEF Live, Known
  <2>4. \E messages \in Seq(Talk) : Say(messages)
    BY <1>1, <2>1, TalkFacts
  <2>5. QED
    BY <2>3, <2>4, TalkSays
<1>3. CASE a \in artboards
  <2> DEFINE says == CleanupMessages(a)
             dying == ToSet(artboardDependencies[a]) \cap stateMachines
  <2>1. /\ says \in Seq(Messages) /\ Len(says) \in Nat \ {0}
        /\ NoRepeats(says)
        /\ says[Len(says)] = Deleted("artboard", a)
        /\ \A p \in 1..(Len(says) - 1) :
              \E s \in dying : says[p] = Deleted("stateMachine", s)
        /\ \A s \in dying : \E p \in 1..Len(says) : says[p] = Deleted("stateMachine", s)
    BY <1>3, CleanupSays
  <2>2. artboards' = artboards \ {a} /\ stateMachines' = stateMachines \ dying
    BY <1>1, <1>3 DEF CleanupArtboards
  <2>3. Say(says)
    BY <1>1
  <2> HIDE DEF says, dying
  <2>4. DOMAIN says = 1..Len(says) /\ 1..Len(says) = 1..(Len(says) - 1) \cup {Len(says)}
    BY <2>1
  <2>5. outbox' = says
    BY <2>3 DEF Say
  <2>6. InOrder
    <3> SUFFICES ASSUME NEW i \in 1..Len(says), NEW j \in 1..Len(says)
                 PROVE  /\ \A b, s : says[i] = Deleted("artboard", b)
                              /\ says[j] = Deleted("stateMachine", s) => j < i
                        /\ \A f : says[i] # Deleted("file", f)
      BY <2>4, <2>5 DEF InOrder
    <3>1. \A p \in 1..(Len(says) - 1) : \A b : says[p] # Deleted("artboard", b)
      BY <2>1, MessageFacts
    <3>2. \A s : says[Len(says)] # Deleted("stateMachine", s)
      BY <2>1, MessageFacts
    <3>3. \A p \in 1..Len(says) : \A f : says[p] # Deleted("file", f)
      BY <2>1, <2>4, MessageFacts
    <3>4. \A b, s : says[i] = Deleted("artboard", b)
                              /\ says[j] = Deleted("stateMachine", s) =>
                    i = Len(says) /\ j \in 1..(Len(says) - 1)
      BY <2>4, <3>1, <3>2
    <3>5. QED
      BY <2>1, <3>3, <3>4
  <2>7. /\ Live["file"]' = files /\ Live["artboard"]' = artboards \ {a}
        /\ Live["stateMachine"]' = stateMachines \ dying
        /\ Live["viewModel"]' = viewModels
    BY <1>1, <2>2 DEF Live
  <2>8. \A k \in Kinds : Live[k]' \subseteq Live[k]
    BY <1>t, <2>7, KindsAreFour
  <2>9. \A k \in Kinds : \A h \in Live[k] \ Live[k]' : Told(k, h)
    BY <1>t, <2>1, <2>4, <2>5, <2>7, KindsAreFour DEF Told
  <2>10. \A i \in DOMAIN says : \E k \in Kinds : \E h \in Known(k) :
              says[i] = Deleted(k, h) /\ h \notin Live[k]'
    <3>1. \A s \in dying : s \in Known("stateMachine") /\ s \notin Live["stateMachine"]'
      BY <1>t, <2>7 DEF dying
    <3>2. a \notin Live["artboard"]'
      BY <2>7
    <3>3. \A i \in 1..(Len(says) - 1) : \E s \in dying : says[i] = Deleted("stateMachine", s)
      BY <2>1
    <3>4. QED
      BY <1>t, <2>1, <2>4, <3>1, <3>2, <3>3
  <2>11. QED
    BY <1>1, <2>1, <2>3, <2>6, <2>8, <2>9, <2>10, DeletionSays
<1>4. QED
  BY <1>2, <1>3

\* A file that is not there is told of alone.
LEMMA DeleteNoFileSays ==
    ASSUME IInv, VectorsInv, DeletedType, NEW f \in Known("file"), DeleteFile(f),
           f \notin files
    PROVE  StepSays
<1>t. /\ DOMAIN fileDependencies = files
      /\ "file" \in Kinds /\ f \in Nat
  BY KnownAreNumbers DEF IInv, DependenciesOfLive, Kinds
<1>1. /\ files' = files \ {f}
      /\ CleanupArtboards(ToSet(<<>>))
      /\ Say(FlattenSeq([i \in DOMAIN <<>> |-> CleanupMessages(<<>>[i])])
               \o <<Deleted("file", f)>>)
      /\ UNCHANGED <<issued, viewModels>>
  BY <1>t DEF DeleteFile
<1>2. artboards' = artboards /\ stateMachines' = stateMachines /\ files' = files
  BY <1>1, EmptyVector DEF CleanupArtboards
<1>3. [i \in DOMAIN <<>> |-> CleanupMessages(<<>>[i])] = <<>>
  OBVIOUS
<1>4. FlattenSeq(<<>>) = <<>>
  BY DEF FlattenSeq
<1> DEFINE d == Deleted("file", f)
<1>5. d \in Messages
  BY <1>t, MessageFacts
<1>6. Say(<<>> \o <<d>>)
  BY <1>1, <1>3, <1>4
<1> HIDE DEF d
<1>7. <<>> \o <<d>> = <<d>>
  OBVIOUS
<1>8. <<d>> \in Seq(Messages) /\ DOMAIN <<d>> = {1} /\ <<d>>[1] = d
  BY <1>5
<1>9. Say(<<d>>) /\ outbox' = <<d>>
  BY <1>6, <1>7 DEF Say
<1>10. \A k \in Kinds : Live[k]' = Live[k]
  BY <1>1, <1>2 DEF Live
<1>11. \A i \in DOMAIN <<d>> : \A a : <<d>>[i] # Deleted("artboard", a)
  BY <1>8, MessageFacts DEF d
<1>12. InOrder
  BY <1>9, <1>11 DEF InOrder
<1>13. NoRepeats(<<d>>)
  BY <1>8 DEF NoRepeats
<1>14. \A i \in DOMAIN <<d>> : \E k \in Kinds : \E h \in Known(k) :
              <<d>>[i] = Deleted(k, h) /\ h \notin Live[k]'
  BY <1>t, <1>8, <1>10, KindsAreFour DEF d
<1>15. QED
  BY <1>1, <1>8, <1>9, <1>10, <1>12, <1>13, <1>14, DeletionSays

\* deleteFile tells of all artboards with their machines, then of the file.
LEMMA DeleteLoadedFileSays ==
    ASSUME IInv, VectorsInv, DeletedType, NEW f \in files, DeleteFile(f)
    PROVE  StepSays
<1>t. /\ TypeOK /\ DependenciesOfLive
      /\ DOMAIN fileDependencies = files /\ DOMAIN artboardDependencies = artboards
      /\ f \in Known("file") /\ f \in Nat
      /\ artboards \subseteq Known("artboard")
      /\ stateMachines \subseteq Known("stateMachine")
      /\ Kinds = {"file", "artboard", "stateMachine", "viewModel"}
  BY VectorTypes, KnownAreNumbers DEF IInv, DependenciesOfLive, Kinds
<1> DEFINE dependents == fileDependencies[f]
           first == FlattenSeq([i \in DOMAIN dependents |->
                                  CleanupMessages(dependents[i])])
           last == Deleted("file", f)
           says == first \o <<last>>
           doomed == ToSet(dependents) \cap artboards
           dying == (UNION {ToSet(artboardDependencies[a]) : a \in doomed})
                      \cap stateMachines
<1>1. /\ files' = files \ {f}
      /\ CleanupArtboards(ToSet(dependents))
      /\ Say(says)
      /\ UNCHANGED <<issued, viewModels>>
  BY <1>t DEF DeleteFile
<1>2. artboards' = artboards \ doomed /\ stateMachines' = stateMachines \ dying
  BY <1>1 DEF CleanupArtboards
<1>f. first = FlattenSeq([i \in DOMAIN fileDependencies[f] |->
                                CleanupMessages(fileDependencies[f][i])])
  OBVIOUS
<1> HIDE DEF first
<1>r. Reports(first, f)
  BY <1>f, ArtboardsAreReported
<1>3. /\ first \in Seq(Messages) /\ NoRepeats(first)
      /\ \A i \in DOMAIN first : \E a \in ToSet(fileDependencies[f]) \cap artboards :
            \/ first[i] = Deleted("artboard", a)
            \/ \E s \in ToSet(artboardDependencies[a]) \cap stateMachines :
                  first[i] = Deleted("stateMachine", s)
      /\ \A a \in ToSet(fileDependencies[f]) \cap artboards :
            /\ \E i \in DOMAIN first : first[i] = Deleted("artboard", a)
            /\ \A s \in ToSet(artboardDependencies[a]) \cap stateMachines :
                  \E i \in DOMAIN first : first[i] = Deleted("stateMachine", s)
      /\ \A i, j \in DOMAIN first : \A a \in artboards :
            \A s \in ToSet(artboardDependencies[a]) :
               first[i] = Deleted("artboard", a)
                 /\ first[j] = Deleted("stateMachine", s) => j < i
  BY <1>r DEF Reports
<1>4. /\ \A i \in DOMAIN first :
            \/ \E a \in doomed : first[i] = Deleted("artboard", a)
            \/ \E s \in dying : first[i] = Deleted("stateMachine", s)
      /\ \A a \in doomed : \E i \in DOMAIN first : first[i] = Deleted("artboard", a)
      /\ \A s \in dying : \E i \in DOMAIN first : first[i] = Deleted("stateMachine", s)
  BY <1>3
<1> HIDE DEF dependents
<1>5. /\ doomed \subseteq artboards /\ dying \subseteq stateMachines
  OBVIOUS
<1> HIDE DEF doomed, dying
<1>6. last \in Messages
  BY <1>t, MessageFacts
<1>7. /\ \A k, h : last = Deleted(k, h) => k = "file" /\ h = f
      /\ \A i \in DOMAIN first : \A h : first[i] # Deleted("file", h)
      /\ \A i \in DOMAIN first : first[i] # last
  BY <1>4, MessageFacts
<1>8. /\ says \in Seq(Messages) /\ DOMAIN first = 1..Len(first) /\ Len(first) \in Nat
      /\ DOMAIN says = 1..(Len(first) + 1)
      /\ \A i \in 1..Len(first) : says[i] = first[i]
      /\ says[Len(first) + 1] = last
  <2> HIDE DEF last
  <2>1. QED
    BY <1>3, <1>6
<1> HIDE DEF says
<1>9. 1..(Len(first) + 1) = 1..Len(first) \cup {Len(first) + 1}
  BY <1>8
<1>10. outbox' = says
  BY <1>1 DEF Say
<1>11. NoRepeats(says)
  <2> SUFFICES ASSUME NEW i \in DOMAIN says, NEW j \in DOMAIN says, says[i] = says[j]
               PROVE  i = j
    BY DEF NoRepeats
  <2> HIDE DEF last
  <2>1. CASE i \in 1..Len(first) /\ j \in 1..Len(first)
    BY <1>3, <1>8, <2>1 DEF NoRepeats
  <2>2. CASE i = Len(first) + 1 \/ j = Len(first) + 1
    BY <1>7, <1>8, <1>9, <2>2
  <2>3. QED
    BY <1>8, <1>9, <2>1, <2>2
<1>12. InOrder
  <2> HIDE DEF last
  <2>1. ASSUME NEW i \in DOMAIN says, NEW j \in DOMAIN says, NEW a \in artboards,
               NEW s \in ToSet(artboardDependencies[a]),
               says[i] = Deleted("artboard", a), says[j] = Deleted("stateMachine", s)
        PROVE  j < i
    <3>1. "artboard" # "file" /\ "stateMachine" # "file"
      OBVIOUS
    <3>2. says[i] # last /\ says[j] # last
      BY <1>7, <2>1, <3>1
    <3>3. i \in 1..Len(first) /\ j \in 1..Len(first)
      BY <1>8, <1>9, <3>2
    <3>4. QED
      BY <1>3, <1>8, <2>1, <3>3
  <2>2. ASSUME NEW i \in DOMAIN says, NEW j \in DOMAIN says, NEW h, NEW a,
               says[i] = Deleted("file", h), says[j] = Deleted("artboard", a)
        PROVE  j < i
    <3>1. "artboard" # "file"
      OBVIOUS
    <3>2. says[j] # last /\ i \notin 1..Len(first)
      BY <1>7, <1>8, <2>2, <3>1
    <3>3. j \in 1..Len(first) /\ i = Len(first) + 1
      BY <1>8, <1>9, <3>2
    <3>4. QED
      BY <1>8, <3>3
  <2>3. /\ DOMAIN outbox' = DOMAIN says
        /\ \A i \in DOMAIN says : outbox'[i] = says[i]
    BY <1>10
  <2> SUFFICES ASSUME NEW i \in DOMAIN says, NEW j \in DOMAIN says
               PROVE  /\ \A a \in artboards : \A s \in ToSet(artboardDependencies[a]) :
                           says[i] = Deleted("artboard", a)
                             /\ says[j] = Deleted("stateMachine", s) => j < i
                      /\ \A h, a : says[i] = Deleted("file", h)
                                     /\ says[j] = Deleted("artboard", a) => j < i
    BY <1>t, <2>3 DEF InOrder
  <2>4. QED
    BY <2>1, <2>2
<1>13. /\ Live["file"]' = files \ {f} /\ Live["artboard"]' = artboards \ doomed
       /\ Live["stateMachine"]' = stateMachines \ dying
       /\ Live["viewModel"]' = viewModels
  BY <1>1, <1>2 DEF Live
<1>14. \A k \in Kinds : Live[k]' \subseteq Live[k]
  BY <1>t, <1>13, KindsAreFour
<1>15. \A k \in Kinds : \A h \in Live[k] \ Live[k]' : Told(k, h)
  <2>1. Told("file", f)
    BY <1>8, <1>9, <1>10 DEF Told, last
  <2>2. \A a \in doomed : Told("artboard", a)
    BY <1>4, <1>8, <1>9, <1>10 DEF Told
  <2>3. \A s \in dying : Told("stateMachine", s)
    BY <1>4, <1>8, <1>9, <1>10 DEF Told
  <2>4. QED
    BY <1>t, <1>13, <2>1, <2>2, <2>3, KindsAreFour
<1>16. \A i \in DOMAIN says : \E k \in Kinds : \E h \in Known(k) :
          says[i] = Deleted(k, h) /\ h \notin Live[k]'
  <2> SUFFICES ASSUME NEW i \in DOMAIN says
               PROVE  \E k \in Kinds : \E h \in Known(k) :
                         says[i] = Deleted(k, h) /\ h \notin Live[k]'
    OBVIOUS
  <2>1. CASE i = Len(first) + 1
    BY <1>t, <1>8, <1>13, <2>1 DEF last
  <2>2. CASE i \in 1..Len(first)
    <3>1. says[i] = first[i] /\ i \in DOMAIN first
      BY <1>8, <2>2
    <3>2. CASE \E a \in doomed : first[i] = Deleted("artboard", a)
      BY <1>t, <1>5, <1>13, <3>1, <3>2
    <3>3. CASE \E s \in dying : first[i] = Deleted("stateMachine", s)
      BY <1>t, <1>5, <1>13, <3>1, <3>3
    <3>4. QED
      BY <1>4, <3>1, <3>2, <3>3
  <2>3. QED
    BY <1>8, <1>9, <2>1, <2>2
<1>17. QED
  BY <1>1, <1>8, <1>11, <1>12, <1>14, <1>15, <1>16, DeletionSays

\* Of every command.
LEMMA NextSays == IInv /\ VectorsInv /\ DeletedType /\ Next => StepSays
<1> SUFFICES ASSUME IInv, VectorsInv, DeletedType, Next PROVE StepSays
  OBVIOUS
<1>1. ASSUME NEW f \in Known("file"), FileCommand(f)
      PROVE  StepSays
  BY <1>1, FileCommandSays, DeleteNoFileSays, DeleteLoadedFileSays
<1>2. ASSUME NEW a \in Known("artboard"), ArtboardCommand(a)
      PROVE  StepSays
  BY <1>2, ArtboardCommandSays, DeleteArtboardSays
<1>3. QED
  BY <1>1, <1>2, LoadFileSays, StateMachineCommandSays, ViewModelCommandSays
  DEF Next

\* What was reported as deleted is issued and not live.
DeletedInv ==
    /\ DeletedType
    /\ \A k \in Kinds : \A h \in deleted[k] : h \in Known(k) /\ h \notin Live[k]

MessageInv == IInv /\ VectorsInv /\ DeletedInv

\* Nothing was reported before the first command.
LEMMA InitMessages == Init => VectorsInv /\ DeletedInv
  BY DEF Init, VectorsInv, DeletedInv, DeletedType

\* Every command keeps what is reported dead.
LEMMA StepMessages == MessageInv /\ [Next]_vars => MessageInv'
<1> SUFFICES ASSUME MessageInv, [Next]_vars PROVE MessageInv'
  OBVIOUS
<1>1. IInv' /\ VectorsInv'
  BY StepIInv, VectorsStep DEF MessageInv
<1>2. CASE Next
  <2>1. StepSays
    BY <1>2, NextSays DEF MessageInv, DeletedInv
  <2>2. DeletedType'
    BY <2>1 DEF StepSays, DeletedType
  <2>3. ASSUME NEW k \in Kinds, NEW h \in deleted'[k]
        PROVE  h \in Known(k)' /\ h \notin Live[k]'
    <3>1. SaysOf(k)
      BY <2>1 DEF StepSays
    <3>2. CASE h \in deleted[k]
      BY <3>1, <3>2 DEF SaysOf, MessageInv, DeletedInv
    <3>3. CASE Told(k, h)
      BY <3>1, <3>3 DEF SaysOf
    <3>4. QED
      BY <3>1, <3>2, <3>3 DEF SaysOf
  <2>4. QED
    BY <1>1, <2>2, <2>3 DEF MessageInv, DeletedInv
<1>3. CASE UNCHANGED vars
  <2>1. DeletedInv'
    BY <1>3 DEF MessageInv, DeletedInv, DeletedType, vars, maps, Known, Live
  <2>2. QED
    BY <1>1, <2>1 DEF MessageInv
<1>4. QED
  BY <1>2, <1>3

\* Whatever the clients delete and create: no dependency vector holds a handle
\* twice, and what a ...Deleted message was sent for is not live.
THEOREM MessagesInvariant == Spec => []MessageInv
<1>1. Init => MessageInv
  BY InitIInv, InitMessages DEF MessageInv
<1>2. QED
  BY <1>1, StepMessages, PTL DEF Spec

\* One report for every resource that a command kills, none for the others.
LEMMA StepReports ==
    ASSUME MessageInv, Next
    PROVE  \A k \in Kinds : \A h \in Live[k] :
             LET reports == {i \in DOMAIN outbox' : outbox'[i] = Deleted(k, h)}
             IN  IF h \in Live[k]' THEN reports = {}
                 ELSE \E i \in DOMAIN outbox' : reports = {i}
<1> SUFFICES ASSUME NEW k \in Kinds, NEW h \in Live[k]
             PROVE  LET reports == {i \in DOMAIN outbox' : outbox'[i] = Deleted(k, h)}
                    IN  IF h \in Live[k]' THEN reports = {}
                        ELSE \E i \in DOMAIN outbox' : reports = {i}
  OBVIOUS
<1>1. SaysOf(k)
  BY NextSays DEF MessageInv, DeletedInv, StepSays
<1>2. h \in Live[k]' => ~ Told(k, h)
  BY <1>1 DEF SaysOf
<1>3. h \notin Live[k]' => Told(k, h)
  BY <1>1 DEF SaysOf
<1>4. \A i, j \in DOMAIN outbox' :
          outbox'[i] = Deleted(k, h) /\ outbox'[j] = Deleted(k, h) => i = j
  BY <1>1 DEF SaysOf
<1>5. QED
  BY <1>2, <1>3, <1>4 DEF Told

\* deleteFile, deleteArtboard, deleteStateMachine and deleteViewModel report each
\* resource they take along, once.
THEOREM ServerReportsDeletions == Spec => DeletionsAreReported
<1>1. MessageInv /\ [Next]_vars =>
        [\A k \in Kinds : \A h \in Live[k] :
           LET reports == {i \in DOMAIN outbox' : outbox'[i] = Deleted(k, h)}
           IN  IF h \in Live[k]' THEN reports = {}
               ELSE \E i \in DOMAIN outbox' : reports = {i}]_vars
  BY StepReports
<1>2. QED
  BY <1>1, MessagesInvariant, PTL DEF Spec, DeletionsAreReported

\* Dependents come first in the messages of a command.
LEMMA StepOrder ==
    ASSUME MessageInv, Next
    PROVE  \A i, j \in DOMAIN outbox' :
             \/ /\ outbox'[i].type = "deleted" /\ outbox'[i].kind = "artboard"
                /\ outbox'[j].type = "deleted" /\ outbox'[j].kind = "stateMachine"
                /\ outbox'[i].handle \in DOMAIN artboardDependencies
                /\ outbox'[j].handle \in
                     ToSet(artboardDependencies[outbox'[i].handle])
             \/ /\ outbox'[i].type = "deleted" /\ outbox'[i].kind = "file"
                /\ outbox'[j].type = "deleted" /\ outbox'[j].kind = "artboard"
             => j < i
<1> SUFFICES ASSUME NEW i \in DOMAIN outbox', NEW j \in DOMAIN outbox',
             \/ /\ outbox'[i].type = "deleted" /\ outbox'[i].kind = "artboard"
                /\ outbox'[j].type = "deleted" /\ outbox'[j].kind = "stateMachine"
                /\ outbox'[i].handle \in DOMAIN artboardDependencies
                /\ outbox'[j].handle \in
                     ToSet(artboardDependencies[outbox'[i].handle])
             \/ /\ outbox'[i].type = "deleted" /\ outbox'[i].kind = "file"
                /\ outbox'[j].type = "deleted" /\ outbox'[j].kind = "artboard"
             PROVE  j < i
  OBVIOUS
<1>1. StepSays
  BY NextSays DEF MessageInv, DeletedInv
<1>2. outbox'[i] \in Messages /\ outbox'[j] \in Messages
  BY <1>1 DEF StepSays
<1>3. /\ outbox'[i] = Deleted(outbox'[i].kind, outbox'[i].handle)
      /\ outbox'[j] = Deleted(outbox'[j].kind, outbox'[j].handle)
  BY <1>2 DEF Messages, Deleted, Message
<1>4. QED
  BY <1>1, <1>3 DEF StepSays, InOrder

\* cleanupArtboard and deleteFile report machines before artboards before files.
THEOREM ServerReportsDependentsFirst == Spec => DependentsAreReportedFirst
<1>1. MessageInv /\ [Next]_vars =>
        [\A i, j \in DOMAIN outbox' :
             \/ /\ outbox'[i].type = "deleted" /\ outbox'[i].kind = "artboard"
                /\ outbox'[j].type = "deleted" /\ outbox'[j].kind = "stateMachine"
                /\ outbox'[i].handle \in DOMAIN artboardDependencies
                /\ outbox'[j].handle \in
                     ToSet(artboardDependencies[outbox'[i].handle])
             \/ /\ outbox'[i].type = "deleted" /\ outbox'[i].kind = "file"
                /\ outbox'[j].type = "deleted" /\ outbox'[j].kind = "artboard"
             => j < i]_vars
  BY StepOrder
<1>2. QED
  BY <1>1, MessagesInvariant, PTL DEF Spec, DependentsAreReportedFirst

\* A handle that was reported dead is not answered for and does not come back.
LEMMA StepFinal ==
    ASSUME MessageInv, Next
    PROVE  \A k \in Kinds : \A h \in deleted[k] :
             /\ h \notin Live[k]'
             /\ \A i \in DOMAIN outbox' : outbox'[i] # Reply(k, h)
<1> SUFFICES ASSUME NEW k \in Kinds, NEW h \in deleted[k]
             PROVE  /\ h \notin Live[k]'
                    /\ \A i \in DOMAIN outbox' : outbox'[i] # Reply(k, h)
  OBVIOUS
<1>1. SaysOf(k)
  BY NextSays DEF MessageInv, DeletedInv, StepSays
<1>2. h \in Known(k) /\ h \notin Live[k]
  BY DEF MessageInv, DeletedInv
<1>3. QED
  BY <1>1, <1>2 DEF SaysOf

\* The handles of the queue are never used again, so nothing follows the
\* ...Deleted message of a handle but errors and repeated deletions.
THEOREM DeletedStaysDeleted == Spec => DeletedIsFinal
<1>1. MessageInv /\ [Next]_vars =>
        [\A k \in Kinds : \A h \in deleted[k] :
             /\ h \notin Live[k]'
             /\ \A i \in DOMAIN outbox' : outbox'[i] # Reply(k, h)]_vars
  BY StepFinal
<1>2. QED
  BY <1>1, MessagesInvariant, PTL DEF Spec, DeletedIsFinal
=============================================================================
