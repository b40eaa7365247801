---------------------------- MODULE ServerResources ----------------------------
(* The scene resources of CommandServer: the files, artboards, state machines *)
(* and view model instances behind the handles of CommandQueue, who depends  *)
(* on whom, and what the server says when it executes a command.             *)
(*                                                                           *)
(* The queue numbers the handles of a kind (++m_current...HandleIdx) and the *)
(* client may use a handle at once, whatever becomes of the command that     *)
(* should create its resource.  The server executes the commands one at a    *)
(* time in the order of recording (CommandTransport), so a step of this      *)
(* module is one command: recorded by a client and executed by the server.   *)
(* Subscriptions and global assets are not part of it.                       *)
EXTENDS Naturals, Sequences, SequencesExt

CONSTANTS
    MaxFiles, MaxArtboards, MaxStateMachines, MaxViewModels
                \* bounds: how many handles of a kind are issued

ASSUME BoundsAssumption ==
    {MaxFiles, MaxArtboards, MaxStateMachines, MaxViewModels} \subseteq Nat

Kinds == {"file", "artboard", "stateMachine", "viewModel"}

VARIABLES
    issued,               \* m_current...HandleIdx of the queue
    files,                \* the handles in m_files, m_artboards, ...
    artboards,
    stateMachines,
    viewModels,
    fileDependencies,     \* m_fileDependencies: file -> its artboards
    artboardDependencies, \* m_artboardDependencies: artboard -> its machines
    outbox,               \* the messages of the latest command, in order
    deleted               \* handles for which a ...Deleted message was sent

maps == <<files, artboards, stateMachines, viewModels, fileDependencies,
          artboardDependencies>>
vars == <<issued, maps, outbox, deleted>>

(***************************************************************************)
(* Messages                                                                *)
(***************************************************************************)

Message(type, kind, h) == [type |-> type, kind |-> kind, handle |-> h]

Error(kind, h) == Message("error", kind, h)
Deleted(kind, h) == Message("deleted", kind, h)
Reply(kind, h) == Message("reply", kind, h)

Say(messages) ==
    /\ outbox' = messages
    /\ deleted' =
         [k \in Kinds |-> deleted[k] \cup
            {messages[i].handle : i \in {j \in DOMAIN messages :
                messages[j].type = "deleted" /\ messages[j].kind = k}}]

Init ==
    /\ issued = [k \in Kinds |-> 0]
    /\ files = {} /\ artboards = {} /\ stateMachines = {} /\ viewModels = {}
    /\ fileDependencies = [f \in {} |-> <<>>]
    /\ artboardDependencies = [a \in {} |-> <<>>]
    /\ outbox = <<>>
    /\ deleted = [k \in Kinds |-> {}]

\* The handles of a kind that a client can hold.
Known(kind) == 1..issued[kind]

Limit(kind) == CASE kind = "file" -> MaxFiles
                 [] kind = "artboard" -> MaxArtboards
                 [] kind = "stateMachine" -> MaxStateMachines
                 [] kind = "viewModel" -> MaxViewModels

\* h is the handle the queue hands out next for a resource of this kind.
Issue(kind, h) ==
    /\ issued[kind] < Limit(kind)
    /\ h = issued[kind] + 1
    /\ issued' = [issued EXCEPT ![kind] = h]

\* map[h] = value
With(map, h, value) ==
    [x \in DOMAIN map \cup {h} |-> IF x = h THEN value ELSE map[x]]

Without(map, handles) == [x \in DOMAIN map \ handles |-> map[x]]

(***************************************************************************)
(* Files                                                                   *)
(***************************************************************************)

LoadFile ==
    \E f \in 1..MaxFiles :
        /\ Issue("file", f)
        /\ \/ /\ files' = files \cup {f}
              /\ fileDependencies' = With(fileDependencies, f, <<>>)
              /\ Say(<<Reply("file", f)>>)
           \/ /\ UNCHANGED <<files, fileDependencies>>
              /\ Say(<<Error("file", f)>>)
        /\ UNCHANGED <<artboards, stateMachines, viewModels,
                       artboardDependencies>>

\* The loop over the vector of an artboard: a state machine that is still in
\* m_stateMachines is erased and reported.
MachineMessages(machines) ==
    FlattenSeq([i \in DOMAIN machines |->
                  IF machines[i] \in stateMachines
                  THEN <<Deleted("stateMachine", machines[i])>> ELSE <<>>])

\* A bug of this kind: state machines go without a word.
CleanupOnlyArtboard(a) ==
    IF a \in artboards THEN <<Deleted("artboard", a)>> ELSE <<>>

CleanupMessages(a) ==
    IF a \in artboards
    THEN MachineMessages(artboardDependencies[a]) \o <<Deleted("artboard", a)>>
    ELSE <<>>

\* A bug of this kind: the vector of the artboard is dropped unread.
CleanupKeepingMachines(doomed) ==
    /\ artboards' = artboards \ doomed
    /\ artboardDependencies' =
         Without(artboardDependencies, doomed \cap artboards)
    /\ UNCHANGED stateMachines

\* cleanupArtboard for each of these handles; it does nothing for a handle that
\* is not in m_artboards.
CleanupArtboards(doomed) ==
    /\ artboards' = artboards \ doomed
    /\ stateMachines' =
         stateMachines \ UNION {ToSet(artboardDependencies[a]) :
                                  a \in doomed \cap artboards}
    /\ artboardDependencies' =
         Without(artboardDependencies, doomed \cap artboards)

\* A bug of this kind: the file is announced before its artboards.
DeleteFileFirst(f) ==
    LET dependents == IF f \in DOMAIN fileDependencies
                      THEN fileDependencies[f] ELSE <<>>
    IN  /\ files' = files \ {f}
        /\ CleanupArtboards(ToSet(dependents))
        /\ fileDependencies' = Without(fileDependencies, {f})
        /\ Say(<<Deleted("file", f)>> \o FlattenSeq(
                   [i \in DOMAIN dependents |-> CleanupMessages(dependents[i])]))
        /\ UNCHANGED <<issued, viewModels>>

\* A file that is not there is reported as deleted, too.
DeleteFile(f) ==
    LET dependents == IF f \in DOMAIN fileDependencies
                      THEN fileDependencies[f] ELSE <<>>
    IN  /\ files' = files \ {f}
        /\ CleanupArtboards(ToSet(dependents))
        /\ fileDependencies' = Without(fileDependencies, {f})
        /\ Say(FlattenSeq(
                 [i \in DOMAIN dependents |-> CleanupMessages(dependents[i])])
               \o <<Deleted("file", f)>>)
        /\ UNCHANGED <<issued, viewModels>>

\* listArtboards and listViewModelEnums.
ListOfFile(f) ==
    /\ Say(<<IF f \in files THEN Reply("file", f) ELSE Error("file", f)>>)
    /\ UNCHANGED <<issued, maps>>

\* listViewModels does the same with another list.
ListViewModels(f) == ListOfFile(f)

\* listViewModelProperties, for a name that the file may not have.
ListProperties(f) ==
    /\ \E named \in BOOLEAN :
          Say(<<IF f \in files /\ named THEN Reply("file", f)
                ELSE Error("file", f)>>)
    /\ UNCHANGED <<issued, maps>>

\* listViewModelInstanceNames reports its failures as viewModelError, with the
\* number of the file in the place of a view model handle.
ListInstanceNames(f) ==
    /\ \E named \in BOOLEAN :
          Say(<<IF f \in files /\ named THEN Reply("file", f)
                ELSE Error("viewModel", f)>>)
    /\ UNCHANGED <<issued, maps>>

(***************************************************************************)
(* Artboards                                                               *)
(***************************************************************************)

\* The file must be loaded and have an artboard of that name; a failure is told
\* to the file.
InstantiateArtboard(f) ==
    \E a \in 1..MaxArtboards :
        /\ Issue("artboard", a)
        /\ \/ /\ f \in files
              /\ fileDependencies' =
                   [fileDependencies EXCEPT ![f] = Append(@, a)]
              /\ artboardDependencies' = With(artboardDependencies, a, <<>>)
              /\ artboards' = artboards \cup {a}
              /\ Say(<<>>)
           \/ /\ UNCHANGED <<fileDependencies, artboardDependencies, artboards>>
              /\ Say(<<Error("file", f)>>)
        /\ UNCHANGED <<files, stateMachines, viewModels>>

\* The artboard stays in the vector of its file; deleting it once more says
\* nothing.
DeleteArtboard(a) ==
    /\ Say(CleanupMessages(a))
    /\ CleanupArtboards({a})
    /\ UNCHANGED <<issued, files, viewModels, fileDependencies>>

\* listStateMachines
ListStateMachines(a) ==
    /\ Say(<<IF a \in artboards THEN Reply("artboard", a)
             ELSE Error("artboard", a)>>)
    /\ UNCHANGED <<issued, maps>>

\* getDefaultViewModel: artboard and file must be there, and the artboard have a
\* view model with a default instance.
GetDefaultViewModel(a, f) ==
    /\ \E default \in BOOLEAN :
          Say(<<IF a \in artboards /\ f \in files /\ default
                THEN Reply("artboard", a) ELSE Error("artboard", a)>>)
    /\ UNCHANGED <<issued, maps>>

(***************************************************************************)
(* State machines                                                          *)
(***************************************************************************)

\* A bug of this kind: the artboard may have been deleted in the meantime.
InstantiateOnAnyArtboard(a) ==
    \E s \in 1..MaxStateMachines :
        /\ Issue("stateMachine", s)
        /\ stateMachines' = stateMachines \cup {s}
        /\ artboardDependencies' =
             With(artboardDependencies, a,
                  IF a \in DOMAIN artboardDependencies
                  THEN Append(artboardDependencies[a], s) ELSE <<s>>)
        /\ Say(<<>>)
        /\ UNCHANGED <<files, artboards, viewModels, fileDependencies>>

\* The artboard must be live and have a state machine of that name; a failure is
\* told to the artboard.
InstantiateStateMachine(a) ==
    \E s \in 1..MaxStateMachines :
        /\ Issue("stateMachine", s)
        /\ \/ /\ a \in artboards
              /\ stateMachines' = stateMachines \cup {s}
              /\ artboardDependencies' =
                   [artboardDependencies EXCEPT ![a] = Append(@, s)]
              /\ Say(<<>>)
           \/ /\ UNCHANGED <<stateMachines, artboardDependencies>>
              /\ Say(<<Error("artboard", a)>>)
        /\ UNCHANGED <<files, artboards, viewModels, fileDependencies>>

\* A state machine that is not there is reported as deleted, too; its handle
\* stays in the vector of its artboard.
DeleteStateMachine(s) ==
    /\ stateMachines' = stateMachines \ {s}
    /\ Say(<<Deleted("stateMachine", s)>>)
    /\ UNCHANGED <<issued, files, artboards, viewModels, fileDependencies,
                   artboardDependencies>>

\* A bug of this kind: settled is said of a handle that was not looked up.
SettleUnchecked(s) ==
    /\ \E settled \in BOOLEAN :
          Say(IF settled THEN <<Reply("stateMachine", s)>> ELSE <<>>)
    /\ UNCHANGED <<issued, maps>>

\* advanceStateMachine: stateMachineSettled when there is nothing left to do.
AdvanceStateMachine(s) ==
    /\ \E settled \in BOOLEAN :
          Say(IF s \notin stateMachines THEN <<Error("stateMachine", s)>>
              ELSE IF settled THEN <<Reply("stateMachine", s)>> ELSE <<>>)
    /\ UNCHANGED <<issued, maps>>

\* bindViewModelInstance needs both.
BindViewModelInstance(s, v) ==
    /\ Say(IF s \in stateMachines /\ v \in viewModels THEN <<>>
           ELSE <<Error("stateMachine", s)>>)
    /\ UNCHANGED <<issued, maps>>

\* pointerMove, pointerDown, pointerUp, pointerExit.
PointerEvent(s) ==
    /\ Say(IF s \in stateMachines THEN <<>> ELSE <<Error("stateMachine", s)>>)
    /\ UNCHANGED <<issued, maps>>

(***************************************************************************)
(* View models                                                             *)
(***************************************************************************)

\* instantiateViewModel, instantiateBlankViewModel by name: the file must be
\* there, have the view model and the instance; a failure is told to the file.
InstantiateViewModel(f) ==
    \E v \in 1..MaxViewModels :
        /\ Issue("viewModel", v)
        /\ \/ f \in files /\ viewModels' = viewModels \cup {v} /\ Say(<<>>)
           \/ UNCHANGED viewModels /\ Say(<<Error("file", f)>>)
        /\ UNCHANGED <<files, artboards, stateMachines, fileDependencies,
                       artboardDependencies>>

\* The two ...ForArtboard commands: an artboard without a view model of its own
\* leaves the handle dead and says nothing.
InstantiateViewModelForArtboard(f, a) ==
    \E v \in 1..MaxViewModels :
        /\ Issue("viewModel", v)
        /\ \/ /\ f \in files /\ a \in artboards
              /\ viewModels' = viewModels \cup {v}
              /\ Say(<<>>)
           \/ /\ f \in files /\ a \in artboards
              /\ UNCHANGED viewModels
              /\ Say(<<>>)
           \/ /\ UNCHANGED viewModels
              /\ Say(<<Error("file", f)>>)
        /\ UNCHANGED <<files, artboards, stateMachines, fileDependencies,
                       artboardDependencies>>

\* refNestedViewModel tells a failure to the new handle ...
RefNestedViewModel(root) ==
    \E v \in 1..MaxViewModels :
        /\ Issue("viewModel", v)
        /\ \/ root \in viewModels /\ viewModels' = viewModels \cup {v}
              /\ Say(<<>>)
           \/ UNCHANGED viewModels /\ Say(<<Error("viewModel", v)>>)
        /\ UNCHANGED <<files, artboards, stateMachines, fileDependencies,
                       artboardDependencies>>

\* ... and refListViewModel to the root.
RefListViewModel(root) ==
    \E v \in 1..MaxViewModels :
        /\ Issue("viewModel", v)
        /\ \/ root \in viewModels /\ viewModels' = viewModels \cup {v}
              /\ Say(<<>>)
           \/ UNCHANGED viewModels /\ Say(<<Error("viewModel", root)>>)
        /\ UNCHANGED <<files, artboards, stateMachines, fileDependencies,
                       artboardDependencies>>

\* A view model that is not there is reported as deleted, too.  Lists, bindings
\* and nested view models hold references of their own.
DeleteViewModel(v) ==
    /\ viewModels' = viewModels \ {v}
    /\ Say(<<Deleted("viewModel", v)>>)
    /\ UNCHANGED <<issued, files, artboards, stateMachines, fileDependencies,
                   artboardDependencies>>

\* addViewModelListValue: root and value must be there, and the path lead to a
\* list; a failure is told to the root.
AddListValue(root, v) ==
    /\ \E list \in BOOLEAN :
          Say(IF {root, v} \subseteq viewModels /\ list THEN <<>>
              ELSE <<Error("viewModel", root)>>)
    /\ UNCHANGED <<issued, maps>>

\* removeViewModelListValue and swapViewModelListValue: removing a value whose
\* handle is dead says nothing.
EditList(root) ==
    /\ \E list \in BOOLEAN :
          Say(IF root \in viewModels /\ list THEN <<>>
              ELSE <<Error("viewModel", root)>>)
    /\ UNCHANGED <<issued, maps>>

\* setViewModelInstanceValue for plain data and for images: the path may lead
\* nowhere, the value or the image not exist.
SetValue(v) ==
    /\ \E accepted \in BOOLEAN :
          Say(IF v \in viewModels /\ accepted THEN <<>>
              ELSE <<Error("viewModel", v)>>)
    /\ UNCHANGED <<issued, maps>>

\* setViewModelInstanceValue for a nested view model, which must be there.
SetNestedViewModel(v, nested) ==
    /\ \E replaced \in BOOLEAN :
          Say(IF {v, nested} \subseteq viewModels /\ replaced THEN <<>>
              ELSE <<Error("viewModel", v)>>)
    /\ UNCHANGED <<issued, maps>>

\* setViewModelInstanceValue for an artboard, which must be there.
SetArtboard(v, a) ==
    /\ \E property \in BOOLEAN :
          Say(IF v \in viewModels /\ a \in artboards /\ property THEN <<>>
              ELSE <<Error("viewModel", v)>>)
    /\ UNCHANGED <<issued, maps>>

\* getViewModelListSize, for a path that may lead nowhere.
GetListSize(v) ==
    /\ \E list \in BOOLEAN :
          Say(<<IF v \in viewModels /\ list THEN Reply("viewModel", v)
                ELSE Error("viewModel", v)>>)
    /\ UNCHANGED <<issued, maps>>

\* listViewModelPropertyValue: a path that leads nowhere is reported and then
\* answered all the same, with a value that was never set.
GetPropertyValue(v) ==
    /\ \E property \in BOOLEAN :
          Say(IF v \notin viewModels THEN <<Error("viewModel", v)>>
              ELSE IF property THEN <<Reply("viewModel", v)>>
              ELSE <<Error("viewModel", v), Reply("viewModel", v)>>)
    /\ UNCHANGED <<issued, maps>>

FileCommand(f) ==
    \/ DeleteFile(f) \/ ListOfFile(f) \/ ListViewModels(f)
    \/ ListProperties(f) \/ ListInstanceNames(f)
    \/ InstantiateArtboard(f) \/ InstantiateViewModel(f)

ArtboardCommand(a) ==
    \/ DeleteArtboard(a) \/ ListStateMachines(a) \/ InstantiateStateMachine(a)
    \/ \E f \in Known("file") :
          GetDefaultViewModel(a, f) \/ InstantiateViewModelForArtboard(f, a)

StateMachineCommand(s) ==
    \/ DeleteStateMachine(s) \/ AdvanceStateMachine(s) \/ PointerEvent(s)
    \/ \E v \in Known("viewModel") : BindViewModelInstance(s, v)

ViewModelCommand(v) ==
    \/ DeleteViewModel(v) \/ RefNestedViewModel(v) \/ RefListViewModel(v)
    \/ EditList(v) \/ SetValue(v) \/ GetListSize(v) \/ GetPropertyValue(v)
    \/ \E w \in Known("viewModel") : AddListValue(v, w) \/ SetNestedViewModel(v, w)
    \/ \E a \in Known("artboard") : SetArtboard(v, a)

Next ==
    \/ LoadFile
    \/ \E f \in Known("file") : FileCommand(f)
    \/ \E a \in Known("artboard") : ArtboardCommand(a)
    \/ \E s \in Known("stateMachine") : StateMachineCommand(s)
    \/ \E v \in Known("viewModel") : ViewModelCommand(v)

Spec == Init /\ [][Next]_vars

(***************************************************************************)
(* Properties                                                              *)
(***************************************************************************)

Live == [file |-> files, artboard |-> artboards,
         stateMachine |-> stateMachines, viewModel |-> viewModels]

\* The maps and the vectors hold handles that the queue has issued, so that the
\* handle it issues next is in none of them.
TypeOK ==
    /\ issued \in [Kinds -> Nat]
    /\ \A k \in Kinds : Live[k] \subseteq Known(k)
    /\ fileDependencies \in [DOMAIN fileDependencies -> Seq(Known("artboard"))]
    /\ artboardDependencies \in
         [DOMAIN artboardDependencies -> Seq(Known("stateMachine"))]

\* The assertions of instantiateArtboard and instantiateStateMachine: whatever
\* is live has its dependency vector, and nothing else has one.
DependenciesOfLive ==
    /\ DOMAIN fileDependencies = files
    /\ DOMAIN artboardDependencies = artboards

\* "When a file gets deleted artboards and statemachine become invalid": a live
\* artboard belongs to exactly one live file and a live state machine to exactly
\* one live artboard, over any order of creations and deletions.
NoOrphans ==
    /\ \A a \in artboards : \E f \in files :
         \A g \in DOMAIN fileDependencies :
            a \in ToSet(fileDependencies[g]) <=> g = f
    /\ \A s \in stateMachines : \E a \in artboards :
         \A b \in DOMAIN artboardDependencies :
            s \in ToSet(artboardDependencies[b]) <=> b = a

\* What a command kills it reports once, and what is reported as deleted is not
\* live any more.
DeletionsAreReported ==
    [][\A k \in Kinds : \A h \in Live[k] :
         LET reports == {i \in DOMAIN outbox' : outbox'[i] = Deleted(k, h)}
         IN  IF h \in Live[k]' THEN reports = {}
             ELSE \E i \in DOMAIN outbox' : reports = {i}]_vars

\* A listener that hears of the end of a resource has already heard of the end
\* of everything that depends on it.
DependentsAreReportedFirst ==
    [][\A i, j \in DOMAIN outbox' :
         \/ /\ outbox'[i].type = "deleted" /\ outbox'[i].kind = "artboard"
            /\ outbox'[j].type = "deleted" /\ outbox'[j].kind = "stateMachine"
            /\ outbox'[i].handle \in DOMAIN artboardDependencies
            /\ outbox'[j].handle \in
                 ToSet(artboardDependencies[outbox'[i].handle])
         \/ /\ outbox'[i].type = "deleted" /\ outbox'[i].kind = "file"
            /\ outbox'[j].type = "deleted" /\ outbox'[j].kind = "artboard"
         => j < i]_vars

\* Nothing is said of a handle after its resource was reported as deleted, but
\* that a command did not find it or that it was deleted once more; and nothing
\* brings it back.
DeletedIsFinal ==
    [][\A k \in Kinds : \A h \in deleted[k] :
         /\ h \notin Live[k]'
         /\ \A i \in DOMAIN outbox' : outbox'[i] # Reply(k, h)]_vars

(***************************************************************************)
(* Refinement of ResourceTree                                              *)
(***************************************************************************)

Resource(kind, h) == [kind |-> kind, handle |-> h]
NoOwner == Resource("none", 0)

\* The live resources of a kind below the owner that lists them.
Listed(kind, owners, dependencies) ==
    UNION {{<<Resource(kind, h), Resource(owners, o)>> :
               h \in ToSet(dependencies[o]) \cap Live[kind]} :
             o \in DOMAIN dependencies}

Forest ==
    {<<Resource("file", h), NoOwner>> : h \in files}
    \cup {<<Resource("viewModel", h), NoOwner>> : h \in viewModels}
    \cup Listed("artboard", "file", fileDependencies)
    \cup Listed("stateMachine", "artboard", artboardDependencies)

Tree == INSTANCE ResourceTree WITH
    Resources <- UNION {{Resource(k, h) : h \in 1..Limit(k)} : k \in Kinds},
    Root <- NoOwner,
    forest <- Forest

\* Maps and dependency vectors implement the forest: a deletion takes exactly
\* the subtree along, everything else keeps its owner.
ImplementsTree == Tree!TreeSpec
=============================================================================
