-------------------------- MODULE Topology_proofs --------------------------
(***************************************************************************)
(* Proofs about the topology of the terminal client: for any number of     *)
(* boards, ports, groups and channels and whatever is edited, saved,       *)
(* loaded, applied and removed in whatever order, names and addresses stay *)
(* unique, and the wizards work on what they should.                       *)
(***************************************************************************)
EXTENDS Topology, TLAPS

(* A topology that the rules may have built. *)
Sound(t) == t \in TopologyConfig /\ EndpointsDistinct(t) /\ AliasesDistinct(t)

(* Where no board was given a nickname that a group still listed, no channel is listed twice
   either. *)
Known(t, m) == Sound(t) /\ (m \/ OneGroupEach(t))

WizardType == [open : {"none", "setup", "group"}, topo : TopologyConfig, path : Files]

(* The inductive invariant: the conjunction of the invariants, by topology. *)
Inv ==
    /\ path \in Files
    /\ files \in [Files -> TopologyConfig \cup {NoFile}]
    /\ wiz \in WizardType
    /\ sessions \in [SessionType -> Nat]
    /\ edited \in BOOLEAN
    /\ edits \in 0 .. MaxEdits
    /\ browsed \in BOOLEAN
    /\ merged \in BOOLEAN
    /\ Known(topo, merged)
    /\ Known(wiz.topo, merged)
    /\ \A f \in Files : files[f] # NoFile => Known(files[f], merged)
    /\ GroupDraftHasBoards
    /\ PathFollows

-----------------------------------------------------------------------------
(* The rules                                                               *)

(* The empty topology is sound. *)
LEMMA EmptySound == Sound(NoTopology) /\ OneGroupEach(NoTopology)
  BY DEF Sound, NoTopology, TopologyConfig, EndpointsDistinct, AliasesDistinct, OneGroupEach

(* addBus refuses a port in use, which adds nothing here. *)
LEMMA AddBusSound ==
    ASSUME NEW t, Sound(t), NEW p \in Ports
    PROVE  /\ Sound(addBus(t, p))
           /\ addBus(t, p).refs = t.refs
  BY DEF Sound, TopologyConfig, EndpointsDistinct, AliasesDistinct, addBus

(* removeBus takes the boards of the bus with it. *)
LEMMA RemoveBusSound ==
    ASSUME NEW t, Sound(t), NEW p
    PROVE  /\ Sound(removeBus(t, p))
           /\ removeBus(t, p).refs = t.refs
  BY DEF Sound, TopologyConfig, EndpointsDistinct, AliasesDistinct, removeBus

(* addBoard checks the nickname on every bus and the address on its own. *)
LEMMA AddBoardSound ==
    ASSUME NEW t, Sound(t), NEW b \in BoardConfig, CanAddBoard(t, b)
    PROVE  /\ Sound(addBoard(t, b))
           /\ addBoard(t, b).refs = t.refs
  <1> DEFINE u == addBoard(t, b)
  <1>1. u \in TopologyConfig /\ u.boards = t.boards \cup {b} /\ u.refs = t.refs
    BY DEF Sound, TopologyConfig, addBoard, CanAddBoard
  <1>2. EndpointsDistinct(u)
    BY <1>1 DEF Sound, EndpointsDistinct, CanAddBoard, boardNicknameInUse, slaveIdInUse
  <1>3. AliasesDistinct(u)
    BY <1>1 DEF Sound, AliasesDistinct
  <1> QED
    BY <1>1, <1>2, <1>3 DEF Sound

(* removeBoard only takes away. *)
LEMMA RemoveBoardSound ==
    ASSUME NEW t, Sound(t), NEW b
    PROVE  /\ Sound(removeBoard(t, b))
           /\ removeBoard(t, b).refs = t.refs
  BY DEF Sound, TopologyConfig, EndpointsDistinct, AliasesDistinct, removeBoard

(* renameBoard: the nickname is checked against the other boards; members of groups follow. *)
LEMMA RenameBoardSound ==
    ASSUME NEW t, Sound(t), NEW prev, NEW n \in Nicknames, CanRenameBoard(t, prev, n)
    PROVE  Sound(renameBoard(t, prev, n))
  <1> DEFINE u == renameBoard(t, prev, n)
             B(b) == IF b.nick = prev THEN [b EXCEPT !.nick = n] ELSE b
             R(r) == IF r.board = prev THEN [r EXCEPT !.board = n] ELSE r
  <1>1. /\ t.boards \subseteq BoardConfig /\ t.refs \subseteq GroupChannelRef
        /\ t.buses \subseteq Ports /\ t.groups \subseteq GroupNames
        /\ \A b \in t.boards : b.port \in t.buses
        /\ \A r \in t.refs : r.group \in t.groups
    BY DEF Sound, TopologyConfig
  <1>2. /\ u.boards = {B(b) : b \in t.boards} /\ u.refs = {R(r) : r \in t.refs}
        /\ u.buses = t.buses /\ u.groups = t.groups
        /\ u = [buses |-> u.buses, boards |-> u.boards, groups |-> u.groups, refs |-> u.refs]
    <2>1. t = [buses |-> t.buses, boards |-> t.boards, groups |-> t.groups, refs |-> t.refs]
      BY DEF Sound, TopologyConfig
    <2> HIDE DEF B, R
    <2>2. u = [t EXCEPT !.boards = {B(b) : b \in t.boards}, !.refs = {R(r) : r \in t.refs}]
      BY DEF renameBoard, B, R
    <2> QED
      BY <2>1, <2>2
  <1>3. \A b \in t.boards : /\ B(b) \in BoardConfig
                            /\ B(b).port = b.port /\ B(b).slave = b.slave
                            /\ B(b).nick = IF b.nick = prev THEN n ELSE b.nick
    BY <1>1 DEF BoardConfig
  <1>4. \A r \in t.refs : /\ R(r) \in GroupChannelRef
                          /\ R(r).group = r.group /\ R(r).alias = r.alias
    BY <1>1 DEF GroupChannelRef
  <1> HIDE DEF u, B, R
  <1>5. u \in TopologyConfig
    BY <1>1, <1>2, <1>3, <1>4 DEF TopologyConfig
  <1>6. EndpointsDistinct(u)
    <2> SUFFICES ASSUME NEW b \in t.boards, NEW c \in t.boards,
                        \/ B(b).nick = B(c).nick
                        \/ B(b).port = B(c).port /\ B(b).slave = B(c).slave
                 PROVE  b = c
      BY <1>2 DEF EndpointsDistinct
    <2>1. b.nick = c.nick \/ (b.port = c.port /\ b.slave = c.slave)
      BY <1>3 DEF CanRenameBoard
    <2> QED
      BY <2>1 DEF Sound, EndpointsDistinct
  <1>7. AliasesDistinct(u)
    <2> SUFFICES ASSUME NEW r \in t.refs, NEW q \in t.refs,
                        R(r).group = R(q).group, R(r).alias = R(q).alias
                 PROVE  r = q
      BY <1>2 DEF AliasesDistinct
    <2> QED
      BY <1>4 DEF Sound, AliasesDistinct
  <1> QED
    BY <1>5, <1>6, <1>7 DEF Sound, u

(* renameBoard puts no channel into two groups when no group lists the new nickname. *)
LEMMA RenameBoardOnce ==
    ASSUME NEW t, Sound(t), OneGroupEach(t), NEW prev, NEW n \in Nicknames,
           n = prev \/ \A r \in t.refs : r.board # n
    PROVE  OneGroupEach(renameBoard(t, prev, n))
  <1> DEFINE R(r) == IF r.board = prev THEN [r EXCEPT !.board = n] ELSE r
  <1>1. t.refs \subseteq GroupChannelRef /\ renameBoard(t, prev, n).refs = {R(r) : r \in t.refs}
    BY DEF Sound, TopologyConfig, renameBoard
  <1>2. \A r \in t.refs : R(r).ch = r.ch /\ R(r).board = IF r.board = prev THEN n ELSE r.board
    BY <1>1 DEF GroupChannelRef
  <1> HIDE DEF R
  <1> SUFFICES ASSUME NEW r \in t.refs, NEW q \in t.refs,
                      R(r).board = R(q).board, R(r).ch = R(q).ch
               PROVE  r = q
    BY <1>1 DEF OneGroupEach
  <1>3. r.board = q.board /\ r.ch = q.ch
    BY <1>2
  <1> QED
    BY <1>3 DEF OneGroupEach

(* addGroup leaves the members alone. *)
LEMMA AddGroupSound ==
    ASSUME NEW t, Sound(t), NEW g \in GroupNames
    PROVE  /\ Sound(addGroup(t, g))
           /\ addGroup(t, g).refs = t.refs /\ addGroup(t, g).boards = t.boards
  BY DEF Sound, TopologyConfig, EndpointsDistinct, AliasesDistinct, addGroup

(* renameGroup: the members go with the group, and no group of the new name has any. *)
LEMMA RenameGroupSound ==
    ASSUME NEW t, Sound(t), NEW prev, NEW g \in GroupNames, g \notin t.groups \ {prev}
    PROVE  /\ Sound(renameGroup(t, prev, g))
           /\ OneGroupEach(t) => OneGroupEach(renameGroup(t, prev, g))
  <1> DEFINE u == renameGroup(t, prev, g)
             R(r) == IF r.group = prev THEN [r EXCEPT !.group = g] ELSE r
  <1>1. /\ t.boards \subseteq BoardConfig /\ t.refs \subseteq GroupChannelRef
        /\ t.buses \subseteq Ports /\ t.groups \subseteq GroupNames
        /\ \A b \in t.boards : b.port \in t.buses
        /\ \A r \in t.refs : r.group \in t.groups
    BY DEF Sound, TopologyConfig
  <1>2. /\ u.boards = t.boards /\ u.refs = {R(r) : r \in t.refs}
        /\ u.buses = t.buses /\ u.groups = (t.groups \ {prev}) \cup {g}
        /\ u = [buses |-> u.buses, boards |-> u.boards, groups |-> u.groups, refs |-> u.refs]
    <2>1. t = [buses |-> t.buses, boards |-> t.boards, groups |-> t.groups, refs |-> t.refs]
      BY DEF Sound, TopologyConfig
    <2> HIDE DEF R
    <2>2. u = [t EXCEPT !.groups = (t.groups \ {prev}) \cup {g}, !.refs = {R(r) : r \in t.refs}]
      BY DEF renameGroup, R
    <2> QED
      BY <2>1, <2>2
  <1>3. \A r \in t.refs : /\ R(r) \in GroupChannelRef
                          /\ R(r).group = IF r.group = prev THEN g ELSE r.group
                          /\ R(r).alias = r.alias /\ R(r).board = r.board /\ R(r).ch = r.ch
    BY <1>1 DEF GroupChannelRef
  <1> HIDE DEF u, R
  <1>4. u \in TopologyConfig
    BY <1>1, <1>2, <1>3 DEF TopologyConfig
  <1>5. EndpointsDistinct(u)
    BY <1>2 DEF Sound, EndpointsDistinct
  <1>6. AliasesDistinct(u)
    <2> SUFFICES ASSUME NEW r \in t.refs, NEW q \in t.refs,
                        R(r).group = R(q).group, R(r).alias = R(q).alias
                 PROVE  r = q
      BY <1>2 DEF AliasesDistinct
    <2>1. r.group = q.group /\ r.alias = q.alias
      BY <1>1, <1>3
    <2> QED
      BY <2>1 DEF Sound, AliasesDistinct
  <1>7. OneGroupEach(t) => OneGroupEach(u)
    BY <1>2, <1>3 DEF OneGroupEach
  <1> QED
    BY <1>4, <1>5, <1>6, <1>7 DEF Sound, u

(* removeGroup takes its members with it. *)
LEMMA RemoveGroupSound ==
    ASSUME NEW t, Sound(t), NEW g
    PROVE  /\ Sound(removeGroup(t, g)) /\ removeGroup(t, g).boards = t.boards
           /\ OneGroupEach(t) => OneGroupEach(removeGroup(t, g))
  BY DEF Sound, TopologyConfig, EndpointsDistinct, AliasesDistinct, OneGroupEach, removeGroup

(* addChannelToGroup looks for the channel in every group and for the alias in its own. *)
LEMMA AddChannelSound ==
    ASSUME NEW t, Sound(t), NEW r \in GroupChannelRef, CanAddChannel(t, r)
    PROVE  /\ Sound(addChannelToGroup(t, r)) /\ addChannelToGroup(t, r).boards = t.boards
           /\ OneGroupEach(t) => OneGroupEach(addChannelToGroup(t, r))
  <1> DEFINE u == addChannelToGroup(t, r)
  <1>1. u \in TopologyConfig /\ u.boards = t.boards /\ u.refs = t.refs \cup {r}
    BY DEF Sound, TopologyConfig, addChannelToGroup, CanAddChannel
  <1>2. AliasesDistinct(u)
    BY <1>1 DEF Sound, AliasesDistinct, CanAddChannel, groupAliasInUse
  <1>3. EndpointsDistinct(u)
    BY <1>1 DEF Sound, EndpointsDistinct
  <1>4. OneGroupEach(t) => OneGroupEach(u)
    BY <1>1 DEF OneGroupEach, CanAddChannel, findGroupForBoardChannel
  <1> QED
    BY <1>1, <1>2, <1>3, <1>4 DEF Sound

(* removeChannelFromGroup only takes away. *)
LEMMA RemoveChannelSound ==
    ASSUME NEW t, Sound(t), NEW r
    PROVE  /\ Sound(removeChannelFromGroup(t, r)) /\ removeChannelFromGroup(t, r).boards = t.boards
           /\ OneGroupEach(t) => OneGroupEach(removeChannelFromGroup(t, r))
  BY DEF Sound, TopologyConfig, EndpointsDistinct, AliasesDistinct, OneGroupEach,
         removeChannelFromGroup

(* An alias that is typed in, or the default of the channel in its place. *)
LEMMA FinalAliasType ==
    ASSUME NEW ch \in Channels, NEW a \in Aliases \cup {NoAlias}
    PROVE  FinalAlias(ch, a) \in Aliases
  BY ConstantsAssumption DEF FinalAlias

(* renameGroupChannelAlias checks the alias that it stores. *)
LEMMA RenameAliasSound ==
    ASSUME NEW t, Sound(t), NEW r \in t.refs, NEW a \in Aliases \cup {NoAlias},
           CanRenameAlias(t, r, a)
    PROVE  /\ Sound(renameGroupChannelAlias(t, r, a))
           /\ OneGroupEach(t) => OneGroupEach(renameGroupChannelAlias(t, r, a))
  <1> DEFINE u == renameGroupChannelAlias(t, r, a)
             q == [r EXCEPT !.alias = FinalAlias(r.ch, a)]
  <1>1. r \in GroupChannelRef /\ r.group \in t.groups
    BY DEF Sound, TopologyConfig
  <1>2. FinalAlias(r.ch, a) \in Aliases
    BY <1>1, FinalAliasType DEF GroupChannelRef
  <1>3. /\ q \in GroupChannelRef /\ q.group = r.group /\ q.board = r.board /\ q.ch = r.ch
        /\ q.alias = FinalAlias(r.ch, a)
    BY <1>1, <1>2 DEF GroupChannelRef
  <1>4. u.boards = t.boards /\ u.refs = (t.refs \ {r}) \cup {q}
    BY DEF Sound, TopologyConfig, renameGroupChannelAlias
  <1>5. u \in TopologyConfig
    BY <1>1, <1>3 DEF Sound, TopologyConfig, renameGroupChannelAlias
  <1> HIDE DEF u, q
  <1>6. AliasesDistinct(u)
    BY <1>3, <1>4 DEF Sound, AliasesDistinct, CanRenameAlias, groupAliasInUse
  <1>7. EndpointsDistinct(u)
    BY <1>4 DEF Sound, EndpointsDistinct
  <1>8. OneGroupEach(t) => OneGroupEach(u)
    BY <1>3, <1>4 DEF OneGroupEach
  <1> QED
    BY <1>5, <1>6, <1>7, <1>8 DEF Sound, u

(* What a drain forgets only takes away, the buses it empties included. *)
LEMMA ForgetSound ==
    ASSUME NEW t, Sound(t), NEW names
    PROVE  /\ Sound(Forget(t, names)) /\ Forget(t, names).refs = t.refs
           /\ Forget(t, names).boards \subseteq t.boards
  BY DEF Sound, TopologyConfig, EndpointsDistinct, AliasesDistinct, Forget

-----------------------------------------------------------------------------
(* The actions                                                             *)

(* The invariant is the conjunction of the invariants. *)
LEMMA InvImplies ==
    Inv => TypeOK /\ EndpointsUnique /\ AliasesUnique /\ OneGroupUnlessMerged
  BY DEF Inv, TypeOK, EndpointsUnique, AliasesUnique, OneGroupUnlessMerged, Topologies, Known,
         Sound, WizardType

(* A nickname that is taken over may only put a channel into two groups. *)
LEMMA KnownMerged ==
    ASSUME NEW t, NEW m \in BOOLEAN, NEW k \in BOOLEAN, m => k, Known(t, m)
    PROVE  Known(t, k)
  BY DEF Known

(* The launch flow ends with a sound topology. *)
LEMMA InitInv == Init => Inv
  <1> SUFFICES ASSUME Init PROVE Inv
    OBVIOUS
  <1>1. Known(topo, merged)
    BY StartAssumption DEF Init, Known, Sound
  <1>2. Known(NoTopology, merged) /\ NoTopology \in TopologyConfig
    BY EmptySound DEF Known, Sound
  <1>3. topo \in TopologyConfig
    BY <1>1 DEF Known, Sound
  <1>4. sessions \in [SessionType -> Nat] /\ edited \in BOOLEAN
    BY DEF Init, Started
  <1>5. wiz \in WizardType /\ wiz.topo = NoTopology /\ wiz.open = "none"
    BY <1>2 DEF Init, WizardType
  <1>6. GroupDraftHasBoards /\ PathFollows
    BY <1>5 DEF GroupDraftHasBoards, PathFollows
  <1>7. /\ files \in [Files -> TopologyConfig \cup {NoFile}]
        /\ \A f \in Files : files[f] # NoFile => files[f] = topo
    BY <1>3 DEF Init
  <1>8. path \in Files /\ browsed \in BOOLEAN /\ merged \in BOOLEAN
    BY DEF Init
  <1>9. edits \in 0 .. MaxEdits
    <2>1. MaxEdits \in Nat /\ edits = 0
      BY ConstantsAssumption DEF Init
    <2> QED
      BY <2>1
  <1> QED
    BY <1>1, <1>2, <1>4, <1>5, <1>6, <1>7, <1>8, <1>9 DEF Inv

(* The user's count. *)
LEMMA EditCounts == Inv /\ Edit => edits' \in 0 .. MaxEdits
  BY ConstantsAssumption DEF Inv, Edit

(* A wizard opens on a copy of the topology and its path. *)
LEMMA OpenWizardInv == Inv /\ OpenWizard => Inv'
  <1> SUFFICES ASSUME Inv, OpenWizard PROVE Inv'
    OBVIOUS
  <1>1. edits' \in 0 .. MaxEdits
    BY EditCounts DEF OpenWizard
  <1>2. topo \in TopologyConfig
    BY DEF Inv, Known, Sound
  <1>3. /\ wiz' \in WizardType /\ wiz'.topo = topo /\ wiz'.path = path
    BY <1>2 DEF Inv, OpenWizard, openSetup, openGroupSetup, WizardType
  <1>4. /\ UNCHANGED <<topo, path, files, sessions, edited, merged>> /\ browsed' = FALSE
    BY DEF OpenWizard
  <1>5. GroupDraftHasBoards' /\ PathFollows'
    BY <1>3, <1>4 DEF GroupDraftHasBoards, PathFollows
  <1> QED
    BY <1>1, <1>3, <1>4, <1>5 DEF Inv

(* An edit of the copy, by either wizard. *)
LEMMA EditDraftInv ==
    ASSUME Inv, NEW t, Known(t, merged), wiz.open = "group" => t.boards = wiz.topo.boards,
           EditDraft(t)
    PROVE  Inv'
  <1>1. edits' \in 0 .. MaxEdits
    BY EditCounts DEF EditDraft
  <1>2. t \in TopologyConfig
    BY DEF Known, Sound
  <1>3. wiz' \in WizardType /\ wiz'.topo = t /\ wiz'.path = wiz.path /\ wiz'.open = wiz.open
    BY <1>2 DEF Inv, EditDraft, WizardType
  <1>4. UNCHANGED <<topo, path, files, sessions, edited, browsed, merged>>
    BY DEF EditDraft
  <1>5. GroupDraftHasBoards' /\ PathFollows'
    BY <1>3, <1>4 DEF Inv, GroupDraftHasBoards, PathFollows
  <1> QED
    BY <1>1, <1>3, <1>4, <1>5 DEF Inv

(* The setup wizard applies the rules for buses and boards. *)
LEMMA WizardEditInv == Inv /\ WizardEdit => Inv'
  <1> SUFFICES ASSUME Inv, WizardEdit PROVE Inv'
    OBVIOUS
  <1> DEFINE w == wiz.topo
  <1>1. wiz.open = "setup" /\ Sound(w) /\ Known(w, merged)
    BY DEF Inv, Known, WizardEdit
  <1> HIDE DEF w
  <1>2. \A t : Sound(t) /\ t.refs = w.refs => Known(t, merged)
    BY <1>1 DEF Known, OneGroupEach
  <1>3. ASSUME NEW p \in Ports, EditDraft(addBus(w, p)) PROVE Inv'
    BY <1>1, <1>2, <1>3, AddBusSound, EditDraftInv
  <1>4. ASSUME NEW p, EditDraft(removeBus(w, p)) PROVE Inv'
    BY <1>1, <1>2, <1>4, RemoveBusSound, EditDraftInv
  <1>5. ASSUME NEW b \in BoardConfig, CanAddBoard(w, b), EditDraft(addBoard(w, b)) PROVE Inv'
    BY <1>1, <1>2, <1>5, AddBoardSound, EditDraftInv
  <1>6. ASSUME NEW b, EditDraft(removeBoard(w, b)) PROVE Inv'
    BY <1>1, <1>2, <1>6, RemoveBoardSound, EditDraftInv
  <1> QED
    BY <1>3, <1>4, <1>5, <1>6 DEF WizardEdit, w

(* A file that is loaded holds what the rules built. *)
LEMMA LoadInv == Inv /\ doLoadTopology => Inv'
  <1> SUFFICES ASSUME Inv, doLoadTopology PROVE Inv'
    OBVIOUS
  <1>1. wiz.path \in Files
    BY DEF Inv, WizardType
  <1>2. Known(files[wiz.path], merged) /\ wiz.open = "setup"
    BY <1>1 DEF Inv, doLoadTopology, load
  <1> QED
    BY <1>2, EditDraftInv DEF doLoadTopology, load

(* Choosing a path is noted. *)
LEMMA BrowseInv == Inv /\ BrowsePath => Inv'
  <1> SUFFICES ASSUME Inv, BrowsePath PROVE Inv'
    OBVIOUS
  <1>1. edits' \in 0 .. MaxEdits
    BY EditCounts DEF BrowsePath
  <1>2. wiz' \in WizardType /\ wiz'.topo = wiz.topo /\ wiz'.open = "setup"
    BY DEF Inv, BrowsePath, WizardType
  <1>3. UNCHANGED <<topo, path, files, sessions, edited, merged>> /\ browsed' = TRUE
    BY DEF BrowsePath
  <1>4. GroupDraftHasBoards' /\ PathFollows'
    BY <1>2, <1>3 DEF GroupDraftHasBoards, PathFollows
  <1> QED
    BY <1>1, <1>2, <1>3, <1>4 DEF Inv

(* A save leaves the file, replaces it, or leaves nothing that loads. *)
LEMMA SavedFiles ==
    ASSUME files \in [Files -> TopologyConfig \cup {NoFile}], NEW f \in Files,
           NEW t \in TopologyConfig, NEW saved \in BOOLEAN, save(f, t, saved)
    PROVE  /\ files' \in [Files -> TopologyConfig \cup {NoFile}]
           /\ \A g \in Files : files'[g] \in {t, NoFile, files[g]}
  <1>1. CASE UNCHANGED files
    BY <1>1
  <1>2. CASE \E written \in {t, NoFile} : files' = [files EXCEPT ![f] = written]
    BY <1>2
  <1> QED
    BY <1>1, <1>2 DEF save

(* A session changes its kind. *)
LEMMA BecomesType ==
    ASSUME sessions \in [SessionType -> Nat], NEW s \in Present, NEW k \in SessionType
    PROVE  Becomes(s, k) \in [SessionType -> Nat]
  <1> DEFINE less == [sessions EXCEPT ![s] = @ - 1]
  <1>1. s \in SessionType /\ sessions[s] \in Nat /\ sessions[s] > 0
    BY DEF Present
  <1>2. less \in [SessionType -> Nat]
    BY <1>1
  <1> HIDE DEF less
  <1>3. [less EXCEPT ![k] = @ + 1] \in [SessionType -> Nat]
    BY <1>2
  <1> QED
    BY <1>3 DEF Becomes, less

(* Saving writes the copy into its file. *)
LEMMA SaveInv == Inv /\ bSave => Inv'
  <1> SUFFICES ASSUME Inv, bSave PROVE Inv'
    OBVIOUS
  <1>1. edits' \in 0 .. MaxEdits
    BY EditCounts DEF bSave
  <1>2. wiz.path \in Files /\ wiz.topo \in TopologyConfig /\ Known(wiz.topo, merged)
    BY DEF Inv, WizardType
  <1>3. /\ files' \in [Files -> TopologyConfig \cup {NoFile}]
        /\ \A f \in Files : files'[f] \in {wiz.topo, NoFile, files[f]}
    BY <1>2, SavedFiles DEF Inv, bSave
  <1>4. UNCHANGED <<topo, path, wiz, sessions, edited, browsed, merged>>
    BY DEF bSave
  <1>5. GroupDraftHasBoards' /\ PathFollows'
    BY <1>4 DEF Inv, GroupDraftHasBoards, PathFollows
  <1> QED
    BY <1>1, <1>2, <1>3, <1>4, <1>5 DEF Inv

(* A wizard that closes forgets its copy. *)
LEMMA ClosedInv ==
    Inv => /\ Closed \in WizardType /\ Closed.open = "none"
           /\ Closed.topo = NoTopology
           /\ \A m \in BOOLEAN : Known(NoTopology, m)
  BY EmptySound DEF Inv, Closed, WizardType, Known, Sound

(* The topology and the path of a wizard take the place of the former ones. *)
LEMMA TakeOverInv ==
    ASSUME Inv, topo' = wiz.topo, path' = wiz.path, wiz' = Closed, edits' \in 0 .. MaxEdits,
           UNCHANGED <<files, edited, browsed, merged>>, sessions' \in [SessionType -> Nat]
    PROVE  Inv'
  <1>1. wiz.path \in Files /\ Known(wiz.topo, merged)
    BY DEF Inv, WizardType
  <1>2. wiz' \in WizardType /\ wiz'.open = "none" /\ wiz'.topo = NoTopology
    BY ClosedInv
  <1>3. Known(NoTopology, merged)
    BY ClosedInv DEF Inv
  <1>4. GroupDraftHasBoards' /\ PathFollows'
    BY <1>2 DEF GroupDraftHasBoards, PathFollows
  <1> QED
    BY <1>1, <1>2, <1>3, <1>4 DEF Inv

(* The sessions that an Apply starts and queues for removal. *)
LEMMA ApplyInv == Inv /\ bConnectNow => Inv'
  <1> SUFFICES ASSUME Inv, bConnectNow PROVE Inv'
    OBVIOUS
  <1>1. edits' \in 0 .. MaxEdits
    BY EditCounts DEF bConnectNow
  <1>2. sessions \in [SessionType -> Nat]
    BY DEF Inv
  <1>3. \A s \in SessionType : [s EXCEPT !.st = "live"] \in SessionType
    BY DEF SessionType
  <1>4. removeGoneBoardsLive(wiz.topo) \in [SessionType -> Nat]
    <2>1. \A s \in SessionType : sessions[s] \in Nat /\ sessions[[s EXCEPT !.st = "live"]] \in Nat
      BY <1>2, <1>3
    <2>2. \A m, n \in Nat : m + n \in Nat
      OBVIOUS
    <2> QED
      BY <2>1, <2>2 DEF removeGoneBoardsLive
  <1>5. sessions' \in [SessionType -> Nat]
    <2>1. PICK boards : sessions' =
             [s \in SessionType |-> removeGoneBoardsLive(wiz.topo)[s] + Started(boards)[s]]
      BY DEF bConnectNow
    <2>2. Started(boards) \in [SessionType -> Nat]
      BY DEF Started
    <2>3. \A s \in SessionType : removeGoneBoardsLive(wiz.topo)[s] + Started(boards)[s] \in Nat
      BY <1>4, <2>2
    <2> QED
      BY <2>1, <2>3
  <1> QED
    BY <1>1, <1>5, TakeOverInv DEF bConnectNow

(* A group wizard that exits. *)
LEMMA ExitInv == Inv /\ bExit => Inv'
  <1> SUFFICES ASSUME Inv, bExit PROVE Inv'
    OBVIOUS
  <1>1. edits' \in 0 .. MaxEdits
    BY EditCounts DEF bExit
  <1>2. sessions' \in [SessionType -> Nat]
    BY DEF bExit, Inv
  <1> QED
    BY <1>1, <1>2, TakeOverInv DEF bExit

(* A setup wizard that is cancelled. *)
LEMMA CancelInv == Inv /\ bCancel => Inv'
  <1> SUFFICES ASSUME Inv, bCancel PROVE Inv'
    OBVIOUS
  <1>1. edits' \in 0 .. MaxEdits
    BY EditCounts DEF bCancel
  <1>2. wiz' \in WizardType /\ wiz'.open = "none" /\ wiz'.topo = NoTopology
    BY ClosedInv DEF bCancel
  <1>3. Known(NoTopology, merged)
    BY ClosedInv DEF Inv
  <1>4. GroupDraftHasBoards' /\ PathFollows'
    BY <1>2 DEF GroupDraftHasBoards, PathFollows
  <1>5. UNCHANGED <<topo, path, files, sessions, edited, browsed, merged>>
    BY DEF bCancel
  <1> QED
    BY <1>1, <1>2, <1>3, <1>4, <1>5 DEF Inv

(* The group wizard applies the rules for groups. *)
LEMMA GroupEditInv == Inv /\ GroupEdit => Inv'
  <1> SUFFICES ASSUME Inv, GroupEdit PROVE Inv'
    OBVIOUS
  <1> DEFINE w == wiz.topo
  <1>1. Sound(w) /\ Known(w, merged)
    BY DEF Inv, Known
  <1>2. Present \subseteq SessionType
    BY DEF Present
  <1>3. \A t : Sound(t) /\ (OneGroupEach(w) => OneGroupEach(t)) => Known(t, merged)
    BY <1>1 DEF Known
  <1>4. \A t : t.boards = w.boards => (wiz.open = "group" => t.boards = wiz.topo.boards)
    OBVIOUS
  <1> HIDE DEF w
  <1>5. ASSUME NEW g \in GroupNames, EditDraft(addGroup(w, g)) PROVE Inv'
    <2>1. /\ Sound(addGroup(w, g)) /\ addGroup(w, g).refs = w.refs
          /\ addGroup(w, g).boards = w.boards
      BY <1>1, AddGroupSound
    <2>2. OneGroupEach(w) => OneGroupEach(addGroup(w, g))
      BY <2>1 DEF OneGroupEach
    <2> QED
      BY <2>1, <2>2, <1>3, <1>4, <1>5, EditDraftInv
  <1>6. ASSUME NEW g, EditDraft(removeGroup(w, g)) PROVE Inv'
    BY <1>1, <1>3, <1>4, <1>6, RemoveGroupSound, EditDraftInv
  <1>7. ASSUME NEW c \in availableGroupChannels(w), NEW g \in GroupNames,
               NEW a \in Aliases \cup {NoAlias}, NEW r,
               r = [group |-> g, board |-> c[1], ch |-> c[2], alias |-> FinalAlias(c[2], a)],
               CanAddChannel(w, r), EditDraft(addChannelToGroup(w, r))
        PROVE  Inv'
    <2>1. c[1] \in Nicknames /\ c[2] \in Channels
      BY <1>2 DEF availableGroupChannels, SessionType
    <2>2. FinalAlias(c[2], a) \in Aliases
      BY <2>1, FinalAliasType
    <2>3. r \in GroupChannelRef
      BY <1>7, <2>1, <2>2 DEF GroupChannelRef
    <2> QED
      BY <2>3, <1>1, <1>3, <1>4, <1>7, AddChannelSound, EditDraftInv
  <1>8. ASSUME NEW r, EditDraft(removeChannelFromGroup(w, r)) PROVE Inv'
    BY <1>1, <1>3, <1>4, <1>8, RemoveChannelSound, EditDraftInv
  <1> QED
    BY <1>5, <1>6, <1>7, <1>8 DEF GroupEdit, w

(* A name edited in place: the topology changes, and its file if the save succeeds. *)
LEMMA EditInPlaceInv ==
    ASSUME Inv, NEW t, NEW saved \in BOOLEAN, EditInPlace(t, saved), wiz.open = "none",
           edits' \in 0 .. MaxEdits, sessions' \in [SessionType -> Nat],
           merged' \in BOOLEAN, merged => merged', Known(t, merged')
    PROVE  Inv'
  <1>1. UNCHANGED <<path, wiz, edited, browsed>> /\ topo' = t
    BY DEF EditInPlace
  <1>2. t \in TopologyConfig /\ path \in Files
    BY DEF Known, Sound, Inv
  <1>3. /\ files' \in [Files -> TopologyConfig \cup {NoFile}]
        /\ \A f \in Files : files'[f] \in {t, NoFile, files[f]}
    BY <1>2, SavedFiles DEF Inv, EditInPlace
  <1>4. Known(wiz.topo, merged') /\ \A f \in Files : files[f] # NoFile => Known(files[f], merged')
    BY KnownMerged DEF Inv
  <1>5. GroupDraftHasBoards' /\ PathFollows'
    BY <1>1 DEF GroupDraftHasBoards, PathFollows
  <1> QED
    BY <1>1, <1>2, <1>3, <1>4, <1>5 DEF Inv

(* The alias of a channel. *)
LEMMA SaveAliasInv == Inv /\ saveGroupChannelAliasToTopology => Inv'
  <1> SUFFICES ASSUME Inv, saveGroupChannelAliasToTopology PROVE Inv'
    OBVIOUS
  <1>1. edits' \in 0 .. MaxEdits
    BY EditCounts DEF saveGroupChannelAliasToTopology
  <1>2. PICK r \in topo.refs, a \in Aliases \cup {NoAlias}, saved \in BOOLEAN :
          CanRenameAlias(topo, r, a) /\ EditInPlace(renameGroupChannelAlias(topo, r, a), saved)
    BY DEF saveGroupChannelAliasToTopology
  <1>3. Known(topo, merged) /\ merged \in BOOLEAN /\ sessions \in [SessionType -> Nat]
    BY DEF Inv
  <1>4. Known(renameGroupChannelAlias(topo, r, a), merged)
    BY <1>2, <1>3, RenameAliasSound DEF Known
  <1>5. UNCHANGED <<sessions, merged>> /\ wiz.open = "none"
    BY DEF saveGroupChannelAliasToTopology
  <1> QED
    BY <1>1, <1>2, <1>3, <1>4, <1>5, EditInPlaceInv

(* The name of a group. *)
LEMMA SaveGroupNameInv == Inv /\ saveGroupNameToTopology => Inv'
  <1> SUFFICES ASSUME Inv, saveGroupNameToTopology PROVE Inv'
    OBVIOUS
  <1>1. edits' \in 0 .. MaxEdits
    BY EditCounts DEF saveGroupNameToTopology
  <1>2. PICK prev \in topo.groups, g \in GroupNames, saved \in BOOLEAN :
          g \notin topo.groups \ {prev} /\ EditInPlace(renameGroup(topo, prev, g), saved)
    BY DEF saveGroupNameToTopology
  <1>3. Known(topo, merged) /\ merged \in BOOLEAN /\ sessions \in [SessionType -> Nat]
    BY DEF Inv
  <1>4. Known(renameGroup(topo, prev, g), merged)
    BY <1>2, <1>3, RenameGroupSound DEF Known
  <1>5. UNCHANGED <<sessions, merged>> /\ wiz.open = "none"
    BY DEF saveGroupNameToTopology
  <1> QED
    BY <1>1, <1>2, <1>3, <1>4, <1>5, EditInPlaceInv

(* The nickname of a board: a nickname that a group still lists is noted. *)
LEMMA SaveBoardNameInv == Inv /\ saveBoardNameToTopology => Inv'
  <1> SUFFICES ASSUME Inv, saveBoardNameToTopology PROVE Inv'
    OBVIOUS
  <1>1. edits' \in 0 .. MaxEdits
    BY EditCounts DEF saveBoardNameToTopology
  <1>2. PICK s \in Present, n \in Nicknames, saved \in BOOLEAN :
          /\ CanRenameBoard(topo, s.nick, n)
          /\ EditInPlace(renameBoard(topo, s.nick, n), saved)
          /\ sessions' = IF saved THEN Becomes(s, [s EXCEPT !.nick = n]) ELSE sessions
          /\ merged' = (merged \/ (n # s.nick /\ \E r \in topo.refs : r.board = n))
    BY DEF saveBoardNameToTopology
  <1>3. Known(topo, merged) /\ merged \in BOOLEAN /\ sessions \in [SessionType -> Nat]
    BY DEF Inv
  <1>4. sessions' \in [SessionType -> Nat]
    <2>1. [s EXCEPT !.nick = n] \in SessionType
      BY DEF Present, SessionType
    <2> QED
      BY <1>2, <1>3, <2>1, BecomesType
  <1>5. merged' \in BOOLEAN /\ (merged => merged')
    BY <1>2, <1>3
  <1>6. Sound(renameBoard(topo, s.nick, n))
    BY <1>2, <1>3, RenameBoardSound DEF Known
  <1>7. ~merged' => OneGroupEach(renameBoard(topo, s.nick, n))
    <2> SUFFICES ASSUME ~merged' PROVE OneGroupEach(renameBoard(topo, s.nick, n))
      OBVIOUS
    <2>1. n = s.nick \/ \A r \in topo.refs : r.board # n
      BY <1>2
    <2>2. OneGroupEach(topo) /\ Sound(topo)
      BY <1>3, <1>5 DEF Known
    <2> QED
      BY <2>1, <2>2, RenameBoardOnce
  <1>8. Known(renameBoard(topo, s.nick, n), merged')
    BY <1>5, <1>6, <1>7 DEF Known
  <1>9. wiz.open = "none"
    BY DEF saveBoardNameToTopology
  <1> QED
    BY <1>1, <1>2, <1>4, <1>5, <1>8, <1>9, EditInPlaceInv

(* The stages of a removal, up to the drain, only concern the sessions. *)
LEMMA RemoveInv == Inv /\ (removeBoardLive \/ RunRemove) => Inv'
  <1> SUFFICES ASSUME Inv, removeBoardLive \/ RunRemove PROVE Inv'
    OBVIOUS
  <1>1. edits' \in 0 .. MaxEdits
    BY EditCounts DEF removeBoardLive, RunRemove, Inv
  <1>2. sessions' \in [SessionType -> Nat]
    <2>1. \A s \in SessionType, stage \in {"leaving", "detached"} :
            [s EXCEPT !.st = stage] \in SessionType
      BY DEF SessionType
    <2>2. PICK s \in Present, stage \in {"leaving", "detached"} :
            sessions' = Becomes(s, [s EXCEPT !.st = stage])
      BY DEF removeBoardLive, RunRemove
    <2>3. sessions \in [SessionType -> Nat] /\ s \in SessionType
      BY DEF Inv, Present
    <2> QED
      BY <2>1, <2>2, <2>3, BecomesType
  <1>3. UNCHANGED <<topo, path, files, wiz, edited, browsed, merged>>
    BY DEF removeBoardLive, RunRemove
  <1> QED
    BY <1>1, <1>2, <1>3 DEF Inv, GroupDraftHasBoards, PathFollows

(* An edit of a port field only tells what an Apply may find. *)
LEMMA SelectInv == Inv /\ SelectPort => Inv'
  <1> SUFFICES ASSUME Inv, SelectPort PROVE Inv'
    OBVIOUS
  <1>1. edits' \in 0 .. MaxEdits
    BY EditCounts DEF SelectPort
  <1>2. UNCHANGED <<topo, path, files, wiz, sessions, browsed, merged>> /\ edited' = TRUE
    BY DEF SelectPort
  <1> QED
    BY <1>1, <1>2 DEF Inv, GroupDraftHasBoards, PathFollows

(* A drain takes the boards out of the topology under a wizard that may be open. *)
LEMMA DrainInv == Inv /\ drainPendingRemovals => Inv'
  <1> SUFFICES ASSUME Inv, drainPendingRemovals PROVE Inv'
    OBVIOUS
  <1>1. PICK names : topo' = Forget(topo, names)
    BY DEF drainPendingRemovals
  <1>2. sessions' \in [SessionType -> Nat]
    BY DEF drainPendingRemovals, Inv
  <1>3. Known(topo, merged)
    BY DEF Inv
  <1>4. Known(topo', merged) /\ topo'.boards \subseteq topo.boards
    BY <1>1, <1>3, ForgetSound DEF Known, OneGroupEach
  <1>5. UNCHANGED <<path, files, wiz, edited, edits, browsed, merged>>
    BY DEF drainPendingRemovals
  <1>6. GroupDraftHasBoards' /\ PathFollows'
    BY <1>4, <1>5 DEF Inv, GroupDraftHasBoards, PathFollows
  <1> QED
    BY <1>2, <1>4, <1>5, <1>6 DEF Inv

(* Every step, and a stutter, keeps the invariant. *)
LEMMA StepInv == Inv /\ [Next]_vars => Inv'
  <1> SUFFICES ASSUME Inv, [Next]_vars PROVE Inv'
    OBVIOUS
  <1>1. CASE UNCHANGED vars
    BY <1>1 DEF vars, Inv, GroupDraftHasBoards, PathFollows
  <1>2. CASE Next
    BY <1>2, OpenWizardInv, WizardEditInv, LoadInv, BrowseInv, SaveInv, ApplyInv, CancelInv,
       GroupEditInv, ExitInv, SaveAliasInv, SaveGroupNameInv, SaveBoardNameInv, SelectInv,
       RemoveInv, DrainInv
       DEF Next
  <1> QED
    BY <1>1, <1>2

(* The invariant of the topology: every copy of it, in memory, in a wizard and on disk, is one
   the rules may have built. *)
THEOREM TopologyInvariant == Spec => []Inv
  BY InitInv, StepInv, PTL DEF Spec

-----------------------------------------------------------------------------
(* The theorems                                                            *)

(* Every variable has its type; boards are on buses and members in groups of the topology. *)
THEOREM TopologyTypes == Spec => []TypeOK
  BY TopologyInvariant, InvImplies, PTL

(* Nicknames and addresses are unique, for any number of boards and any history of edits,
   saves, loads, renames and removals. *)
THEOREM BoardsAreUnique == Spec => []EndpointsUnique
  BY TopologyInvariant, InvImplies, PTL

(* The aliases of a group are unique. *)
THEOREM MembersAreUnique == Spec => []AliasesUnique
  BY TopologyInvariant, InvImplies, PTL

(* Only a board that takes over the nickname of a removed one puts a channel into two groups. *)
THEOREM OneGroupPerChannel == Spec => []OneGroupUnlessMerged
  BY TopologyInvariant, InvImplies, PTL

(* The group wizard never loses a board of the topology. *)
THEOREM GroupWizardKeepsBoards == Spec => []GroupDraftHasBoards
  <1>1. Inv => GroupDraftHasBoards
    BY DEF Inv
  <1> QED
    BY <1>1, TopologyInvariant, PTL

(* A wizard writes into the file of the running topology unless told otherwise. *)
THEOREM WizardPathFollows == Spec => []PathFollows
  <1>1. Inv => PathFollows
    BY DEF Inv
  <1> QED
    BY <1>1, TopologyInvariant, PTL
=============================================================================
