------------------------------ MODULE Topology ------------------------------
(***************************************************************************)
(* The topology of the terminal client: buses, boards and groups of        *)
(* channels (topology_rules.cpp), the file they are kept in                *)
(* (topology_config.cpp), the two wizards that edit a copy of it           *)
(* (wizard_screen.h, group_wizard_screen.h), the names that are edited in  *)
(* place, and the sessions that follow it (main.cpp).  A bus is known by   *)
(* its port, a board and a group by their names; the order of the lists is *)
(* left out, and so are names that are empty, which every rule refuses.    *)
(***************************************************************************)
EXTENDS Naturals

CONSTANTS
    Nicknames, Ports, SlaveIds, GroupNames, Channels, Aliases,
    defaultChannelAlias,    \* the alias of a channel that is given none
    NoAlias,                \* an alias field left empty
    Files, NoFile,          \* the paths of topology files; no file is there
    StartTopologies,        \* what the launch flow ends with
    MaxEdits                \* bound on what the user does

BoardConfig == [nick : Nicknames, port : Ports, slave : SlaveIds]

(* A session keeps the port of the bus it was started on. *)
SessionType == [nick : Nicknames, port : Ports, st : {"live", "leaving", "detached"}]
GroupChannelRef == [group : GroupNames, board : Nicknames, ch : Channels, alias : Aliases]

(* The boards are kept with their bus, the channels with their group. *)
TopologyConfig ==
    {t \in [buses : SUBSET Ports, boards : SUBSET BoardConfig,
            groups : SUBSET GroupNames, refs : SUBSET GroupChannelRef] :
       /\ \A b \in t.boards : b.port \in t.buses
       /\ \A r \in t.refs : r.group \in t.groups}

(* Boards are told apart by nickname, and on a bus by address. *)
EndpointsDistinct(t) ==
    \A b, c \in t.boards : b.nick = c.nick \/ (b.port = c.port /\ b.slave = c.slave) => b = c

(* Members of a group are told apart by alias. *)
AliasesDistinct(t) ==
    \A r, q \in t.refs : r.group = q.group /\ r.alias = q.alias => r = q

(* No channel is listed twice. *)
OneGroupEach(t) ==
    \A r, q \in t.refs : r.board = q.board /\ r.ch = q.ch => r = q

ASSUME ConstantsAssumption ==
    /\ defaultChannelAlias \in [Channels -> Aliases]
    /\ NoAlias \notin Aliases
    /\ NoFile \notin TopologyConfig
    /\ MaxEdits \in Nat

(* The launch flow builds with the rules below or loads what they built. *)
ASSUME StartAssumption ==
    \A t \in StartTopologies :
        t \in TopologyConfig /\ EndpointsDistinct(t) /\ AliasesDistinct(t) /\ OneGroupEach(t)

VARIABLES
    topo,       \* main's topology
    path,       \* currentTopologyPath
    files,      \* what the files hold
    wiz,        \* the wizard that is open, the copy it edits and its path
    sessions,   \* rt.boards, and how far their removal is: how many of each kind
    edited,     \* a port field was edited in the connection dialog of a session
    edits,      \* what the user did so far
    browsed,    \* ghost: the user chose another path in the wizard that is open
    merged      \* ghost: a board was given a nickname that a group still listed

vars == <<topo, path, files, wiz, sessions, edited, edits, browsed, merged>>

NoTopology == [buses |-> {}, boards |-> {}, groups |-> {}, refs |-> {}]

(* The sessions that are started for some boards, and one that changes its kind. *)
Started(boards) ==
    [s \in SessionType |->
       IF s.st = "live" /\ \E b \in boards : b.nick = s.nick /\ b.port = s.port THEN 1 ELSE 0]
Becomes(s, r) == [[sessions EXCEPT ![s] = @ - 1] EXCEPT ![r] = @ + 1]

Init ==
    /\ topo \in StartTopologies
    /\ path \in Files
    /\ \E saved \in BOOLEAN : files = [f \in Files |-> IF f = path /\ saved THEN topo ELSE NoFile]
    /\ wiz = [open |-> "none", topo |-> NoTopology, path |-> path]
    /\ sessions = Started(topo.boards)
    /\ edited = FALSE
    /\ edits = 0
    /\ browsed = FALSE
    /\ merged = FALSE

Edit == edits < MaxEdits /\ edits' = edits + 1

(* A save reports a failure when the file cannot be opened, and leaves it alone.  Once it is
   open the save reports success, though a failing write may leave nothing that loads. *)
save(f, t, saved) ==
    \/ /\ ~saved
       /\ UNCHANGED files
    \/ /\ saved
       /\ \E written \in {t, NoFile} : files' = [files EXCEPT ![f] = written]
load(f) == files[f]

-----------------------------------------------------------------------------
(* The rules, from a topology to a topology                                *)

boardNicknameInUse(t, n) == \E b \in t.boards : b.nick = n
slaveIdInUse(t, p, s) == \E b \in t.boards : b.port = p /\ b.slave = s

\* Mutant: the search ends with the first group.
findGroupForBoardChannel_first(t, n, ch) ==
    {r \in t.refs : r.board = n /\ r.ch = ch /\ r.group = CHOOSE g \in t.groups : TRUE}

findGroupForBoardChannel(t, n, ch) == {r \in t.refs : r.board = n /\ r.ch = ch}
groupAliasInUse(t, g, a, except) ==
    \E r \in t.refs \ except : r.group = g /\ r.alias = a

FinalAlias(ch, a) == IF a = NoAlias THEN defaultChannelAlias[ch] ELSE a

addBus(t, p) == [t EXCEPT !.buses = @ \cup {p}]
removeBus(t, p) ==
    [t EXCEPT !.buses = @ \ {p}, !.boards = {b \in @ : b.port # p}]

addBoard(t, b) == [t EXCEPT !.boards = @ \cup {b}]
CanAddBoard(t, b) ==
    /\ b.port \in t.buses
    /\ ~boardNicknameInUse(t, b.nick)
    /\ ~slaveIdInUse(t, b.port, b.slave)
removeBoard(t, b) == [t EXCEPT !.boards = @ \ {b}]

\* Mutant: the nickname is not looked for among the other boards.
CanRenameBoard_unchecked(t, prev, n) == boardNicknameInUse(t, prev)

CanRenameBoard(t, prev, n) ==
    /\ boardNicknameInUse(t, prev)
    /\ \A b \in t.boards : b.nick = n => b.nick = prev

(* The members of groups are renamed with the board; members that a removed
   board left behind are not looked at. *)
renameBoard(t, prev, n) ==
    [t EXCEPT !.boards = {IF b.nick = prev THEN [b EXCEPT !.nick = n] ELSE b : b \in @},
              !.refs = {IF r.board = prev THEN [r EXCEPT !.board = n] ELSE r : r \in @}]

addGroup(t, g) == [t EXCEPT !.groups = @ \cup {g}]
renameGroup(t, prev, g) ==
    [t EXCEPT !.groups = (@ \ {prev}) \cup {g},
              !.refs = {IF r.group = prev THEN [r EXCEPT !.group = g] ELSE r : r \in @}]
removeGroup(t, g) == [t EXCEPT !.groups = @ \ {g}, !.refs = {r \in @ : r.group # g}]

CanAddChannel(t, r) ==
    /\ r.group \in t.groups
    /\ findGroupForBoardChannel(t, r.board, r.ch) = {}
    /\ ~groupAliasInUse(t, r.group, r.alias, {})
addChannelToGroup(t, r) == [t EXCEPT !.refs = @ \cup {r}]

CanRenameAlias(t, r, a) == ~groupAliasInUse(t, r.group, FinalAlias(r.ch, a), {r})

renameGroupChannelAlias(t, r, a) ==
    [t EXCEPT !.refs = (@ \ {r}) \cup {[r EXCEPT !.alias = FinalAlias(r.ch, a)]}]
removeChannelFromGroup(t, r) == [t EXCEPT !.refs = @ \ {r}]

-----------------------------------------------------------------------------
(* The topology wizard: a copy of the topology, its path and the sessions  *)

openSetup(t) == [open |-> "setup", topo |-> t, path |-> path]

openGroupSetup(t) == [open |-> "group", topo |-> t, path |-> path]

OpenWizard ==
    /\ Edit /\ wiz.open = "none"
    /\ wiz' \in {openSetup(topo), openGroupSetup(topo)}
    /\ browsed' = FALSE
    /\ UNCHANGED <<topo, path, files, sessions, edited, merged>>

(* The copy is taken anew at the next opening. *)
Closed == [wiz EXCEPT !.open = "none", !.topo = NoTopology]

EditDraft(t) ==
    /\ Edit
    /\ wiz' = [wiz EXCEPT !.topo = t]
    /\ UNCHANGED <<topo, path, files, sessions, edited, browsed, merged>>

WizardEdit ==
    /\ wiz.open = "setup"
    /\ \/ \E p \in Ports \ wiz.topo.buses : EditDraft(addBus(wiz.topo, p))
       \/ \E p \in wiz.topo.buses : EditDraft(removeBus(wiz.topo, p))
       \/ \E b \in BoardConfig : CanAddBoard(wiz.topo, b) /\ EditDraft(addBoard(wiz.topo, b))
       \/ \E b \in wiz.topo.boards : EditDraft(removeBoard(wiz.topo, b))

doLoadTopology ==
    /\ wiz.open = "setup"
    /\ load(wiz.path) # NoFile
    /\ EditDraft(load(wiz.path))

BrowsePath ==
    /\ Edit /\ wiz.open = "setup"
    /\ \E f \in Files \ {wiz.path} : wiz' = [wiz EXCEPT !.path = f]
    /\ browsed' = TRUE
    /\ UNCHANGED <<topo, path, files, sessions, edited, merged>>

(* Either wizard. *)
bSave ==
    /\ Edit /\ wiz.open # "none"
    /\ \E saved \in BOOLEAN : save(wiz.path, wiz.topo, saved)
    /\ UNCHANGED <<topo, path, wiz, sessions, edited, browsed, merged>>

Present == {s \in SessionType : sessions[s] > 0}

(* The sessions in the lists of the workers. *)
Driven == {s \in Present : s.st # "detached"}

(* The connection dialog rewrites the port field of a session, also while its bus is open. *)
SelectPort ==
    /\ Edit /\ wiz.open = "none"
    /\ Present # {}
    /\ edited' = TRUE
    /\ UNCHANGED <<topo, path, files, wiz, sessions, browsed, merged>>

(* Sessions whose nickname is gone are queued for removal. *)
removeGoneBoardsLive(t) ==
    [s \in SessionType |->
       IF boardNicknameInUse(t, s.nick) \/ s.st = "detached" THEN sessions[s]
       ELSE IF s.st = "live" THEN 0
       ELSE sessions[s] + sessions[[s EXCEPT !.st = "live"]]]

(* The worker of a bus is found by the port field of its first session, and the board among
   its sessions by nickname.  Once a field was edited any worker, or none, may be found: the
   only board that is started for certain is one without a session on any worker. *)
AlreadyRunning(b) == \E s \in Driven : s.nick = b.nick /\ s.port = b.port

applyNewBoardsLive(t) ==
    IF edited
      THEN {boards \in SUBSET t.boards :
              \A b \in t.boards : b \in boards \/ \E s \in Driven : s.nick = b.nick}
      ELSE {{b \in t.boards : ~AlreadyRunning(b)}}

bConnectNow ==
    /\ Edit /\ wiz.open = "setup"
    /\ \E boards \in applyNewBoardsLive(wiz.topo) :
         sessions' = [s \in SessionType |-> removeGoneBoardsLive(wiz.topo)[s] + Started(boards)[s]]
    /\ topo' = wiz.topo
    /\ path' = wiz.path
    /\ wiz' = Closed
    /\ UNCHANGED <<files, edited, browsed, merged>>

bCancel ==
    /\ Edit /\ wiz.open = "setup"
    /\ wiz' = Closed
    /\ UNCHANGED <<topo, path, files, sessions, edited, browsed, merged>>

-----------------------------------------------------------------------------
(* The group wizard: the channels offered are those of sessions            *)

availableGroupChannels(t) ==
    {c \in {s.nick : s \in Present} \X Channels : findGroupForBoardChannel(t, c[1], c[2]) = {}}

GroupEdit ==
    /\ wiz.open = "group"
    /\ \/ \E g \in GroupNames \ wiz.topo.groups : EditDraft(addGroup(wiz.topo, g))
       \/ \E g \in wiz.topo.groups : EditDraft(removeGroup(wiz.topo, g))
       \/ \E c \in availableGroupChannels(wiz.topo), g \in GroupNames, a \in Aliases \cup {NoAlias} :
            LET r == [group |-> g, board |-> c[1], ch |-> c[2], alias |-> FinalAlias(c[2], a)]
            IN  CanAddChannel(wiz.topo, r) /\ EditDraft(addChannelToGroup(wiz.topo, r))
       \/ \E r \in wiz.topo.refs : EditDraft(removeChannelFromGroup(wiz.topo, r))

(* The copy becomes the topology, saved or not. *)
bExit ==
    /\ Edit /\ wiz.open = "group"
    /\ topo' = wiz.topo
    /\ path' = wiz.path
    /\ wiz' = Closed
    /\ UNCHANGED <<files, sessions, edited, browsed, merged>>

-----------------------------------------------------------------------------
(* The dashboards: names edited in place and saved at once                 *)

(* The topology is changed first and stays so if the save fails. *)
EditInPlace(t, saved) ==
    /\ topo' = t
    /\ save(path, t, saved)
    /\ UNCHANGED <<path, wiz, edited, browsed>>

saveGroupChannelAliasToTopology ==
    /\ Edit /\ wiz.open = "none"
    /\ \E r \in topo.refs, a \in Aliases \cup {NoAlias}, saved \in BOOLEAN :
         /\ CanRenameAlias(topo, r, a)
         /\ EditInPlace(renameGroupChannelAlias(topo, r, a), saved)
    /\ UNCHANGED <<sessions, merged>>

saveGroupNameToTopology ==
    /\ Edit /\ wiz.open = "none"
    /\ \E prev \in topo.groups, g \in GroupNames, saved \in BOOLEAN :
         /\ g \notin topo.groups \ {prev}
         /\ EditInPlace(renameGroup(topo, prev, g), saved)
    /\ UNCHANGED <<sessions, merged>>

(* One session of that nickname is renamed, once the topology is saved. *)
saveBoardNameToTopology ==
    /\ Edit /\ wiz.open = "none"
    /\ \E s \in Present, n \in Nicknames, saved \in BOOLEAN :
         /\ CanRenameBoard(topo, s.nick, n)
         /\ EditInPlace(renameBoard(topo, s.nick, n), saved)
         /\ sessions' = IF saved THEN Becomes(s, [s EXCEPT !.nick = n]) ELSE sessions
         /\ merged' = (merged \/ (n # s.nick /\ \E r \in topo.refs : r.board = n))

removeBoardLive ==
    /\ Edit /\ wiz.open = "none"
    /\ \E s \in Present : s.st = "live" /\ sessions' = Becomes(s, [s EXCEPT !.st = "leaving"])
    /\ UNCHANGED <<topo, path, files, wiz, edited, browsed, merged>>

-----------------------------------------------------------------------------
(* The removal: the worker of the bus lets the session go, and a frame,    *)
(* whether a wizard is open or not, ends it                                *)

RunRemove ==
    /\ \E s \in Present : s.st = "leaving" /\ sessions' = Becomes(s, [s EXCEPT !.st = "detached"])
    /\ UNCHANGED <<topo, path, files, wiz, edited, edits, browsed, merged>>

(* The boards of those nicknames leave the topology, and with them every bus
   that is empty. *)
Forget(t, names) ==
    LET left == {b \in t.boards : b.nick \notin names}
    IN  [t EXCEPT !.boards = left, !.buses = {p \in @ : \E b \in left : b.port = p}]

drainPendingRemovals ==
    LET gone == Present \ Driven
    IN  /\ gone # {}
        /\ sessions' = [s \in SessionType |-> IF s \in gone THEN 0 ELSE sessions[s]]
        /\ topo' = Forget(topo, {s.nick : s \in gone})
        /\ UNCHANGED <<path, files, wiz, edited, edits, browsed, merged>>

-----------------------------------------------------------------------------
Next ==
    \/ OpenWizard \/ WizardEdit \/ doLoadTopology \/ BrowsePath \/ bSave \/ bConnectNow \/ bCancel
    \/ GroupEdit \/ bExit
    \/ saveGroupChannelAliasToTopology \/ saveGroupNameToTopology \/ saveBoardNameToTopology
    \/ SelectPort \/ removeBoardLive \/ RunRemove \/ drainPendingRemovals

Spec == Init /\ [][Next]_vars

-----------------------------------------------------------------------------
(* Properties                                                              *)

(* The topologies in memory and on disk. *)
Topologies == {topo, wiz.topo} \cup {files[f] : f \in {g \in Files : files[g] # NoFile}}

(* The types of the variables. *)
TypeOK ==
    /\ topo \in TopologyConfig
    /\ path \in Files
    /\ files \in [Files -> TopologyConfig \cup {NoFile}]
    /\ wiz \in [open : {"none", "setup", "group"}, topo : TopologyConfig, path : Files]
    /\ sessions \in [SessionType -> Nat]
    /\ edited \in BOOLEAN
    /\ edits \in 0 .. MaxEdits
    /\ browsed \in BOOLEAN
    /\ merged \in BOOLEAN

(* Whatever is edited where, saved, loaded, applied or cancelled, nicknames are unique and no
   two boards of a bus share an address (boardNicknameInUse, slaveIdInUse, renameBoard): the
   sessions, the groups and the command line find a board by its nickname. *)
EndpointsUnique == \A t \in Topologies : EndpointsDistinct(t)

(* The aliases of a group are unique, those that default to the name of the channel too
   (groupAliasInUse). *)
AliasesUnique == \A t \in Topologies : AliasesDistinct(t)

(* A channel is in one group at most (findGroupForBoardChannel), unless a board was given the
   nickname of a removed one whose channels the groups still list: renameBoard does not look
   at those. *)
OneGroupUnlessMerged == merged \/ \A t \in Topologies : OneGroupEach(t)

(* What the group wizard saves or leaves behind has every board of the topology
   (openGroupSetup): a board may only have been removed meanwhile. *)
GroupDraftHasBoards == wiz.open = "group" => topo.boards \subseteq wiz.topo.boards

(* A wizard writes into the file of the running topology unless the user has chosen another
   one in this wizard, whatever was chosen in one that was cancelled (openSetup). *)
PathFollows == wiz.open # "none" /\ ~browsed => wiz.path = path

(* What main.cpp says of an Apply: no board is both removed and newly added in one edit, so
   that removing the sessions whose nickname is gone makes every Remove Board take effect.
   No session stays live on a bus from which its board was taken. *)
RemovedBoardsLeave ==
    [][bConnectNow /\ ~edited =>
         \A s \in Present' : s.st = "live" =>
            \E b \in topo'.boards : b.nick = s.nick /\ b.port = s.port]_vars
=============================================================================
