------------------------------- MODULE KeyDbProofs -------------------------------
(***************************************************************************)
(* Proofs about KeyDb, for any keys, any indices, any size of the database *)
(* and any number of commands.                                             *)
(*                                                                         *)
(* KeysAgree and SlotsNotLost speak of the time between two commands of    *)
(* the shell.  What has to hold in the middle of one depends on where the  *)
(* command is and on whether the gateway thread has touched the command's  *)
(* key since it began: the inductive invariant says both.                  *)
(***************************************************************************)
EXTENDS KeyDb, TLAPS

LEMMA Basics ==
    /\ Primary \in NetIdx
    /\ NetIdx \subseteq Nat
    /\ Unused \notin NetIdx
    /\ NoIdx \notin Idx
    /\ PrimaryKey \in Key /\ NoKey \notin Key
<1>1. Primary \in NetIdx /\ NetIdx \subseteq Nat /\ Unused \notin NetIdx
  BY PrimaryIsIdx DEF Primary, Unused
<1>2. NoIdx \notin Idx
  BY DEF NoIdx, Idx
<1> QED
  BY <1>1, <1>2, KeysAreKeys

LEMMA IdxFacts ==
    ASSUME NEW i \in Idx
    PROVE  /\ NetOf(i) \subseteq NetIdx
           /\ i[1] \in {"net", "app"}
           /\ i[1] = "net" => i = <<"net", i[2]>>
           /\ \A net \in NetIdx : <<"net", net>> \in Idx
           /\ \A net : <<"net", net>>[1] = "net" /\ <<"net", net>>[2] = net
BY DEF Idx, NetOf

LEMMA FirstSlotIsSlot == FirstSlot \in Slot /\ FirstSlot[1] = "net"
<1>1. \E n \in NetSlot : \A m \in NetSlot : n <= m
  BY SlotsAreNumbered
<1> DEFINE first == CHOOSE n \in NetSlot : \A m \in NetSlot : n <= m
<1>2. first \in NetSlot
  BY <1>1
<1>3. FirstSlot = <<"net", first>>
  BY DEF FirstSlot
<1> HIDE DEF first
<1> QED
  BY <1>2, <1>3 DEF Slot

-----------------------------------------------------------------------------
(* The variables of a command. *)
CommandTyped ==
    /\ shell.pc # "idle" => shell.idx \in Idx /\ shell.net \in NetOf(shell.idx)
    /\ shell.pc \in {"alloc", "write", "stack_add", "rollback"} => shell.key \in Key
    /\ shell.pc \notin {"idle", "alloc"} => shell.slot \in SlotsOf(shell.idx)
    /\ shell.pc \in {"undone", "free"} => shell.idx[1] = "app"

(* A free place is empty. *)
FreeIsEmpty == \A s \in Slot : ~InUse(s) => cdb[s] = Empty

(* A place in use belongs to an index of its own kind ... *)
IndexFits ==
    \A s \in Slot : InUse(s) /\ cdb[s].idx \in Idx =>
        s \in SlotsOf(cdb[s].idx) /\ cdb[s].net \in NetOf(cdb[s].idx)

(* ... which no other place has.                                              *)
OneEach == \A s, t \in Slot : InUse(s) /\ InUse(t) /\ cdb[s].idx = cdb[t].idx => s = t

(* Only the place a command works on lacks its index or its key. *)
IndexMissing ==
    \A s \in Slot : InUse(s) /\ cdb[s].idx = NoIdx =>
        s = shell.slot /\ shell.pc \in {"undone", "free"}
KeyMissing ==
    \A s \in Slot : InUse(s) /\ cdb[s].key = NoKey =>
        s = shell.slot /\ shell.pc \in {"write", "undone", "free"}

(* The place a command works on holds what the command has put there; once the       *)
(* gateway thread has touched the command's index, it may be any raced index's.  *)
PlaceUntouched ==
    /\ shell.pc = "write" => cdb[shell.slot] = Holds(shell.net, shell.idx, NoKey)
    /\ shell.pc \in {"stack_add", "rollback"} =>
           cdb[shell.slot] = Holds(shell.net, shell.idx, shell.key)
    /\ shell.pc \in {"undone", "free"} => cdb[shell.slot] = Holds(Primary, shell.idx, NoKey)
    /\ shell.pc = "delete" =>
           cdb[shell.slot].idx = shell.idx /\ cdb[shell.slot].net = shell.net
    /\ shell.pc = "stack_del" => Found(shell.idx) = {}

PlaceRaced ==
    shell.pc \notin {"idle", "alloc", "stack_del"} /\ InUse(shell.slot) =>
        cdb[shell.slot].idx \in raced \cup {NoIdx}

CommandsPlace == IF shell.idx \in raced THEN PlaceRaced ELSE PlaceUntouched

StackTyped ==
    /\ stack \subseteq [net : NetIdx, idx : Idx, key : Key]
    /\ \A k \in stack : k.net \in NetOf(k.idx)

(* What the stack has of the command's index. *)
CommandsKeys ==
    shell.idx \notin raced =>
        /\ shell.pc \in {"alloc", "write", "stack_add", "rollback", "undone"} =>
               Known(shell.idx) = {}
        /\ shell.pc \in {"free", "stack_del"} =>
               \A k \in Known(shell.idx) : k.net = shell.net

(* A key of the stack is listed, unless it is being removed; a listed key is in the  *)
(* stack, unless it is being added or undone.                                *)
StackListed ==
    \A k \in stack :
        \/ k.idx \in raced
        \/ k \in Listed
        \/ shell.pc \in {"free", "stack_del"} /\ k.idx = shell.idx

ListedInStack ==
    \A s \in Slot : InUse(s) =>
        \/ cdb[s].idx \in raced
        \/ cdb[s] \in stack
        \/ cdb[s].idx[1] = "app" /\ cdb[s].net \in gone
        \/ s = shell.slot
             /\ shell.pc \in {"write", "stack_add", "rollback", "undone", "free"}

PlacesTidy == FreeIsEmpty /\ IndexFits /\ OneEach /\ IndexMissing /\ KeyMissing
StackTidy == StackTyped /\ CommandsKeys /\ StackListed /\ ListedInStack

IInv == KeyTypeOK /\ CommandTyped /\ PlacesTidy /\ CommandsPlace /\ StackTidy

-----------------------------------------------------------------------------
LEMMA TypeInit == KeyInit => KeyTypeOK
<1> SUFFICES ASSUME KeyInit PROVE KeyTypeOK
  OBVIOUS
<1> USE Basics
<1>0. <<"net", Primary>> \in Idx
  BY DEF Idx
<1>1. PrimaryEntry \in Content /\ Empty \in Content
  BY <1>0 DEF PrimaryEntry, Empty, Holds, Content
<1>2. cdb \in [Slot -> Content] /\ stack \subseteq Content
  BY <1>1 DEF KeyInit
<1>3. shell \in [pc : {"idle", "alloc", "write", "stack_add", "rollback", "undone", "delete",
                       "free", "stack_del"},
                 net : NetIdx, idx : Idx \cup {NoIdx}, key : Key \cup {NoKey},
                 slot : Slot \cup {NoSlot}]
  BY DEF KeyInit, Idle, Working
<1>4. commands \in 0..MaxCommands /\ raced \subseteq Idx /\ gone \subseteq NetIdx
  BY CommandsAreNat DEF KeyInit
<1> QED
  BY <1>2, <1>3, <1>4 DEF KeyTypeOK

LEMMA HoldsIsContent ==
    ASSUME NEW net \in NetIdx, NEW i \in Idx \cup {NoIdx}, NEW k \in Key \cup {NoKey}
    PROVE  Holds(net, i, k) \in Content /\ Empty \in Content
BY DEF Holds, Empty, Content

ShellType ==
    [pc : {"idle", "alloc", "write", "stack_add", "rollback", "undone", "delete", "free",
           "stack_del"},
     net : NetIdx, idx : Idx \cup {NoIdx}, key : Key \cup {NoKey}, slot : Slot \cup {NoSlot}]

LEMMA ForgetTyped ==
    ASSUME KeyTypeOK, NEW net \in NetIdx, NEW i \in Idx, Forget(net, i)
    PROVE  gone' \subseteq NetIdx
BY DEF KeyTypeOK, Forget

LEMMA FoundFacts ==
    ASSUME KeyTypeOK, NEW i \in Idx, NEW s \in Found(i)
    PROVE  s \in Slot /\ cdb[s].net \in NetIdx /\ cdb[s].idx = i /\ InUse(s)
BY DEF KeyTypeOK, Found, SlotsOf, InUse, Content

LEMMA AllocableFacts ==
    ASSUME NEW i \in Idx, NEW s \in Allocable(i)
    PROVE  s \in Slot /\ s \in SlotsOf(i) /\ ~InUse(s) /\ Found(i) = {}
BY DEF Allocable, SlotsOf

LEMMA TypeGateway == KeyTypeOK /\ GatewayKeys => KeyTypeOK'
<1> SUFFICES ASSUME KeyTypeOK, GatewayKeys PROVE KeyTypeOK'
  OBVIOUS
<1> PICK i \in Idx :
       \/ \E net \in NetOf(i), k \in Key : GatewayAdd(net, i, k)
       \/ GatewayDelete(i)
       \/ GatewayDeleteFails(i)
  BY DEF GatewayKeys
<1>1. raced' \subseteq Idx /\ shell' = shell /\ commands' = commands
  BY DEF GatewayAdd, GatewayDelete, GatewayDeleteFails, Races, KeyTypeOK
<1>2. ASSUME NEW net \in NetOf(i), NEW k \in Key, GatewayAdd(net, i, k)
      PROVE  cdb' \in [Slot -> Content] /\ stack' \subseteq Content /\ gone' = gone
  <2>1. net \in NetIdx /\ Holds(net, i, k) \in Content /\ Empty \in Content
    BY IdxFacts, HoldsIsContent
  <2> QED
    BY <1>2, <2>1 DEF GatewayAdd, GatewayAddFails, GatewayAdds, GatewayRollsBack, RolledBack, KeyTypeOK
<1>3. CASE GatewayDelete(i)
  <2>1. PICK s \in Found(i) : /\ cdb' = [cdb EXCEPT ![s] = Empty]
                             /\ stack' = StackWithout(cdb[s].net, i)
                             /\ Forget(cdb[s].net, i)
    BY <1>3 DEF GatewayDelete
  <2>2. cdb[s].net \in NetIdx
    BY FoundFacts
  <2>3. gone' \subseteq NetIdx
    BY <2>1, <2>2, ForgetTyped
  <2>4. Empty \in Content
    BY DEF Empty, Holds, Content
  <2> QED
    BY <1>1, <2>1, <2>3, <2>4 DEF KeyTypeOK, StackWithout
<1>4. CASE GatewayDeleteFails(i)
  BY <1>1, <1>4 DEF GatewayDeleteFails, KeyTypeOK
<1> QED
  BY <1>1, <1>2, <1>3, <1>4 DEF KeyTypeOK

LEMMA TypeShell == KeyTypeOK /\ ShellKeys => KeyTypeOK'
<1> SUFFICES ASSUME KeyTypeOK, ShellKeys PROVE KeyTypeOK'
  OBVIOUS
<1> USE Basics DEF NotAlone
<1>0. /\ cdb \in [Slot -> Content] /\ stack \subseteq Content /\ shell \in ShellType
      /\ commands \in 0..MaxCommands /\ raced \subseteq Idx /\ gone \subseteq NetIdx
  BY DEF KeyTypeOK, ShellType
<1> SUFFICES /\ cdb' \in [Slot -> Content] /\ stack' \subseteq Content /\ shell' \in ShellType
             /\ commands' \in 0..MaxCommands /\ raced' \subseteq Idx /\ gone' \subseteq NetIdx
  BY DEF KeyTypeOK, ShellType
<1>1. Idle \in ShellType
  BY DEF Idle, Working, ShellType
<1>2. Empty \in Content
  BY DEF Empty, Holds, Content
<1>a. ASSUME NEW i \in Idx, ShellRemove(i) PROVE shell' \in ShellType /\ commands' \in 0..MaxCommands
  <2>1. PICK s \in Found(i) : shell' = Working("delete", cdb[s].net, i, NoKey, s)
    BY <1>a DEF ShellRemove
  <2>2. s \in Slot /\ cdb[s].net \in NetIdx
    BY FoundFacts
  <2>3. commands' \in 0..MaxCommands
    BY <1>0, <1>a, CommandsAreNat DEF ShellRemove
  <2> QED
    BY <2>1, <2>2, <2>3 DEF Working, ShellType
<1>b. ASSUME NEW i \in Idx, NEW net \in NetOf(i), NEW k \in Key, ShellAdd(net, i, k)
      PROVE  shell' \in ShellType /\ commands' \in 0..MaxCommands
  <2>1. net \in NetIdx
    BY IdxFacts
  <2>2. commands' \in 0..MaxCommands
    BY <1>0, <1>b, CommandsAreNat DEF ShellAdd
  <2> QED
    BY <1>b, <2>1, <2>2 DEF ShellAdd, Working, ShellType
<1>c. CASE \E i \in Idx : ShellRemove(i) \/ \E net \in NetOf(i), k \in Key : ShellAdd(net, i, k)
  <2>1. UNCHANGED <<cdb, stack, raced, gone>>
    BY <1>c DEF ShellRemove, ShellAdd
  <2> QED
    BY <1>0, <1>a, <1>b, <1>c, <2>1
<1>d. CASE ShellAllocFails
  BY <1>0, <1>1, <1>d DEF ShellAllocFails, CommandEnds
<1>e. CASE ShellAllocs
  <2>1. PICK s \in Allocable(shell.idx) :
           /\ cdb' = [cdb EXCEPT ![s] = Holds(shell.net, shell.idx, NoKey)]
           /\ shell' = Working("write", shell.net, shell.idx, shell.key, s)
    BY <1>e DEF ShellAllocs
  <2>2. s \in Slot
    BY DEF Allocable, SlotsOf
  <2>3. Holds(shell.net, shell.idx, NoKey) \in Content
    BY <1>0 DEF Holds, Content, ShellType
  <2>4. shell' \in ShellType
    BY <1>0, <2>1, <2>2 DEF Working, ShellType
  <2> QED
    BY <1>0, <1>e, <2>1, <2>3, <2>4 DEF ShellAllocs
<1>f. CASE ShellWrites
  <2>1. shell' \in ShellType
    BY <1>0, <1>f DEF ShellWrites, At, ShellType
  <2> DEFINE new == [cdb[shell.slot] EXCEPT !.key = shell.key]
  <2>2. shell.slot \in Slot => new \in Content
    BY <1>0 DEF Content, ShellType
  <2>3. cdb' = IF InUse(shell.slot) THEN [cdb EXCEPT ![shell.slot] = new] ELSE cdb
    BY <1>f DEF ShellWrites
  <2> HIDE DEF new
  <2>4. cdb' \in [Slot -> Content]
    BY <1>0, <2>2, <2>3
  <2> QED
    BY <1>0, <1>f, <2>1, <2>4 DEF ShellWrites
<1>g. CASE ShellStackAdds
  <2>1. Holds(shell.net, shell.idx, shell.key) \in Content
    BY <1>0 DEF Holds, Content, ShellType
  <2> QED
    BY <1>0, <1>1, <1>g, <2>1 DEF ShellStackAdds, CommandEnds
<1>h. CASE ShellStackRefuses
  <2>1. shell' \in ShellType
    BY <1>0, <1>h DEF ShellStackRefuses, At, ShellType
  <2> QED
    BY <1>0, <1>h, <2>1 DEF ShellStackRefuses
<1>i. CASE ShellDeletes
  <2>1. shell' \in ShellType
    BY <1>0, <1>1, <1>i DEF ShellDeletes, At, ShellType
  <2>2. shell.slot \in Slot => Deleted(shell.slot) \in Content
    BY <1>0, <1>2 DEF Deleted, Holds, Content
  <2>3. cdb' \in [Slot -> Content]
    BY <1>0, <1>i, <2>2 DEF ShellDeletes
  <2> QED
    BY <1>0, <1>i, <2>1, <2>3 DEF ShellDeletes
<1>j. CASE ShellFrees
  <2>1. shell' \in ShellType
    BY <1>0, <1>1, <1>j DEF ShellFrees, At, ShellType
  <2> QED
    BY <1>0, <1>2, <1>j, <2>1 DEF ShellFrees
<1>k. CASE ShellStackDeletes
  <2>1. gone' \subseteq NetIdx
    BY <1>0, <1>k DEF ShellStackDeletes, Forget, ShellType
  <2> QED
    BY <1>0, <1>1, <1>k, <2>1 DEF ShellStackDeletes, CommandEnds, StackWithout
<1> QED
  BY <1>c, <1>d, <1>e, <1>f, <1>g, <1>h, <1>i, <1>j, <1>k DEF ShellKeys

LEMMA TypeNext == KeyTypeOK /\ [KeyNext]_keyVars => KeyTypeOK'
<1> SUFFICES ASSUME KeyTypeOK, [KeyNext]_keyVars PROVE KeyTypeOK'
  OBVIOUS
<1>1. CASE UNCHANGED keyVars
  BY <1>1 DEF keyVars, KeyTypeOK
<1> QED
  BY <1>1, TypeGateway, TypeShell DEF KeyNext

(* TypeCorrect: the variables keep their types, the bound on the commands included. *)
THEOREM TypeCorrect == KeySpec => []KeyTypeOK
<1> QED
  BY TypeInit, TypeNext, PTL DEF KeySpec

-----------------------------------------------------------------------------
(* Facts of the invariant. *)
Types ==
    /\ cdb \in [Slot -> Content]
    /\ shell \in ShellType
    /\ raced \subseteq Idx
    /\ gone \subseteq NetIdx

LEMMA InvTypes == ASSUME IInv PROVE Types
BY DEF IInv, KeyTypeOK, Types, ShellType

LEMMA SlotFacts ==
    ASSUME IInv
    PROVE  /\ shell.pc \notin {"idle", "alloc"} => shell.slot \in Slot
           /\ shell.pc # "idle" => shell.idx \in Idx /\ shell.net \in NetIdx
           /\ shell.pc # "idle" => shell.net # Unused
BY InvTypes, Basics, IdxFacts DEF IInv, CommandTyped, SlotsOf, Types, ShellType

(* Whatever has happened, the place of a command holds its index or a raced one. *)
LEMMA PlaceKnown ==
    ASSUME IInv, shell.pc \notin {"idle", "alloc", "stack_del"}, InUse(shell.slot)
    PROVE  cdb[shell.slot].idx \in raced \cup {shell.idx, NoIdx}
<1>1. CASE shell.idx \in raced
  BY <1>1 DEF IInv, CommandsPlace, PlaceRaced
<1>2. CASE shell.idx \notin raced
  <2>1. shell.pc \in {"write", "stack_add", "rollback", "undone", "delete", "free"}
    BY InvTypes DEF Types, ShellType
  <2>2. PlaceUntouched
    BY <1>2 DEF IInv, CommandsPlace
  <2>3. cdb[shell.slot].idx = shell.idx
    BY <2>1, <2>2 DEF PlaceUntouched, Holds
  <2> QED
    BY <2>3
<1> QED
  BY <1>1, <1>2

LEMMA RacesFacts ==
    ASSUME IInv, NEW i \in Idx, Races(i)
    PROVE  /\ raced \subseteq raced' /\ raced' \subseteq raced \cup {i}
           /\ shell.pc # "idle" => i \in raced'
           /\ shell.pc = "idle" => raced' = raced
BY DEF Races

LEMMA FoundInUse ==
    ASSUME IInv, NEW i \in Idx, NEW s \in Slot, InUse(s), cdb[s].idx = i
    PROVE  s \in Found(i)
BY DEF IInv, PlacesTidy, IndexFits, Found

-----------------------------------------------------------------------------
(* The steps of the gateway thread. *)
Kept == CommandTyped /\ PlacesTidy /\ CommandsPlace /\ StackTidy

(* A request that changes nothing, or undoes what it has done. *)
LEMMA GatewayStays ==
    ASSUME IInv, NEW i \in Idx, Races(i), UNCHANGED <<cdb, stack, shell, gone>>
    PROVE  Kept'
<1> USE RacesFacts
<1>1. CommandTyped' /\ StackTyped'
  BY DEF IInv, CommandTyped, StackTidy, StackTyped
<1>2. PlacesTidy'
  BY DEF IInv, PlacesTidy, FreeIsEmpty, IndexFits, OneEach, IndexMissing, KeyMissing, InUse
<1>3. CommandsPlace'
  <2>1. CASE shell.idx \in raced'
    <3>1. PlaceRaced'
      BY <2>1, PlaceKnown DEF PlaceRaced, InUse
    <3> QED
      BY <2>1, <3>1 DEF CommandsPlace
  <2>2. CASE shell.idx \notin raced'
    <3>1. PlaceUntouched
      BY <2>2 DEF IInv, CommandsPlace
    <3>2. PlaceUntouched'
      BY <3>1 DEF PlaceUntouched, Found, InUse
    <3> QED
      BY <2>2, <3>2 DEF CommandsPlace
  <2> QED
    BY <2>1, <2>2
<1>4. CommandsKeys'
  BY DEF IInv, StackTidy, CommandsKeys, Known
<1>5. StackListed'
  BY DEF IInv, StackTidy, StackListed, Listed, InUse
<1>6. ListedInStack'
  BY DEF IInv, StackTidy, ListedInStack, InUse
<1> QED
  BY <1>1, <1>2, <1>3, <1>4, <1>5, <1>6 DEF Kept, StackTidy

(* A key is added: its place was free, and no other has its index. *)
LEMMA GatewayAddsKeeps ==
    ASSUME IInv, NEW i \in Idx, Races(i), UNCHANGED <<shell, gone>>,
           NEW net \in NetOf(i), NEW k \in Key, NEW s \in Allocable(i),
           MayAdd(net, i, k),
           cdb' = [cdb EXCEPT ![s] = Holds(net, i, k)],
           stack' = stack \cup {Holds(net, i, k)}
    PROVE  Kept'
<1> DEFINE new == Holds(net, i, k)
<1>1. new.net = net /\ new.idx = i /\ new.key = k /\ net \in NetIdx /\ net # Unused
  BY IdxFacts, Basics DEF Holds
<1>2. s \in Slot /\ s \in SlotsOf(i) /\ ~InUse(s) /\ Found(i) = {}
  BY AllocableFacts
<1>3. /\ cdb'[s] = new
      /\ \A t \in Slot : t # s => cdb'[t] = cdb[t]
      /\ new \in stack' /\ stack \subseteq stack'
      /\ stack' = stack \cup {new}
  BY <1>2, InvTypes DEF Types
<1>4. InUse(s)' /\ \A t \in Slot : t # s => InUse(t)' = InUse(t)
  BY <1>1, <1>3 DEF InUse
<1>5. new \in [net : NetIdx, idx : Idx, key : Key]
  BY <1>1, Basics DEF Holds
<1>6. shell' = shell /\ gone' = gone
  OBVIOUS
<1>7. NoIdx \notin Idx /\ NoKey \notin Key
  BY Basics
<1>8. \A t \in Slot : InUse(t) => cdb[t].idx # i
  BY <1>2, FoundInUse
<1> HIDE DEF new
<1> USE RacesFacts
<1>a. CommandTyped'
  BY <1>6 DEF IInv, CommandTyped
<1>b. StackTyped'
  BY <1>1, <1>3, <1>5 DEF IInv, StackTidy, StackTyped
<1>c. FreeIsEmpty'
  BY <1>3, <1>4 DEF IInv, PlacesTidy, FreeIsEmpty
<1>d. IndexFits'
  BY <1>1, <1>2, <1>3, <1>4 DEF IInv, PlacesTidy, IndexFits
<1>e. OneEach'
  BY <1>1, <1>3, <1>4, <1>8 DEF IInv, PlacesTidy, OneEach
<1>f. IndexMissing' /\ KeyMissing'
  BY <1>1, <1>3, <1>4, <1>6, <1>7 DEF IInv, PlacesTidy, IndexMissing, KeyMissing
<1>g. CommandsPlace'
  <2>1. CASE shell.idx \in raced'
    <3>1. PlaceRaced'
      BY <2>1, <1>1, <1>3, <1>4, <1>6, PlaceKnown, SlotFacts DEF PlaceRaced
    <3> QED
      BY <2>1, <1>6, <3>1 DEF CommandsPlace
  <2>2. CASE shell.idx \notin raced'
    <3>1. PlaceUntouched
      BY <2>2 DEF IInv, CommandsPlace
    <3>2. shell.pc \in {"write", "stack_add", "rollback", "undone", "delete", "free"} =>
              InUse(shell.slot)
      BY <3>1, SlotFacts, Basics DEF PlaceUntouched, Holds, InUse
    <3>3. shell.pc \in {"write", "stack_add", "rollback", "undone", "delete", "free"} =>
              cdb'[shell.slot] = cdb[shell.slot]
      BY <1>2, <1>3, <3>2, SlotFacts
    <3>4. ASSUME shell.pc = "stack_del" PROVE Found(shell.idx)' = {}
      <4>1. i # shell.idx /\ Found(shell.idx) = {}
        BY <2>2, <3>1, <3>4 DEF PlaceUntouched
      <4> QED
        BY <1>1, <1>3, <1>4, <1>6, <4>1 DEF Found, SlotsOf
    <3>5. PlaceUntouched'
      BY <1>6, <3>1, <3>3, <3>4 DEF PlaceUntouched
    <3> QED
      BY <2>2, <1>6, <3>5 DEF CommandsPlace
  <2> QED
    BY <2>1, <2>2
<1>h. CommandsKeys'
  <2>1. shell.pc # "idle" => i \in raced'
    OBVIOUS
  <2>2. i # shell.idx => Known(shell.idx)' = Known(shell.idx)
    BY <1>1, <1>3, <1>6 DEF Known
  <2> QED
    BY <1>6, <2>1, <2>2 DEF IInv, StackTidy, CommandsKeys
<1>i. StackListed'
  BY <1>2, <1>3, <1>4, <1>6 DEF IInv, StackTidy, StackListed, Listed
<1>j. ListedInStack'
  BY <1>2, <1>3, <1>4, <1>6 DEF IInv, StackTidy, ListedInStack
<1> QED
  BY <1>a, <1>b, <1>c, <1>d, <1>e, <1>f, <1>g, <1>h, <1>i, <1>j DEF Kept, PlacesTidy, StackTidy

(* A key is deleted, and for a network its application keys. *)
LEMMA GatewayDeleteKeeps ==
    ASSUME IInv, NEW i \in Idx, Races(i), UNCHANGED shell,
           NEW s \in Found(i),
           cdb' = [cdb EXCEPT ![s] = Empty],
           stack' = StackWithout(cdb[s].net, i),
           Forget(cdb[s].net, i)
    PROVE  Kept'
<1> DEFINE net == cdb[s].net
<1>1. s \in Slot /\ net \in NetIdx /\ net \in NetOf(i) /\ cdb[s].idx = i /\ InUse(s)
  <2>1. s \in Slot /\ net \in NetIdx /\ cdb[s].idx = i /\ InUse(s)
    BY FoundFacts DEF IInv
  <2> QED
    BY <2>1 DEF IInv, PlacesTidy, IndexFits
<1>2. /\ cdb'[s] = Empty
      /\ \A t \in Slot : t # s => cdb'[t] = cdb[t]
  BY <1>1, InvTypes DEF Types
<1>3. ~InUse(s)' /\ \A t \in Slot : t # s => InUse(t)' = InUse(t)
  BY <1>2 DEF InUse, Empty, Holds
<1>4. /\ stack' \subseteq stack
      /\ \A k \in stack' : ~(k.idx = i /\ k.net = net)
      /\ \A k \in stack \ stack' : (k.idx = i /\ k.net = net) \/ (i[1] = "net" /\ k.net = net)
  BY DEF StackWithout
<1>5. gone \subseteq gone' /\ (i[1] = "net" => net \in gone')
  BY DEF Forget
<1>6. shell' = shell
  OBVIOUS
<1>7. i[1] = "net" => i = <<"net", net>>
  BY <1>1, IdxFacts DEF NetOf
<1> HIDE DEF net
<1> USE RacesFacts
<1>a. CommandTyped'
  BY <1>6 DEF IInv, CommandTyped
<1>b. StackTyped'
  BY <1>4 DEF IInv, StackTidy, StackTyped
<1>c. FreeIsEmpty'
  BY <1>2, <1>3 DEF IInv, PlacesTidy, FreeIsEmpty
<1>d. IndexFits'
  BY <1>2, <1>3 DEF IInv, PlacesTidy, IndexFits
<1>e. OneEach'
  BY <1>2, <1>3 DEF IInv, PlacesTidy, OneEach
<1>f. IndexMissing' /\ KeyMissing'
  BY <1>2, <1>3, <1>6 DEF IInv, PlacesTidy, IndexMissing, KeyMissing
<1>g. CommandsPlace'
  <2>1. CASE shell.idx \in raced'
    <3>1. PlaceRaced'
      BY <2>1, <1>2, <1>3, <1>6, PlaceKnown, SlotFacts DEF PlaceRaced
    <3> QED
      BY <2>1, <1>6, <3>1 DEF CommandsPlace
  <2>2. CASE shell.idx \notin raced'
    <3>1. PlaceUntouched
      BY <2>2 DEF IInv, CommandsPlace
    <3>2. ASSUME shell.pc \in {"write", "stack_add", "rollback", "undone", "delete", "free"}
          PROVE  cdb'[shell.slot] = cdb[shell.slot]
      <4>1. cdb[shell.slot].idx = shell.idx
        BY <3>1, <3>2 DEF PlaceUntouched, Holds
      <4>2. shell.idx # i
        BY <2>2, <3>2
      <4> QED
        BY <1>1, <1>2, <3>2, <4>1, <4>2, SlotFacts
    <3>3. ASSUME shell.pc = "stack_del" PROVE Found(shell.idx)' = {}
      <4>1. Found(shell.idx) = {}
        BY <3>1, <3>3 DEF PlaceUntouched
      <4> QED
        BY <1>2, <1>3, <1>6, <4>1 DEF Found, SlotsOf
    <3>4. PlaceUntouched'
      BY <1>6, <3>1, <3>2, <3>3 DEF PlaceUntouched
    <3> QED
      BY <2>2, <1>6, <3>4 DEF CommandsPlace
  <2> QED
    BY <2>1, <2>2
<1>h. CommandsKeys'
  <2>1. Known(shell.idx)' \subseteq Known(shell.idx)
    BY <1>4, <1>6 DEF Known
  <2> QED
    BY <1>6, <2>1 DEF IInv, StackTidy, CommandsKeys
<1>i. StackListed'
  <2> SUFFICES ASSUME NEW k \in stack', k \in Listed PROVE k \in Listed'
    BY <1>4, <1>6 DEF IInv, StackTidy, StackListed
  <2>1. PICK t \in Slot : InUse(t) /\ k = cdb[t]
    BY DEF Listed
  <2>2. t # s
    BY <1>1, <1>4, <2>1 DEF net
  <2> QED
    BY <1>2, <1>3, <2>1, <2>2 DEF Listed
<1>j. ListedInStack'
  <2> SUFFICES ASSUME NEW t \in Slot, t # s, InUse(t), cdb[t] \in stack \ stack'
               PROVE  cdb[t].idx[1] = "app" /\ cdb[t].net \in gone'
    BY <1>2, <1>3, <1>5, <1>6 DEF IInv, StackTidy, ListedInStack
  <2>1. cdb[t].idx \in Idx /\ cdb[t].net \in NetOf(cdb[t].idx)
    BY DEF IInv, StackTidy, StackTyped
  <2>2. cdb[t].idx # i
    BY <1>1 DEF IInv, PlacesTidy, OneEach
  <2>3. i[1] = "net" /\ cdb[t].net = net
    BY <1>4, <2>2
  <2>4. cdb[t].idx[1] # "net"
    BY <1>7, <2>1, <2>2, <2>3, IdxFacts DEF NetOf
  <2> QED
    BY <1>5, <2>1, <2>3, <2>4, IdxFacts
<1> QED
  BY <1>a, <1>b, <1>c, <1>d, <1>e, <1>f, <1>g, <1>h, <1>i, <1>j DEF Kept, PlacesTidy, StackTidy

LEMMA GatewayKeeps == ASSUME IInv, GatewayKeys PROVE Kept'
<1> PICK i \in Idx :
       \/ \E net \in NetOf(i), k \in Key : GatewayAdd(net, i, k)
       \/ GatewayDelete(i)
       \/ GatewayDeleteFails(i)
  BY DEF GatewayKeys
<1>1. ASSUME NEW net \in NetOf(i), NEW k \in Key, GatewayAdd(net, i, k) PROVE Kept'
  <2>1. Races(i) /\ UNCHANGED <<shell, gone>>
    BY <1>1 DEF GatewayAdd
  <2>2. CASE GatewayAddFails(i)
    BY <2>1, <2>2, GatewayStays DEF GatewayAddFails
  <2>3. CASE GatewayAdds(net, i, k)
    BY <2>1, <2>3, GatewayAddsKeeps DEF GatewayAdds
  <2>4. CASE GatewayRollsBack(net, i, k)
    <3>1. PICK s \in Allocable(i) : cdb' = [cdb EXCEPT ![s] = Empty]
      BY <2>4 DEF GatewayRollsBack, RolledBack
    <3>2. s \in Slot /\ cdb[s] = Empty
      BY AllocableFacts DEF IInv, PlacesTidy, FreeIsEmpty
    <3>3. cdb' = cdb
      BY <3>1, <3>2, InvTypes DEF Types
    <3> QED
      BY <2>1, <2>4, <3>3, GatewayStays DEF GatewayRollsBack
  <2> QED
    BY <1>1, <2>2, <2>3, <2>4 DEF GatewayAdd
<1>2. CASE GatewayDelete(i)
  BY <1>2, GatewayDeleteKeeps DEF GatewayDelete
<1>3. CASE GatewayDeleteFails(i)
  BY <1>3, GatewayStays DEF GatewayDeleteFails
<1> QED
  BY <1>1, <1>2, <1>3

-----------------------------------------------------------------------------
(* The steps of the shell. *)

(* The end of a command. *)
LEMMA CommandOver == ASSUME IInv, shell' = Idle PROVE CommandTyped' /\ CommandsPlace' /\ CommandsKeys'
<1>1. shell'.pc = "idle"
  BY DEF Idle, Working
<1>2. CommandTyped' /\ CommandsKeys' /\ PlaceUntouched' /\ PlaceRaced'
  BY <1>1 DEF CommandTyped, CommandsKeys, PlaceUntouched, PlaceRaced
<1> QED
  BY <1>2 DEF CommandsPlace

(* Steps that leave the database alone. *)
LEMMA PlacesStay ==
    ASSUME IInv, cdb' = cdb, shell.pc \notin {"write", "undone", "free"}
    PROVE  PlacesTidy'
<1>1. FreeIsEmpty' /\ IndexFits' /\ OneEach'
  BY DEF IInv, PlacesTidy, FreeIsEmpty, IndexFits, OneEach, InUse
<1>2. IndexMissing' /\ KeyMissing'
  BY DEF IInv, PlacesTidy, IndexMissing, KeyMissing, InUse
<1> QED
  BY <1>1, <1>2 DEF PlacesTidy

(* Steps that leave both alone. *)
LEMMA KeysStay ==
    ASSUME IInv, cdb' = cdb, stack' = stack, raced' = raced, gone' = gone,
           \/ shell.pc \in {"idle", "alloc"}
           \/ shell.pc = "stack_add" /\ shell'.pc = "rollback" /\ shell'.slot = shell.slot
    PROVE  StackTyped' /\ StackListed' /\ ListedInStack' /\ PlacesTidy'
<1>1. StackTyped' /\ StackListed'
  BY DEF IInv, StackTidy, StackTyped, StackListed, Listed, InUse
<1>2. ListedInStack'
  BY DEF IInv, StackTidy, ListedInStack, InUse
<1>3. PlacesTidy'
  BY PlacesStay
<1> QED
  BY <1>1, <1>2, <1>3

LEMMA ShellAddKeeps ==
    ASSUME IInv, NEW i \in Idx, NEW net \in NetOf(i), NEW k \in Key, ShellAdd(net, i, k)
    PROVE  Kept'
<1>1. /\ shell.pc = "idle" /\ Found(i) = {}
      /\ shell' = Working("alloc", net, i, k, NoSlot)
      /\ UNCHANGED <<cdb, stack, raced, gone>>
  BY DEF ShellAdd
<1>2. shell'.pc = "alloc" /\ shell'.idx = i /\ shell'.net = net /\ shell'.key = k
  BY <1>1 DEF Working
<1>3. StackTyped' /\ StackListed' /\ ListedInStack' /\ PlacesTidy'
  BY <1>1, KeysStay
<1>4. CommandTyped'
  BY <1>2 DEF CommandTyped
<1>5. CommandsPlace'
  <2>1. PlaceUntouched' /\ PlaceRaced'
    BY <1>2 DEF PlaceUntouched, PlaceRaced
  <2> QED
    BY <2>1 DEF CommandsPlace
<1>6. ASSUME i \notin raced PROVE Known(i) = {}
  <2> SUFFICES ASSUME NEW x \in stack, x.idx = i PROVE FALSE
    BY DEF Known
  <2>1. PICK s \in Slot : InUse(s) /\ x = cdb[s]
    BY <1>1, <1>6 DEF IInv, StackTidy, StackListed, Listed
  <2> QED
    BY <1>1, <2>1, FoundInUse
<1>7. CommandsKeys'
  BY <1>1, <1>2, <1>6 DEF CommandsKeys, Known
<1> QED
  BY <1>3, <1>4, <1>5, <1>7 DEF Kept, StackTidy

LEMMA ShellAllocFailsKeeps == ASSUME IInv, ShellAllocFails PROVE Kept'
<1>1. shell.pc = "alloc" /\ shell' = Idle /\ UNCHANGED <<cdb, stack, raced, gone>>
  BY DEF ShellAllocFails, CommandEnds, NotAlone
<1>2. StackTyped' /\ StackListed' /\ ListedInStack' /\ PlacesTidy'
  BY <1>1, KeysStay
<1> QED
  BY <1>1, <1>2, CommandOver DEF Kept, StackTidy

LEMMA ShellAllocsKeeps == ASSUME IInv, ShellAllocs PROVE Kept'
<1> DEFINE i == shell.idx
           new == Holds(shell.net, shell.idx, NoKey)
<1>1. PICK s \in Allocable(i) :
         /\ cdb' = [cdb EXCEPT ![s] = new]
         /\ shell' = Working("write", shell.net, shell.idx, shell.key, s)
  BY DEF ShellAllocs
<1>2. shell.pc = "alloc" /\ UNCHANGED <<stack, raced, gone>>
  BY DEF ShellAllocs, NotAlone
<1>3. i \in Idx /\ shell.net \in NetOf(i) /\ shell.net # Unused /\ shell.key \in Key
  BY <1>2, SlotFacts DEF IInv, CommandTyped
<1>4. s \in Slot /\ s \in SlotsOf(i) /\ ~InUse(s) /\ Found(i) = {}
  BY <1>3, AllocableFacts
<1>5. /\ shell'.pc = "write" /\ shell'.idx = i /\ shell'.net = shell.net
      /\ shell'.key = shell.key /\ shell'.slot = s
  BY <1>1 DEF Working
<1>6. new.net = shell.net /\ new.idx = i /\ new.key = NoKey
  BY DEF Holds
<1>7. cdb'[s] = new /\ \A t \in Slot : t # s => cdb'[t] = cdb[t]
  BY <1>1, <1>4, InvTypes DEF Types
<1>8. InUse(s)' /\ \A t \in Slot : t # s => InUse(t)' = InUse(t)
  BY <1>3, <1>6, <1>7 DEF InUse
<1>9. \A t \in Slot : InUse(t) => cdb[t].idx # i
  BY <1>3, <1>4, FoundInUse
<1> HIDE DEF new
<1>a. CommandTyped'
  BY <1>3, <1>4, <1>5 DEF CommandTyped, SlotsOf
<1>b. FreeIsEmpty'
  BY <1>7, <1>8 DEF IInv, PlacesTidy, FreeIsEmpty
<1>c. IndexFits'
  BY <1>3, <1>4, <1>6, <1>7, <1>8 DEF IInv, PlacesTidy, IndexFits
<1>d. OneEach'
  BY <1>6, <1>7, <1>8, <1>9 DEF IInv, PlacesTidy, OneEach
<1>e. IndexMissing' /\ KeyMissing'
  BY <1>2, <1>3, <1>5, <1>6, <1>7, <1>8, Basics DEF IInv, PlacesTidy, IndexMissing, KeyMissing
<1>f. PlaceUntouched'
  BY <1>5, <1>7 DEF PlaceUntouched, new
<1>g. i \in raced => PlaceRaced'
  BY <1>2, <1>5, <1>6, <1>7 DEF PlaceRaced
<1>h. CommandsPlace'
  BY <1>2, <1>5, <1>f, <1>g DEF CommandsPlace
<1>i. StackTyped'
  BY <1>2 DEF IInv, StackTidy, StackTyped
<1>j. CommandsKeys'
  BY <1>2, <1>5 DEF IInv, StackTidy, CommandsKeys, Known
<1>k. StackListed'
  BY <1>2, <1>4, <1>7, <1>8 DEF IInv, StackTidy, StackListed, Listed
<1>l. ListedInStack'
  BY <1>2, <1>5, <1>7, <1>8 DEF IInv, StackTidy, ListedInStack
<1> QED
  BY <1>a, <1>b, <1>c, <1>d, <1>e, <1>h, <1>i, <1>j, <1>k, <1>l DEF Kept, PlacesTidy, StackTidy

LEMMA ShellWritesKeeps == ASSUME IInv, ShellWrites PROVE Kept'
<1> DEFINE s == shell.slot
           new == [cdb[s] EXCEPT !.key = shell.key]
<1>1. shell.pc = "write" /\ shell' = At("stack_add") /\ UNCHANGED <<stack, raced, gone>>
  BY DEF ShellWrites, NotAlone
<1>2. s \in Slot /\ shell.key \in Key /\ shell.key # NoKey /\ shell.net # Unused
  BY <1>1, SlotFacts, Basics DEF IInv, CommandTyped
<1>3. /\ shell'.pc = "stack_add" /\ shell'.idx = shell.idx /\ shell'.net = shell.net
      /\ shell'.key = shell.key /\ shell'.slot = s
  BY <1>1, InvTypes DEF At, Types, ShellType
<1>4. new.net = cdb[s].net /\ new.idx = cdb[s].idx /\ new.key = shell.key
  BY <1>2, InvTypes DEF Types, Content
<1>5. /\ InUse(s) => cdb'[s] = new
      /\ ~InUse(s) => cdb'[s] = cdb[s]
      /\ \A t \in Slot : t # s => cdb'[t] = cdb[t]
  BY <1>2, InvTypes DEF ShellWrites, Types
<1>6. new = Holds(cdb[s].net, cdb[s].idx, shell.key)
  BY <1>2, InvTypes DEF Types, Content, Holds
<1> HIDE DEF new
<1>7. /\ \A t \in Slot : InUse(t)' = InUse(t)
      /\ \A t \in Slot : cdb'[t].net = cdb[t].net /\ cdb'[t].idx = cdb[t].idx
  BY <1>4, <1>5 DEF InUse
<1>a. CommandTyped'
  BY <1>1, <1>2, <1>3 DEF IInv, CommandTyped, SlotsOf
<1>b. FreeIsEmpty' /\ OneEach'
  BY <1>2, <1>5, <1>7 DEF IInv, PlacesTidy, FreeIsEmpty, OneEach
<1>c. IndexFits'
  BY <1>7 DEF IInv, PlacesTidy, IndexFits
<1>d. IndexMissing' /\ KeyMissing'
  BY <1>1, <1>2, <1>4, <1>5, <1>7 DEF IInv, PlacesTidy, IndexMissing, KeyMissing
<1>e. ASSUME shell.idx \notin raced
      PROVE  cdb[s] = Holds(shell.net, shell.idx, NoKey) /\ InUse(s)
  BY <1>1, <1>2, <1>e DEF IInv, CommandsPlace, PlaceUntouched, Holds, InUse
<1>f. CommandsPlace'
  <2>1. CASE shell.idx \in raced
    <3>1. PlaceRaced'
      BY <1>1, <1>2, <1>3, <1>7, <2>1 DEF IInv, CommandsPlace, PlaceRaced
    <3> QED
      BY <1>1, <1>3, <2>1, <3>1 DEF CommandsPlace
  <2>2. CASE shell.idx \notin raced
    <3>1. cdb'[s] = Holds(shell.net, shell.idx, shell.key)
      BY <1>5, <1>6, <1>e, <2>2 DEF Holds
    <3>2. PlaceUntouched'
      BY <1>3, <3>1 DEF PlaceUntouched
    <3> QED
      BY <1>1, <1>3, <2>2, <3>2 DEF CommandsPlace
  <2> QED
    BY <2>1, <2>2
<1>g. StackTyped'
  BY <1>1 DEF IInv, StackTidy, StackTyped
<1>h. CommandsKeys'
  BY <1>1, <1>3 DEF IInv, StackTidy, CommandsKeys, Known
<1>i. StackListed'
  <2> SUFFICES ASSUME NEW k \in stack, k \in Listed, k.idx \notin raced PROVE k \in Listed'
    BY <1>1 DEF IInv, StackTidy, StackListed
  <2>1. PICK t \in Slot : InUse(t) /\ k = cdb[t]
    BY DEF Listed
  <2>2. k.idx \in Idx /\ k.key \in Key
    BY DEF IInv, StackTidy, StackTyped
  <2>3. ASSUME t = s PROVE FALSE
    <3>1. CASE shell.idx \in raced
      BY <1>1, <2>1, <2>2, <2>3, <3>1, PlaceKnown, Basics
    <3>2. CASE shell.idx \notin raced
      BY <1>e, <2>1, <2>2, <2>3, <3>2, Basics DEF Holds
    <3> QED
      BY <3>1, <3>2
  <2> QED
    BY <1>5, <1>7, <2>1, <2>3 DEF Listed
<1>j. ListedInStack'
  BY <1>1, <1>3, <1>5, <1>7 DEF IInv, StackTidy, ListedInStack
<1> QED
  BY <1>a, <1>b, <1>c, <1>d, <1>f, <1>g, <1>h, <1>i, <1>j DEF Kept, PlacesTidy, StackTidy

LEMMA ShellStackAddsKeeps == ASSUME IInv, ShellStackAdds PROVE Kept'
<1> DEFINE new == Holds(shell.net, shell.idx, shell.key)
           s == shell.slot
<1>1. /\ shell.pc = "stack_add" /\ shell' = Idle /\ UNCHANGED <<cdb, raced, gone>>
      /\ stack' = stack \cup {new}
  BY DEF ShellStackAdds, NotAlone, CommandEnds
<1>2. /\ s \in Slot /\ shell.key \in Key /\ shell.idx \in Idx
      /\ shell.net \in NetOf(shell.idx) /\ shell.net \in NetIdx /\ shell.net # Unused
  BY <1>1, SlotFacts DEF IInv, CommandTyped
<1>3. /\ new \in [net : NetIdx, idx : Idx, key : Key]
      /\ new.net = shell.net /\ new.idx = shell.idx
  BY <1>2 DEF Holds
<1>4. ASSUME shell.idx \notin raced PROVE cdb[s] = new /\ InUse(s)
  BY <1>1, <1>2, <1>4 DEF IInv, CommandsPlace, PlaceUntouched, Holds, InUse
<1>5. InUse(s) => cdb[s].idx \in raced \cup {shell.idx}
  BY <1>1, <1>2, PlaceKnown DEF IInv, PlacesTidy, IndexMissing
<1> HIDE DEF new
<1>6. CommandTyped' /\ CommandsPlace' /\ CommandsKeys' /\ PlacesTidy'
  BY <1>1, CommandOver, PlacesStay
<1>7. StackTyped'
  BY <1>1, <1>2, <1>3 DEF IInv, StackTidy, StackTyped
<1>8. StackListed'
  <2>1. Listed' = Listed
    BY <1>1 DEF Listed, InUse
  <2>2. new.idx \in raced \/ new \in Listed
    BY <1>2, <1>3, <1>4 DEF Listed
  <2> QED
    BY <1>1, <2>1, <2>2 DEF IInv, StackTidy, StackListed
<1>9. ListedInStack'
  <2> SUFFICES ASSUME NEW t \in Slot, InUse(t)
               PROVE  \/ cdb[t].idx \in raced \/ cdb[t] \in stack'
                      \/ cdb[t].idx[1] = "app" /\ cdb[t].net \in gone
    BY <1>1 DEF ListedInStack, InUse
  <2>1. CASE t = s
    BY <1>1, <1>4, <1>5, <2>1
  <2>2. CASE t # s
    BY <1>1, <2>2 DEF IInv, StackTidy, ListedInStack
  <2> QED
    BY <2>1, <2>2
<1> QED
  BY <1>6, <1>7, <1>8, <1>9 DEF Kept, StackTidy

LEMMA ShellStackRefusesKeeps == ASSUME IInv, ShellStackRefuses PROVE Kept'
<1>1. shell.pc = "stack_add" /\ shell' = At("rollback") /\ UNCHANGED <<cdb, stack, raced, gone>>
  BY DEF ShellStackRefuses, NotAlone
<1>2. /\ shell'.pc = "rollback" /\ shell'.idx = shell.idx /\ shell'.net = shell.net
      /\ shell'.key = shell.key /\ shell'.slot = shell.slot
  BY <1>1, InvTypes DEF At, Types, ShellType
<1>3. StackTyped' /\ StackListed' /\ ListedInStack' /\ PlacesTidy'
  BY <1>1, <1>2, KeysStay
<1>4. CommandTyped'
  BY <1>1, <1>2 DEF IInv, CommandTyped, SlotsOf
<1>5. CommandsPlace'
  <2>1. CASE shell.idx \in raced
    <3>1. PlaceRaced'
      BY <1>1, <1>2, <2>1 DEF IInv, CommandsPlace, PlaceRaced, InUse
    <3> QED
      BY <1>1, <1>2, <2>1, <3>1 DEF CommandsPlace
  <2>2. CASE shell.idx \notin raced
    <3>1. PlaceUntouched'
      BY <1>1, <1>2, <2>2 DEF IInv, CommandsPlace, PlaceUntouched
    <3> QED
      BY <1>1, <1>2, <2>2, <3>1 DEF CommandsPlace
  <2> QED
    BY <2>1, <2>2
<1>6. CommandsKeys'
  BY <1>1, <1>2 DEF IInv, StackTidy, CommandsKeys, Known
<1> QED
  BY <1>3, <1>4, <1>5, <1>6 DEF Kept, StackTidy

(* A place is deleted: an application key's stays reserved until it is freed. *)
LEMMA ShellDeletesKeeps == ASSUME IInv, ShellDeletes PROVE Kept'
<1>0. shell.pc \in {"rollback", "delete"}
  BY DEF ShellDeletes
<1> PICK s \in Slot, i \in Idx : s = shell.slot /\ i = shell.idx
  BY <1>0, SlotFacts
<1> DEFINE new == Deleted(s)
<1>1. /\ shell.pc \in {"rollback", "delete"} /\ UNCHANGED <<stack, raced, gone>>
      /\ cdb' = [cdb EXCEPT ![s] = new]
  BY DEF ShellDeletes, NotAlone
<1>2. /\ s \in Slot /\ s \in SlotsOf(i) /\ s[1] = i[1] /\ i \in Idx
      /\ shell.net \in NetOf(i) /\ shell.net # Unused
  BY <1>1, SlotFacts DEF IInv, CommandTyped, SlotsOf
<1>3. /\ shell'.pc \in {"undone", "free", "idle", "stack_del"}
      /\ shell'.pc # "idle" => shell' = At(shell'.pc)
      /\ shell'.pc \in {"undone", "free"} <=> i[1] = "app"
      /\ shell'.pc \in {"free", "stack_del"} <=> shell.pc = "delete"
  BY <1>1, InvTypes DEF ShellDeletes, At, Idle, Working, Types, ShellType
<1>4. shell'.pc # "idle" =>
         /\ shell'.idx = i /\ shell'.net = shell.net /\ shell'.slot = s
  BY <1>3, InvTypes DEF At, Types, ShellType
<1>5. shell'.pc = "idle" => shell' = Idle
  BY <1>1, InvTypes DEF ShellDeletes, At, Types, ShellType
<1>6. /\ i[1] = "net" => new = Empty
      /\ i[1] # "net" => new = Holds(Primary, cdb[s].idx, NoKey)
  BY <1>2 DEF Deleted
<1>7. /\ i[1] = "net" => new.net = Unused
      /\ i[1] # "net" => new.net = Primary /\ new.idx = cdb[s].idx /\ new.key = NoKey
  BY <1>6 DEF Holds, Empty
<1>8. cdb'[s] = new /\ \A t \in Slot : t # s => cdb'[t] = cdb[t]
  BY <1>1, <1>2, InvTypes DEF Types
<1> HIDE DEF new
<1>9. /\ InUse(s)' <=> i[1] # "net"
      /\ \A t \in Slot : t # s => InUse(t)' = InUse(t)
  BY <1>7, <1>8, Basics DEF InUse
<1>10. i[1] = "net" \/ i[1] = "app"
  BY <1>2, IdxFacts
<1>12. \A t \in Slot : InUse(t) => cdb[t].idx # NoIdx /\ cdb[t].key # NoKey
  BY <1>1 DEF IInv, PlacesTidy, IndexMissing, KeyMissing
<1>13. ~InUse(s) => cdb[s].idx = NoIdx
  BY <1>2 DEF IInv, PlacesTidy, FreeIsEmpty, Empty, Holds
<1>14. ASSUME i \notin raced PROVE cdb[s].idx = i /\ InUse(s)
  <2>1. PlaceUntouched
    BY <1>14 DEF IInv, CommandsPlace
  <2>2. cdb[s].idx = i /\ cdb[s].net = shell.net
    BY <1>1, <2>1 DEF PlaceUntouched, Holds
  <2> QED
    BY <1>2, <2>2 DEF InUse
<1>15. InUse(s) => cdb[s].idx \in raced \cup {i}
  BY <1>1, <1>2, <1>12, PlaceKnown
<1>a. CommandTyped'
  <2>1. CASE shell'.pc = "idle"
    BY <1>5, <2>1, CommandOver
  <2>2. CASE shell'.pc # "idle"
    BY <1>2, <1>3, <1>4, <1>10, <2>2 DEF CommandTyped
  <2> QED
    BY <2>1, <2>2
<1>b. FreeIsEmpty'
  BY <1>6, <1>8, <1>9 DEF IInv, PlacesTidy, FreeIsEmpty
<1>c. IndexFits'
  <2> SUFFICES ASSUME i[1] = "app", cdb[s].idx \in Idx
               PROVE  s \in SlotsOf(cdb[s].idx) /\ Primary \in NetOf(cdb[s].idx)
    BY <1>7, <1>8, <1>9, <1>10 DEF IInv, PlacesTidy, IndexFits
  <2>1. InUse(s)
    BY <1>13, Basics
  <2>2. s \in SlotsOf(cdb[s].idx)
    BY <1>2, <2>1 DEF IInv, PlacesTidy, IndexFits
  <2>3. cdb[s].idx[1] = "app"
    BY <1>2, <2>2 DEF SlotsOf
  <2> QED
    BY <2>2, <2>3, Basics DEF NetOf
<1>d. OneEach'
  <2>1. ASSUME NEW t \in Slot, t # s, InUse(t), cdb[t].idx = cdb[s].idx PROVE FALSE
    BY <1>2, <1>12, <1>13, <2>1 DEF IInv, PlacesTidy, OneEach
  <2> QED
    BY <1>7, <1>8, <1>9, <2>1 DEF IInv, PlacesTidy, OneEach
<1>e. IndexMissing' /\ KeyMissing'
  BY <1>3, <1>4, <1>8, <1>9, <1>10, <1>12 DEF IndexMissing, KeyMissing
<1>f. CommandsPlace'
  <2>1. CASE shell'.pc = "idle"
    BY <1>5, <2>1, CommandOver
  <2>2. CASE shell'.pc # "idle" /\ i \in raced
    <3>1. PlaceRaced'
      BY <1>1, <1>3, <1>4, <1>7, <1>8, <1>9, <1>13, <1>15, <2>2 DEF PlaceRaced
    <3> QED
      BY <1>1, <1>4, <2>2, <3>1 DEF CommandsPlace
  <2>3. CASE shell'.pc # "idle" /\ i \notin raced
    <3>1. shell'.pc \in {"undone", "free"} => cdb'[s] = Holds(Primary, i, NoKey)
      BY <1>3, <1>6, <1>8, <1>10, <1>14, <2>3
    <3>2. ASSUME shell'.pc = "stack_del" PROVE Found(i)' = {}
      <4>1. i[1] = "net"
        BY <1>3, <1>10, <3>2
      <4>2. \A t \in Slot : t # s /\ InUse(t) => cdb[t].idx # i
        BY <1>2, <1>14, <2>3 DEF IInv, PlacesTidy, OneEach
      <4> QED
        BY <1>4, <1>8, <1>9, <2>3, <4>1, <4>2 DEF Found, SlotsOf
    <3>3. PlaceUntouched'
      BY <1>3, <1>4, <2>3, <3>1, <3>2 DEF PlaceUntouched
    <3> QED
      BY <1>1, <1>4, <2>3, <3>3 DEF CommandsPlace
  <2> QED
    BY <2>1, <2>2, <2>3
<1>g. StackTyped'
  BY <1>1 DEF IInv, StackTidy, StackTyped
(* The stack's key with the index of the command is the listed one. *)
<1>h. ASSUME i \notin raced, NEW k \in stack, k.idx = i, shell.pc = "delete"
      PROVE  k.net = shell.net
  <2>1. PICK t \in Slot : InUse(t) /\ k = cdb[t]
    BY <1>h DEF IInv, StackTidy, StackListed, Listed
  <2>2. t = s
    BY <1>2, <1>14, <1>h, <2>1 DEF IInv, PlacesTidy, OneEach
  <2> QED
    BY <1>h, <2>1, <2>2 DEF IInv, CommandsPlace, PlaceUntouched
<1>i. CommandsKeys'
  <2>1. CASE shell'.pc = "idle"
    BY <1>5, <2>1, CommandOver
  <2>2. CASE shell'.pc # "idle"
    <3>1. Known(i)' = Known(i)
      BY <1>1 DEF Known
    <3>2. shell.pc = "rollback" /\ i \notin raced => Known(i) = {}
      BY DEF IInv, StackTidy, CommandsKeys
    <3>3. shell.pc = "delete" /\ i \notin raced => \A k \in Known(i) : k.net = shell.net
      BY <1>h DEF Known
    <3> QED
      BY <1>1, <1>3, <1>4, <2>2, <3>1, <3>2, <3>3 DEF CommandsKeys, Known
  <2> QED
    BY <2>1, <2>2
<1>j. StackListed'
  <2> SUFFICES ASSUME NEW k \in stack, k.idx \notin raced
               PROVE  \/ k \in Listed'
                      \/ shell'.pc \in {"free", "stack_del"} /\ k.idx = shell'.idx
    BY <1>1 DEF StackListed
  <2>1. PICK t \in Slot : InUse(t) /\ k = cdb[t]
    BY <1>1 DEF IInv, StackTidy, StackListed, Listed
  <2>2. CASE t # s
    BY <1>8, <1>9, <2>1, <2>2 DEF Listed
  <2>3. CASE t = s
    <3>1. k.idx = i
      BY <1>15, <2>1, <2>3
    <3>2. shell.pc # "rollback"
      BY <3>1 DEF IInv, StackTidy, CommandsKeys, Known
    <3> QED
      BY <1>1, <1>3, <1>4, <3>1, <3>2
  <2> QED
    BY <2>2, <2>3
<1>k. ListedInStack'
  <2> SUFFICES ASSUME NEW t \in Slot, InUse(t)'
               PROVE  \/ cdb'[t].idx \in raced \/ cdb'[t] \in stack
                      \/ cdb'[t].idx[1] = "app" /\ cdb'[t].net \in gone
                      \/ t = shell'.slot /\ shell'.pc \in {"undone", "free"}
    BY <1>1 DEF ListedInStack
  <2>1. CASE t = s
    BY <1>3, <1>4, <1>9, <1>10, <2>1
  <2>2. CASE t # s
    BY <1>8, <1>9, <2>2 DEF IInv, StackTidy, ListedInStack
  <2> QED
    BY <2>1, <2>2
<1> QED
  BY <1>a, <1>b, <1>c, <1>d, <1>e, <1>f, <1>g, <1>i, <1>j, <1>k DEF Kept, PlacesTidy, StackTidy

LEMMA ShellFreesKeeps == ASSUME IInv, ShellFrees PROVE Kept'
<1>0. shell.pc \in {"undone", "free"}
  BY DEF ShellFrees
<1> PICK s \in Slot, i \in Idx : s = shell.slot /\ i = shell.idx
  BY <1>0, SlotFacts
<1>1. /\ shell.pc \in {"undone", "free"} /\ UNCHANGED <<stack, raced, gone>>
      /\ cdb' = [cdb EXCEPT ![s] = Empty]
  BY DEF ShellFrees, NotAlone
<1>2. s \in Slot /\ s \in SlotsOf(i) /\ i \in Idx /\ shell.net \in NetOf(i)
  BY <1>1, SlotFacts DEF IInv, CommandTyped
<1>3. /\ shell.pc = "undone" => shell' = Idle
      /\ shell.pc = "free" =>
           /\ shell'.pc = "stack_del" /\ shell'.idx = i
           /\ shell'.net = shell.net /\ shell'.slot = s
  BY <1>1, InvTypes DEF ShellFrees, At, Types, ShellType
<1>4. cdb'[s] = Empty /\ \A t \in Slot : t # s => cdb'[t] = cdb[t]
  BY <1>1, <1>2, InvTypes DEF Types
<1>5. ~InUse(s)' /\ \A t \in Slot : t # s => InUse(t)' = InUse(t)
  BY <1>4 DEF InUse, Empty, Holds
<1>6. ASSUME i \notin raced PROVE cdb[s] = Holds(Primary, i, NoKey) /\ InUse(s)
  BY <1>1, <1>6, Basics DEF IInv, CommandsPlace, PlaceUntouched, InUse, Holds
<1>7. shell.pc = "undone" => CommandTyped' /\ CommandsPlace' /\ CommandsKeys'
  BY <1>3, CommandOver
<1>a. CommandTyped'
  BY <1>1, <1>2, <1>3, <1>7 DEF CommandTyped
<1>b. FreeIsEmpty' /\ IndexFits' /\ OneEach'
  BY <1>4, <1>5 DEF IInv, PlacesTidy, FreeIsEmpty, IndexFits, OneEach
<1>c. IndexMissing' /\ KeyMissing'
  BY <1>4, <1>5 DEF IInv, PlacesTidy, IndexMissing, KeyMissing
<1>d. CommandsPlace'
  <2> SUFFICES ASSUME shell.pc = "free" PROVE CommandsPlace'
    BY <1>1, <1>7
  <2>1. PlaceRaced'
    BY <1>3 DEF PlaceRaced
  <2>2. ASSUME i \notin raced PROVE PlaceUntouched'
    <3>1. \A t \in Slot : t # s /\ InUse(t) => cdb[t].idx # i
      BY <1>2, <1>6, <2>2 DEF IInv, PlacesTidy, OneEach, Holds
    <3>2. Found(i)' = {}
      BY <1>3, <1>4, <1>5, <3>1 DEF Found, SlotsOf
    <3> QED
      BY <1>3, <3>2 DEF PlaceUntouched
  <2> QED
    BY <1>1, <1>3, <2>1, <2>2 DEF CommandsPlace
<1>e. StackTyped'
  BY <1>1 DEF IInv, StackTidy, StackTyped
<1>f. CommandsKeys'
  BY <1>1, <1>3, <1>7 DEF IInv, StackTidy, CommandsKeys, Known
<1>g. StackListed'
  <2> SUFFICES ASSUME NEW k \in stack, k.idx \notin raced, k \in Listed PROVE k \in Listed'
    BY <1>1, <1>3 DEF IInv, StackTidy, StackListed
  <2>1. PICK t \in Slot : InUse(t) /\ k = cdb[t]
    BY DEF Listed
  <2>2. k.idx \in Idx /\ k.key \in Key
    BY DEF IInv, StackTidy, StackTyped
  <2>3. ASSUME t = s PROVE FALSE
    <3>1. CASE i \in raced
      BY <1>1, <2>1, <2>2, <2>3, <3>1, PlaceKnown, Basics
    <3>2. CASE i \notin raced
      BY <1>6, <2>1, <2>2, <2>3, <3>2, Basics DEF Holds
    <3> QED
      BY <3>1, <3>2
  <2> QED
    BY <1>4, <1>5, <2>1, <2>3 DEF Listed
<1>h. ListedInStack'
  BY <1>1, <1>4, <1>5 DEF IInv, StackTidy, ListedInStack
<1> QED
  BY <1>a, <1>b, <1>c, <1>d, <1>e, <1>f, <1>g, <1>h DEF Kept, PlacesTidy, StackTidy

LEMMA ShellRemoveKeeps == ASSUME IInv, NEW i \in Idx, ShellRemove(i) PROVE Kept'
<1>1. shell.pc = "idle" /\ cdb' = cdb /\ stack' = stack /\ raced' = raced /\ gone' = gone
  BY DEF ShellRemove
<1>2. PICK s \in Found(i) : shell' = Working("delete", cdb[s].net, i, NoKey, s)
  BY DEF ShellRemove
<1>3. s \in Slot /\ InUse(s) /\ cdb[s].idx = i
  BY FoundFacts DEF IInv
<1>4. s \in SlotsOf(i) /\ cdb[s].net \in NetOf(i)
  BY <1>3 DEF IInv, PlacesTidy, IndexFits
<1>5. shell'.pc = "delete" /\ shell'.idx = i /\ shell'.net = cdb[s].net /\ shell'.slot = s
  BY <1>2 DEF Working
<1>6. StackTyped' /\ StackListed' /\ ListedInStack' /\ PlacesTidy'
  BY <1>1, KeysStay
<1>7. CommandTyped'
  BY <1>4, <1>5 DEF CommandTyped, SlotsOf
<1>8. CommandsPlace'
  <2>1. PlaceUntouched'
    BY <1>1, <1>3, <1>5 DEF PlaceUntouched
  <2>2. i \in raced => PlaceRaced'
    BY <1>1, <1>3, <1>5 DEF PlaceRaced, InUse
  <2> QED
    BY <1>1, <1>5, <2>1, <2>2 DEF CommandsPlace
<1>9. CommandsKeys'
  BY <1>5 DEF CommandsKeys
<1> QED
  BY <1>6, <1>7, <1>8, <1>9 DEF Kept, StackTidy

LEMMA ShellStackDeletesKeeps == ASSUME IInv, ShellStackDeletes PROVE Kept'
<1> DEFINE i == shell.idx
           net == shell.net
<1>1. /\ shell.pc = "stack_del" /\ shell' = Idle /\ cdb' = cdb /\ raced' = raced
      /\ stack' = StackWithout(net, i) /\ Forget(net, i)
  BY DEF ShellStackDeletes, NotAlone, CommandEnds
<1>2. i \in Idx /\ net \in NetOf(i)
  BY <1>1 DEF IInv, CommandTyped
<1>3. /\ stack' \subseteq stack
      /\ \A k \in stack' : ~(k.idx = i /\ k.net = net)
      /\ \A k \in stack \ stack' : k.idx = i \/ (i[1] = "net" /\ k.net = net)
  BY <1>1 DEF StackWithout
<1>4. gone \subseteq gone' /\ (i[1] = "net" => net \in gone')
  BY <1>1 DEF Forget
<1>5. i[1] = "net" => i = <<"net", net>>
  BY <1>2, IdxFacts DEF NetOf
<1>6. CommandTyped' /\ CommandsPlace' /\ CommandsKeys' /\ PlacesTidy'
  BY <1>1, CommandOver, PlacesStay
<1>7. StackTyped'
  BY <1>3 DEF IInv, StackTidy, StackTyped
<1>8. StackListed'
  <2>1. Listed' = Listed
    BY <1>1 DEF Listed, InUse
  <2>2. \A k \in stack : k.idx = i => k.idx \in raced \/ k.net = net
    BY <1>1 DEF IInv, StackTidy, CommandsKeys, Known
  <2> QED
    BY <1>1, <1>3, <2>1, <2>2 DEF IInv, StackTidy, StackListed
<1>9. ListedInStack'
  <2> SUFFICES ASSUME NEW t \in Slot, InUse(t), cdb[t] \in stack \ stack', cdb[t].idx \notin raced
               PROVE  cdb[t].idx[1] = "app" /\ cdb[t].net \in gone'
    BY <1>1, <1>4 DEF IInv, StackTidy, ListedInStack, InUse
  <2>1. cdb[t].idx \in Idx /\ cdb[t].net \in NetOf(cdb[t].idx)
    BY DEF IInv, StackTidy, StackTyped
  <2>2. cdb[t].idx # i
    <3>1. ASSUME cdb[t].idx = i PROVE FALSE
      <4>1. Found(i) = {}
        BY <1>1, <3>1 DEF IInv, CommandsPlace, PlaceUntouched
      <4> QED
        BY <1>2, <3>1, <4>1, FoundInUse
    <3> QED
      BY <3>1
  <2>3. i[1] = "net" /\ cdb[t].net = net
    BY <1>3, <2>2
  <2>4. cdb[t].idx[1] # "net"
    BY <1>5, <2>1, <2>2, <2>3, IdxFacts DEF NetOf
  <2> QED
    BY <1>4, <2>1, <2>3, <2>4, IdxFacts
<1> QED
  BY <1>6, <1>7, <1>8, <1>9 DEF Kept, StackTidy

LEMMA ShellKeeps == ASSUME IInv, ShellKeys PROVE Kept'
BY ShellRemoveKeeps, ShellAddKeeps, ShellAllocFailsKeeps, ShellAllocsKeeps, ShellWritesKeeps,
   ShellStackAddsKeeps, ShellStackRefusesKeeps, ShellDeletesKeeps, ShellFreesKeeps,
   ShellStackDeletesKeeps
   DEF ShellKeys

-----------------------------------------------------------------------------
LEMMA InvInit == KeyInit => IInv
<1> SUFFICES ASSUME KeyInit PROVE IInv
  OBVIOUS
<1>1. KeyTypeOK
  BY TypeInit
<1>2. /\ shell.pc = "idle" /\ shell.idx = NoIdx
      /\ cdb = [s \in Slot |-> IF s = FirstSlot THEN PrimaryEntry ELSE Empty]
      /\ stack = {PrimaryEntry} /\ raced = {} /\ gone = {}
  BY DEF KeyInit, Idle, Working
<1>3. /\ PrimaryEntry.net = Primary /\ PrimaryEntry.idx = <<"net", Primary>>
      /\ PrimaryEntry.key = PrimaryKey
  BY DEF PrimaryEntry, Holds
<1>4. /\ <<"net", Primary>> \in Idx /\ <<"net", Primary>> # NoIdx
      /\ NetOf(<<"net", Primary>>) = {Primary} /\ FirstSlot \in SlotsOf(<<"net", Primary>>)
  BY Basics, FirstSlotIsSlot DEF Idx, NetOf, SlotsOf
<1>5. \A s \in Slot : InUse(s) <=> s = FirstSlot
  BY <1>2, <1>3, Basics DEF InUse, Empty, Holds
<1>6. cdb[FirstSlot] = PrimaryEntry
  BY <1>2, FirstSlotIsSlot
<1>7. CommandTyped /\ CommandsPlace /\ CommandsKeys
  BY <1>2 DEF CommandTyped, CommandsPlace, PlaceUntouched, PlaceRaced, CommandsKeys
<1>8. PlacesTidy
  BY <1>2, <1>3, <1>4, <1>5, <1>6, Basics
     DEF PlacesTidy, FreeIsEmpty, IndexFits, OneEach, IndexMissing, KeyMissing
<1>9. StackTyped
  BY <1>2, <1>3, <1>4, Basics DEF StackTyped, PrimaryEntry, Holds
<1>10. StackListed /\ ListedInStack
  BY <1>2, <1>5, <1>6, FirstSlotIsSlot DEF StackListed, ListedInStack, Listed
<1> QED
  BY <1>1, <1>7, <1>8, <1>9, <1>10 DEF IInv, StackTidy

LEMMA InvNext == IInv /\ [KeyNext]_keyVars => IInv'
<1> SUFFICES ASSUME IInv, [KeyNext]_keyVars PROVE IInv'
  OBVIOUS
<1>1. KeyTypeOK'
  BY TypeNext DEF IInv
<1>2. Kept'
  <2>1. CASE GatewayKeys
    BY <2>1, GatewayKeeps
  <2>2. CASE ShellKeys
    BY <2>2, ShellKeeps
  <2>3. CASE UNCHANGED keyVars
    BY <2>3 DEF keyVars, IInv, Kept, CommandTyped, CommandsPlace, PlaceUntouched, PlaceRaced,
       PlacesTidy, FreeIsEmpty, IndexFits, OneEach, IndexMissing, KeyMissing, StackTidy,
       StackTyped, CommandsKeys, Known, StackListed, ListedInStack, Listed, Found, InUse
  <2> QED
    BY <2>1, <2>2, <2>3 DEF KeyNext
<1> QED
  BY <1>1, <1>2 DEF IInv, Kept

LEMMA InvAgree == IInv => KeysAgree /\ SlotsNotLost
<1> SUFFICES ASSUME IInv PROVE KeysAgree /\ SlotsNotLost
  OBVIOUS
<1>1. KeysAgree
  BY DEF IInv, StackTidy, StackListed, ListedInStack, KeysAgree, Listed
<1>2. SlotsNotLost
  BY DEF IInv, PlacesTidy, KeyMissing, SlotsNotLost
<1> QED
  BY <1>1, <1>2

LEMMA InvAlways == KeySpec => []IInv
<1> QED
  BY InvInit, InvNext, PTL DEF KeySpec

(* AlwaysAgree: between two commands of the shell, database and stack hold the same  *)
(* keys, but for those that the two threads changed at the same time and the       *)
(* application keys of deleted networks: whatever the keys, the indices and the    *)
(* size of the database, and in whatever order the two threads proceed.            *)
THEOREM AlwaysAgree == KeySpec => []KeysAgree
<1> QED
  BY InvAlways, InvAgree, PTL

(* NoSlotLost: no addition that fails, and no removal, leaves a place reserved.    *)
THEOREM NoSlotLost == KeySpec => []SlotsNotLost
<1> QED
  BY InvAlways, InvAgree, PTL

=============================================================================
