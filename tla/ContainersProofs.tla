-------------------------- MODULE ContainersProofs --------------------------
(***************************************************************************)
(* CgSlots, PidNs and Paths for any number of processes, slots, frames,    *)
(* namespaces, names and binds.  A control group's slot is handed over     *)
(* whole: the invariant says what protects a slot that is changing hands.  *)
(* A pid names one task of its namespace and is known or among the last    *)
(* reaped; a path resolves inside the root of the process, whatever it     *)
(* binds and wherever it goes.                                             *)
(***************************************************************************)
EXTENDS MCContainers, FiniteSetTheorems, SequenceTheorems, NaturalsInduction, WellFoundedInduction,
        TLAPS

----------------------------------------------------------------------------
(* CgSlots *)

GroupType == [parent : Slots, used : BOOLEAN, reserved : BOOLEAN]

Places == {"user", "check", "giveBack", "reset", "install", "push", "limit", "fork"}

CgType ==
    /\ state \in [Procs -> {"Unborn", "Live", "Zombie", "Reaped"}]
    /\ cg \in [Procs -> Slots]
    /\ groups \in Seq(GroupType)
    /\ Len(groups) \in 1 .. MaxCg
    /\ held \in [Procs -> [Ids -> Nat]]
    /\ acct \subseteq Slots
    /\ pc \in [Procs -> Places]
    /\ id \in [Procs -> Slots \cup {NoId}]
    /\ child \in [Procs -> Procs \cup {NoPid}]
    /\ promised \in [Procs -> SUBSET Slots]

\* Only a live process is in the kernel; fork has its child, a creator its slot.
InKernel ==
    \A p \in Procs : /\ pc[p] # "user" => state[p] = "Live"
                     /\ pc[p] = "fork" => child[p] \in Procs
                     /\ Creating(p) \/ pc[p] = "limit" => id[p] \in Slots

\* A creator's slot is reserved, and nobody else's.
OwnSlot ==
    /\ \A p \in Procs : Creating(p) => groups[id[p]].reserved
    /\ \A p, q \in Procs : Creating(p) /\ Creating(q) /\ id[p] = id[q] => p = q

\* A reserved slot was entered and left, and is some creator's.
ReservedSlots ==
    \A g \in Slots : groups[g].reserved =>
      /\ groups[g].used /\ Members(g) = {}
      /\ \E p \in Procs : Creating(p) /\ id[p] = g

\* A slot given away and not entered since is nobody's group and one creator's.
PromisedSlots ==
    /\ \A p \in Procs : \A g \in promised[p] :
         ~groups[g].used /\ ~groups[g].reserved /\ Members(g) = {} /\ Unused(g)
    /\ \A p, q \in Procs : p # q => promised[p] \cap promised[q] = {}

\* What was looked at before the handover stays so: nobody in the slot charges it.
CleanSlots ==
    /\ \A p \in Procs : pc[p] \in {"reset", "install"} => Unused(id[p])
    /\ \A p \in Procs : pc[p] = "install" => id[p] \notin acct
    /\ \A g \in Ids \ Slots : Unused(g)

CgInv == CgType /\ InKernel /\ OwnSlot /\ ReservedSlots /\ PromisedSlots /\ CleanSlots

LEMMA CgInit == Init => CgInv
<1> SUFFICES ASSUME Init PROVE CgInv
  OBVIOUS
<1> USE CgAssumption
<1> DEFINE top == [parent |-> RootCg, used |-> FALSE, reserved |-> FALSE]
<1>1. groups = <<top>> /\ Slots = {1} /\ Len(groups) = 1 /\ groups[1] = top
  BY DEF Init, Slots
<1>2. groups \in Seq(GroupType)
  BY <1>1 DEF GroupType, RootCg
<1>3. CgType
  BY <1>1, <1>2 DEF Init, CgType, RootCg, Ids, Places
<1>4. InKernel /\ OwnSlot
  BY DEF Init, InKernel, OwnSlot, Creating
<1>5. ReservedSlots /\ PromisedSlots
  BY <1>1 DEF Init, ReservedSlots, PromisedSlots
<1>6. CleanSlots
  BY DEF Init, CleanSlots, Unused
<1>7. QED
  BY <1>3, <1>4, <1>5, <1>6 DEF CgInv

----------------------------------------------------------------------------
(* The table of groups *)

LEMMA SlotFacts ==
    ASSUME CgType
    PROVE  /\ Slots = 1 .. Len(groups) /\ Len(groups) \in Nat /\ Slots \subseteq Ids
           /\ \A g \in Slots : groups[g] \in GroupType
BY CgAssumption DEF CgType, Slots, Ids

\* One entry changes.
LEMMA EntryChanged ==
    ASSUME CgType, NEW g \in Slots, NEW r \in GroupType, groups' = [groups EXCEPT ![g] = r]
    PROVE  /\ Slots' = Slots /\ GroupType' = GroupType /\ Len(groups') = Len(groups)
           /\ groups' \in Seq(GroupType)
           /\ groups'[g] = r /\ \A o \in Slots \ {g} : groups'[o] = groups[o]
<1>1. groups \in Seq(GroupType)
  BY DEF CgType
<1>2. /\ groups' \in Seq(GroupType) /\ Len(groups') = Len(groups)
      /\ groups'[g] = r /\ \A o \in Slots \ {g} : groups'[o] = groups[o]
  BY <1>1 DEF Slots
<1>3. Slots' = Slots
  BY <1>1, <1>2 DEF Slots
<1>4. QED
  BY <1>2, <1>3 DEF GroupType

\* One entry more.
LEMMA EntryAdded ==
    ASSUME CgType, NEW r \in GroupType, groups' = Append(groups, r)
    PROVE  /\ Slots' = Slots \cup {Len(groups) + 1} /\ Len(groups) + 1 \notin Slots
           /\ groups' \in Seq(GroupType') /\ Len(groups') = Len(groups) + 1
           /\ groups'[Len(groups) + 1] = r /\ \A o \in Slots : groups'[o] = groups[o]
<1>1. groups \in Seq(GroupType) /\ Slots = 1 .. Len(groups) /\ Len(groups) \in Nat
  BY SlotFacts DEF CgType
<1>2. /\ groups' \in Seq(GroupType) /\ Len(groups') = Len(groups) + 1
      /\ groups'[Len(groups) + 1] = r /\ \A o \in Slots : groups'[o] = groups[o]
  BY <1>1
<1>3. Slots' = 1 .. Len(groups) + 1
  BY <1>2 DEF Slots
<1>4. Slots' = Slots \cup {Len(groups) + 1} /\ Len(groups) + 1 \notin Slots
  BY <1>1, <1>3
<1>5. GroupType \subseteq GroupType'
  BY <1>4 DEF GroupType
<1>6. groups' \in Seq(GroupType')
  BY <1>2, <1>5
<1>7. QED
  BY <1>2, <1>4, <1>6

LEMMA MembersKept ==
    ASSUME TableKept
    PROVE  \A g : Members(g)' = Members(g)
BY DEF TableKept, Members, InTable

LEMMA UnusedKept ==
    ASSUME UNCHANGED held
    PROVE  \A g : Unused(g)' = Unused(g)
BY DEF Unused

\* Whoever charges a slot is in it, so it is neither reserved nor promised.
LEMMA MemberOfGroup ==
    ASSUME CgInv, NEW p \in Procs, state[p] \in {"Live", "Zombie"}
    PROVE  /\ cg[p] \in Slots /\ cg[p] \in Ids /\ ~groups[cg[p]].reserved
           /\ \A q \in Procs : /\ cg[p] \notin promised[q]
                               /\ Creating(q) => id[q] # cg[p]
<1>1. cg[p] \in Slots /\ p \in Members(cg[p])
  BY DEF CgInv, CgType, Members, InTable
<1>2. cg[p] \in Ids
  BY <1>1, SlotFacts DEF CgInv
<1>3. ~groups[cg[p]].reserved
  BY <1>1 DEF CgInv, ReservedSlots
<1>4. \A q \in Procs : cg[p] \notin promised[q]
  BY <1>1 DEF CgInv, PromisedSlots
<1>5. \A q \in Procs : Creating(q) => id[q] # cg[p]
  BY <1>3 DEF CgInv, OwnSlot
<1>6. QED
  BY <1>1, <1>2, <1>3, <1>4, <1>5

----------------------------------------------------------------------------
(* cgcreate keeps the invariant *)

LEMMA ReserveStep ==
    ASSUME CgInv, NEW p \in Procs, NEW l \in Limits, Reserve(p, l)
    PROVE  CgInv'
<1>0. CgType /\ InKernel /\ OwnSlot /\ ReservedSlots /\ PromisedSlots /\ CleanSlots
  BY DEF CgInv
<1>1. /\ state[p] = "Live" /\ pc[p] = "user"
      /\ UNCHANGED <<state, cg, held, lim, acct, child, promised>>
  BY DEF Reserve, Starts, TableKept, FramesKept
<1>2. (\A g : Members(g)' = Members(g)) /\ \A g : Unused(g)' = Unused(g)
  BY <1>1, MembersKept, UnusedKept DEF TableKept
<1>3. CASE Emptied = {}
  <2>1. UNCHANGED <<groups, id>> /\ pc' = [pc EXCEPT ![p] = "push"]
    BY <1>3 DEF Reserve, Goto
  <2>2. Slots' = Slots /\ GroupType' = GroupType
    BY <2>1 DEF Slots, GroupType
  <2>3. \A q \in Procs : /\ Creating(q)' <=> Creating(q)
                         /\ pc'[q] = "push" \/ pc'[q] = pc[q]
    BY <1>0, <1>1, <2>1 DEF Creating, CgType
  <2>4. CgType'
    BY <1>0, <1>1, <2>1, <2>2 DEF CgType, Places, Ids
  <2>5. InKernel'
    BY <1>0, <1>1, <2>1, <2>2, <2>3 DEF InKernel, CgType, Creating
  <2>6. OwnSlot' /\ ReservedSlots'
    BY <1>0, <1>2, <2>1, <2>2, <2>3 DEF OwnSlot, ReservedSlots
  <2>7. PromisedSlots' /\ CleanSlots'
    BY <1>0, <1>1, <1>2, <2>1, <2>2, <2>3 DEF PromisedSlots, CleanSlots, Ids
  <2>8. QED
    BY <2>4, <2>5, <2>6, <2>7 DEF CgInv
<1>4. CASE Emptied # {}
  <2>1. PICK g \in Emptied :
          /\ pc' = [pc EXCEPT ![p] = "check"] /\ id' = [id EXCEPT ![p] = g]
          /\ groups' = [groups EXCEPT ![g].reserved = TRUE]
    BY <1>4 DEF Reserve, Goto
  <2>2. /\ g \in Slots /\ groups[g].used /\ ~groups[g].reserved /\ Members(g) = {}
        /\ groups[g] \in GroupType
    BY <1>0, SlotFacts DEF Emptied, Reusable
  <2> DEFINE r == [groups[g] EXCEPT !.reserved = TRUE]
  <2>3. r \in GroupType /\ r.reserved /\ r.used = groups[g].used
    BY <2>2 DEF GroupType
  <2>4. /\ Slots' = Slots /\ GroupType' = GroupType /\ Len(groups') = Len(groups)
        /\ groups' \in Seq(GroupType)
        /\ groups'[g] = r /\ \A o \in Slots \ {g} : groups'[o] = groups[o]
    BY <1>0, <2>1, <2>2, <2>3, EntryChanged
  <2>5. /\ pc'[p] = "check" /\ id'[p] = g
        /\ \A q \in Procs \ {p} : pc'[q] = pc[q] /\ id'[q] = id[q]
    BY <1>0, <2>1 DEF CgType
  <2>6. /\ Creating(p)' /\ \A q \in Procs \ {p} : Creating(q)' <=> Creating(q)
    BY <2>5 DEF Creating
  <2>7. \A q \in Procs : Creating(q) => id[q] # g
    BY <1>0, <2>2 DEF OwnSlot
  <2>8. CgType'
    BY <1>0, <1>1, <2>1, <2>2, <2>4 DEF CgType, Places, Ids
  <2>9. InKernel'
    BY <1>0, <1>1, <2>2, <2>4, <2>5, <2>6 DEF InKernel
  <2>10. OwnSlot'
    <3>1. ASSUME NEW q \in Procs, Creating(q)'
          PROVE  groups'[id'[q]].reserved
      <4>1. CASE q = p
        BY <2>3, <2>4, <2>5, <4>1
      <4>2. CASE q # p
        <5>1. Creating(q) /\ id'[q] = id[q] /\ id[q] \in Slots \ {g} /\ groups[id[q]].reserved
          BY <1>0, <2>5, <2>6, <2>7, <3>1, <4>2 DEF OwnSlot, InKernel
        <5>2. QED
          BY <2>4, <5>1
      <4>3. QED
        BY <4>1, <4>2
    <3>2. ASSUME NEW q \in Procs, NEW o \in Procs, Creating(q)', Creating(o)', id'[q] = id'[o]
          PROVE  q = o
      BY <1>0, <2>5, <2>6, <2>7, <3>2 DEF OwnSlot
    <3>3. QED
      BY <3>1, <3>2 DEF OwnSlot
  <2>11. ReservedSlots'
    <3>1. ASSUME NEW o \in Slots, groups'[o].reserved
          PROVE  /\ groups'[o].used /\ Members(o)' = {}
                 /\ \E q \in Procs : Creating(q)' /\ id'[q] = o
      <4>1. CASE o = g
        BY <1>2, <2>2, <2>3, <2>4, <2>5, <2>6, <4>1
      <4>2. CASE o # g
        <5>1. groups'[o] = groups[o] /\ groups[o].reserved
          BY <2>4, <3>1, <4>2
        <5>2. PICK q \in Procs : Creating(q) /\ id[q] = o
          BY <1>0, <5>1 DEF ReservedSlots
        <5>3. q # p
          BY <1>1, <5>2 DEF Creating
        <5>4. QED
          BY <1>0, <1>2, <2>5, <2>6, <5>1, <5>2, <5>3 DEF ReservedSlots
      <4>3. QED
        BY <4>1, <4>2
    <3>2. QED
      BY <2>4, <3>1 DEF ReservedSlots
  <2>12. PromisedSlots'
    <3>1. ASSUME NEW q \in Procs, NEW o \in promised[q]
          PROVE  o \in Slots \ {g}
      BY <1>0, <2>2 DEF PromisedSlots, CgType
    <3>2. QED
      BY <1>0, <1>1, <1>2, <2>4, <3>1 DEF PromisedSlots
  <2>13. CleanSlots'
    BY <1>0, <1>1, <1>2, <2>4, <2>5 DEF CleanSlots, Ids
  <2>14. QED
    BY <2>8, <2>9, <2>10, <2>11, <2>12, <2>13 DEF CgInv
<1>5. QED
  BY <1>3, <1>4

\* The steps that leave the table and the frames alone: what is left to show is
\* about where creators are.
LEMMA TableKeptStep ==
    ASSUME CgInv, UNCHANGED <<state, cg, groups, held, promised, child>>,
           acct' \subseteq Slots, pc' \in [Procs -> Places], id' \in [Procs -> Slots \cup {NoId}],
           \A q \in Procs : /\ pc'[q] # "user" => pc[q] # "user"
                            /\ pc'[q] = "fork" => pc[q] = "fork"
                            /\ Creating(q)' => Creating(q) /\ id'[q] = id[q]
                            /\ Creating(q) => id'[q] = id[q]
                            /\ pc'[q] = "limit" => pc[q] = "limit" /\ id'[q] = id[q],
           \A q \in Procs : Creating(q) => Creating(q)',
           \A q \in Procs : pc'[q] \in {"reset", "install"} => Unused(id[q]),
           \A q \in Procs : pc'[q] = "install" => id[q] \notin acct'
    PROVE  CgInv'
<1>0. CgType /\ InKernel /\ OwnSlot /\ ReservedSlots /\ PromisedSlots /\ CleanSlots
  BY DEF CgInv
<1>1. Slots' = Slots /\ GroupType' = GroupType
  BY DEF Slots, GroupType
<1>2. (\A g : Members(g)' = Members(g)) /\ \A g : Unused(g)' = Unused(g)
  BY MembersKept, UnusedKept DEF TableKept
<1>3. CgType'
  BY <1>0, <1>1 DEF CgType
<1>4. InKernel'
  BY <1>0, <1>1 DEF InKernel
<1>5. OwnSlot'
  BY <1>0 DEF OwnSlot
<1>6. ReservedSlots'
  BY <1>0, <1>1, <1>2 DEF ReservedSlots
<1>7. PromisedSlots'
  BY <1>0, <1>2 DEF PromisedSlots
<1>8. CleanSlots'
  <2>1. ASSUME NEW q \in Procs, pc'[q] \in {"reset", "install"}
        PROVE  Unused(id[q])' /\ id'[q] = id[q]
    BY <1>2, <2>1 DEF Creating
  <2>2. ASSUME NEW q \in Procs, pc'[q] \in {"reset", "install"}
        PROVE  Unused(id[q])'
    BY <2>1, <2>2
  <2>3. \A g \in Ids \ Slots : Unused(g)'
    BY <1>0, <1>2 DEF CleanSlots
  <2>4. \A q \in Procs : pc'[q] = "install" => id'[q] \notin acct'
    BY <2>1
  <2>5. QED
    BY <1>1, <2>2, <2>3, <2>4 DEF CleanSlots, Ids
<1>9. QED
  BY <1>3, <1>4, <1>5, <1>6, <1>7, <1>8 DEF CgInv

LEMMA CheckStep ==
    ASSUME CgInv, NEW p \in Procs, Check(p)
    PROVE  CgInv'
<1>0. CgType /\ CleanSlots
  BY DEF CgInv
<1>1. /\ UNCHANGED <<state, cg, groups, held, promised, child, acct, id>> /\ pc[p] = "check"
      /\ \E to \in {"giveBack", "reset"} : /\ pc' = [pc EXCEPT ![p] = to]
                                           /\ to = "reset" => Unused(id[p])
  BY DEF Check, Goto, Charged, TableKept, FramesKept, LocalKept
<1>2. /\ pc'[p] \in {"giveBack", "reset"} /\ (pc'[p] = "reset" => Unused(id[p]))
      /\ \A q \in Procs \ {p} : pc'[q] = pc[q]
      /\ pc' \in [Procs -> Places]
  BY <1>0, <1>1 DEF CgType, Places
<1>3. \A q \in Procs : /\ pc'[q] # "user" => pc[q] # "user"
                       /\ pc'[q] = "fork" => pc[q] = "fork"
                       /\ Creating(q)' <=> Creating(q)
                       /\ pc'[q] = "limit" => pc[q] = "limit"
  BY <1>1, <1>2 DEF Creating
<1>4. \A q \in Procs : /\ pc'[q] \in {"reset", "install"} => Unused(id[q])
                       /\ pc'[q] = "install" => id[q] \notin acct'
  BY <1>0, <1>1, <1>2 DEF CleanSlots
<1>5. acct' \subseteq Slots /\ id' \in [Procs -> Slots \cup {NoId}]
  BY <1>0, <1>1 DEF CgType
<1>6. QED
  BY <1>1, <1>2, <1>3, <1>4, <1>5, TableKeptStep

LEMMA ResetStep ==
    ASSUME CgInv, NEW p \in Procs, Reset(p)
    PROVE  CgInv'
<1>0. CgType /\ CleanSlots
  BY DEF CgInv
<1>1. /\ UNCHANGED <<state, cg, groups, held, promised, child, id>> /\ pc[p] = "reset"
      /\ pc' = [pc EXCEPT ![p] = "install"] /\ acct' = acct \ {id[p]}
  BY DEF Reset, Goto, Cleaned, TableKept, LocalKept
<1>2. /\ pc'[p] = "install" /\ \A q \in Procs \ {p} : pc'[q] = pc[q]
      /\ pc' \in [Procs -> Places]
  BY <1>0, <1>1 DEF CgType, Places
<1>3. \A q \in Procs : /\ pc'[q] # "user" => pc[q] # "user"
                       /\ pc'[q] = "fork" => pc[q] = "fork"
                       /\ Creating(q)' <=> Creating(q)
                       /\ pc'[q] = "limit" => pc[q] = "limit"
  BY <1>1, <1>2 DEF Creating
<1>4. \A q \in Procs : /\ pc'[q] \in {"reset", "install"} => Unused(id[q])
                       /\ pc'[q] = "install" => id[q] \notin acct'
  BY <1>0, <1>1, <1>2 DEF CleanSlots
<1>5. acct' \subseteq Slots /\ id' \in [Procs -> Slots \cup {NoId}]
  BY <1>0, <1>1 DEF CgType
<1>6. QED
  BY <1>1, <1>2, <1>3, <1>4, <1>5, TableKeptStep

LEMMA LimitStep ==
    ASSUME CgInv, NEW p \in Procs, LimitAndReturn(p)
    PROVE  CgInv'
<1>0. CgType /\ CleanSlots
  BY DEF CgInv
<1>1. /\ UNCHANGED <<state, cg, groups, held, promised, child, acct>> /\ pc[p] = "limit"
      /\ pc' = [pc EXCEPT ![p] = "user"] /\ id' = [id EXCEPT ![p] = NoId]
  BY DEF LimitAndReturn, Goto, TableKept
<1>2. /\ pc'[p] = "user" /\ \A q \in Procs \ {p} : pc'[q] = pc[q] /\ id'[q] = id[q]
      /\ pc' \in [Procs -> Places] /\ id' \in [Procs -> Slots \cup {NoId}]
  BY <1>0, <1>1 DEF CgType, Places
<1>3. \A q \in Procs : /\ pc'[q] # "user" => pc[q] # "user" /\ id'[q] = id[q]
                       /\ pc'[q] = "fork" => pc[q] = "fork"
                       /\ Creating(q)' <=> Creating(q)
                       /\ Creating(q) => id'[q] = id[q]
                       /\ pc'[q] = "limit" => pc[q] = "limit"
  BY <1>1, <1>2 DEF Creating
<1>4. \A q \in Procs : /\ pc'[q] \in {"reset", "install"} => Unused(id[q])
                       /\ pc'[q] = "install" => id[q] \notin acct'
  BY <1>0, <1>1, <1>2 DEF CleanSlots
<1>5. acct' \subseteq Slots
  BY <1>0, <1>1 DEF CgType
<1>6. QED
  BY <1>1, <1>2, <1>3, <1>4, <1>5, TableKeptStep

LEMMA AccountStep ==
    ASSUME CgInv, NEW p \in Procs, NEW g \in Ids, Account(p, g)
    PROVE  CgInv'
<1>0. CgType /\ CleanSlots
  BY DEF CgInv
<1>1. /\ UNCHANGED <<state, cg, groups, held, promised, child, pc, id>>
      /\ state[p] = "Live" /\ g = cg[p] /\ acct' = acct \cup {g}
  BY DEF Account, Starts, TableKept, FramesKept, LocalKept
<1>2. g \in Slots /\ \A q \in Procs : Creating(q) => id[q] # g
  BY <1>1, MemberOfGroup
<1>3. \A q \in Procs : /\ pc'[q] \in {"reset", "install"} => Unused(id[q])
                       /\ pc'[q] = "install" => id[q] \notin acct'
  BY <1>0, <1>1, <1>2 DEF CleanSlots, Creating
<1>4. /\ acct' \subseteq Slots /\ id' \in [Procs -> Slots \cup {NoId}]
      /\ pc' \in [Procs -> Places]
  BY <1>0, <1>1, <1>2 DEF CgType
<1>5. \A q \in Procs : Creating(q)' <=> Creating(q)
  BY <1>1 DEF Creating
<1>6. QED
  BY <1>1, <1>3, <1>4, <1>5, TableKeptStep

\* No step, or one that only sets a limit.
LEMMA NothingStep ==
    ASSUME CgInv, UNCHANGED <<state, cg, groups, held, promised, child, pc, id, acct>>
    PROVE  CgInv'
<1>1. CgType /\ CleanSlots
  BY DEF CgInv
<1>2. /\ acct' \subseteq Slots /\ id' \in [Procs -> Slots \cup {NoId}]
      /\ pc' \in [Procs -> Places]
  BY <1>1 DEF CgType
<1>3. \A q \in Procs : Creating(q)' <=> Creating(q)
  BY DEF Creating
<1>4. \A q \in Procs : /\ pc'[q] \in {"reset", "install"} => Unused(id[q])
                       /\ pc'[q] = "install" => id[q] \notin acct'
  BY <1>1 DEF CleanSlots
<1>5. QED
  BY <1>2, <1>3, <1>4, TableKeptStep

\* A creator gives its slot up, or hands it over.
LEMMA SlotReleased ==
    ASSUME CgInv, NEW p \in Procs, pc[p] \in {"giveBack", "install"},
           UNCHANGED <<state, cg, held, acct, id, child>>,
           NEW r \in GroupType, ~r.reserved, groups' = [groups EXCEPT ![id[p]] = r],
           \/ /\ pc' = [pc EXCEPT ![p] = "push"] /\ promised' = promised
           \/ /\ pc' = [pc EXCEPT ![p] = "limit"] /\ pc[p] = "install" /\ ~r.used
              /\ promised' = [promised EXCEPT ![p] = @ \cup {id[p]}]
    PROVE  CgInv'
<1>0. CgType /\ InKernel /\ OwnSlot /\ ReservedSlots /\ PromisedSlots /\ CleanSlots
  BY DEF CgInv
<1>1. PICK g \in Slots : g = id[p] /\ groups[g].reserved
  BY <1>0 DEF InKernel, OwnSlot, Creating
<1>2. Members(g) = {} /\ \A q \in Procs : g \notin promised[q]
  BY <1>0, <1>1 DEF ReservedSlots, PromisedSlots
<1>3. /\ Slots' = Slots /\ GroupType' = GroupType /\ Len(groups') = Len(groups)
      /\ groups' \in Seq(GroupType)
      /\ groups'[g] = r /\ \A o \in Slots \ {g} : groups'[o] = groups[o]
  BY <1>0, <1>1, EntryChanged
<1>4. (\A o : Members(o)' = Members(o)) /\ \A o : Unused(o)' = Unused(o)
  BY MembersKept, UnusedKept DEF TableKept
<1>5. /\ pc'[p] \in {"push", "limit"} /\ \A q \in Procs \ {p} : pc'[q] = pc[q]
      /\ pc' \in [Procs -> Places]
  BY <1>0 DEF CgType, Places
<1>6. /\ Creating(p) /\ ~Creating(p)'
      /\ \A q \in Procs \ {p} : Creating(q)' <=> Creating(q)
  BY <1>5 DEF Creating
<1>7. \A q \in Procs : q # p /\ Creating(q) => id[q] \in Slots \ {g}
  BY <1>0, <1>1, <1>6 DEF OwnSlot, InKernel
<1>8. /\ promised' \in [Procs -> SUBSET Slots]
      /\ \A q \in Procs \ {p} : promised'[q] = promised[q]
      /\ promised'[p] \subseteq promised[p] \cup {g}
      /\ g \in promised'[p] => pc[p] = "install" /\ ~r.used
  <2>1. CASE promised' = promised
    BY <1>0, <1>2, <2>1 DEF CgType
  <2>2. CASE /\ pc[p] = "install" /\ ~r.used
             /\ promised' = [promised EXCEPT ![p] = @ \cup {g}]
    BY <1>0, <2>2 DEF CgType
  <2>3. QED
    BY <1>1, <2>1, <2>2
<1>9. CgType'
  BY <1>0, <1>3, <1>5, <1>8 DEF CgType
<1>10. InKernel'
  BY <1>0, <1>1, <1>3, <1>5, <1>6 DEF InKernel
<1>11. OwnSlot'
  BY <1>0, <1>3, <1>6, <1>7 DEF OwnSlot
<1>12. ReservedSlots'
  <2>1. ASSUME NEW o \in Slots, groups'[o].reserved
        PROVE  /\ groups'[o].used /\ Members(o)' = {}
               /\ \E q \in Procs : Creating(q)' /\ id'[q] = o
    <3>1. o # g /\ groups'[o] = groups[o]
      BY <1>3, <2>1
    <3>2. PICK q \in Procs : Creating(q) /\ id[q] = o
      BY <1>0, <2>1, <3>1 DEF ReservedSlots
    <3>3. q # p
      BY <1>1, <3>1, <3>2
    <3>4. QED
      BY <1>0, <1>4, <1>6, <2>1, <3>1, <3>2, <3>3 DEF ReservedSlots
  <2>2. QED
    BY <1>3, <2>1 DEF ReservedSlots
<1>13. PromisedSlots'
  <2>1. ASSUME NEW q \in Procs, NEW o \in promised'[q]
        PROVE  ~groups'[o].used /\ ~groups'[o].reserved /\ Members(o)' = {} /\ Unused(o)'
    <3>1. CASE o = g
      <4>1. pc[p] = "install" /\ ~r.used
        BY <1>2, <1>8, <2>1, <3>1
      <4>2. Unused(g)
        BY <1>0, <1>1, <4>1 DEF CleanSlots
      <4>3. QED
        BY <1>2, <1>3, <1>4, <3>1, <4>1, <4>2
    <3>2. CASE o # g
      <4>1. o \in promised[q] /\ o \in Slots
        BY <1>0, <1>8, <2>1, <3>2 DEF CgType
      <4>2. QED
        BY <1>0, <1>3, <1>4, <3>2, <4>1 DEF PromisedSlots
    <3>3. QED
      BY <3>1, <3>2
  <2>2. \A q, o \in Procs : q # o => promised'[q] \cap promised'[o] = {}
    BY <1>0, <1>2, <1>8 DEF PromisedSlots
  <2>3. QED
    BY <2>1, <2>2 DEF PromisedSlots
<1>14. CleanSlots'
  BY <1>0, <1>3, <1>4, <1>5 DEF CleanSlots, Ids
<1>15. QED
  BY <1>9, <1>10, <1>11, <1>12, <1>13, <1>14 DEF CgInv

LEMMA ReleaseStep ==
    ASSUME CgInv, NEW p \in Procs, GiveBack(p) \/ InstallGroup(p)
    PROVE  CgInv'
<1>0. CgType /\ InKernel /\ OwnSlot /\ ReservedSlots
  BY DEF CgInv
<1>1. pc[p] \in {"giveBack", "install"} /\ Creating(p)
  BY DEF GiveBack, InstallGroup, Goto, Creating
<1>2. id[p] \in Slots /\ groups[id[p]] \in GroupType
  BY <1>0, <1>1, SlotFacts DEF InKernel
<1>3. UNCHANGED <<state, cg, held, acct, id, child>>
  BY DEF GiveBack, InstallGroup, TableKept, FramesKept, LocalKept
<1> DEFINE free == [groups[id[p]] EXCEPT !.reserved = FALSE]
           new == [parent |-> cg[p], used |-> FALSE, reserved |-> FALSE]
<1>4. free \in GroupType /\ ~free.reserved
  BY <1>2 DEF GroupType
<1>5. new \in GroupType /\ ~new.reserved /\ ~new.used
  BY <1>0 DEF GroupType, CgType
<1>6. CASE GiveBack(p)
  <2>1. /\ groups' = [groups EXCEPT ![id[p]] = free] /\ pc' = [pc EXCEPT ![p] = "push"]
        /\ promised' = promised
    BY <1>6 DEF GiveBack, Goto, LocalKept
  <2>2. QED
    BY <1>1, <1>3, <1>4, <2>1, SlotReleased
<1>7. CASE InstallGroup(p)
  <2>1. groups[id[p]].reserved /\ Members(id[p]) = {}
    BY <1>0, <1>1, <1>2 DEF OwnSlot, ReservedSlots
  <2>2. /\ groups' = [groups EXCEPT ![id[p]] = new] /\ pc' = [pc EXCEPT ![p] = "limit"]
        /\ promised' = [promised EXCEPT ![p] = @ \cup {id[p]}] /\ pc[p] = "install"
    BY <1>7, <2>1 DEF InstallGroup, Goto
  <2>3. QED
    BY <1>3, <1>5, <2>2, SlotReleased
<1>8. QED
  BY <1>6, <1>7

LEMMA PushStep ==
    ASSUME CgInv, NEW p \in Procs, Push(p)
    PROVE  CgInv'
<1>0. CgType /\ InKernel /\ OwnSlot /\ ReservedSlots /\ PromisedSlots /\ CleanSlots
  BY DEF CgInv
<1>1. /\ UNCHANGED <<state, cg, held, acct, child>> /\ pc[p] = "push"
  BY DEF Push, Goto, TableKept, FramesKept
<1>2. CASE Full
  <2>1. /\ UNCHANGED <<groups, promised>> /\ pc' = [pc EXCEPT ![p] = "user"]
        /\ id' = [id EXCEPT ![p] = NoId]
    BY <1>2 DEF Push, Goto
  <2>2. /\ pc'[p] = "user" /\ \A q \in Procs \ {p} : pc'[q] = pc[q] /\ id'[q] = id[q]
        /\ pc' \in [Procs -> Places] /\ id' \in [Procs -> Slots \cup {NoId}]
    BY <1>0, <2>1 DEF CgType, Places
  <2>3. \A q \in Procs : /\ pc'[q] # "user" => pc[q] # "user" /\ id'[q] = id[q]
                         /\ pc'[q] = "fork" => pc[q] = "fork"
                         /\ Creating(q)' <=> Creating(q)
                         /\ Creating(q) => id'[q] = id[q]
                         /\ pc'[q] = "limit" => pc[q] = "limit"
    BY <1>1, <2>2 DEF Creating
  <2>4. \A q \in Procs : /\ pc'[q] \in {"reset", "install"} => Unused(id[q])
                         /\ pc'[q] = "install" => id[q] \notin acct'
    BY <1>0, <1>1, <2>2 DEF CleanSlots
  <2>5. acct' \subseteq Slots
    BY <1>0, <1>1 DEF CgType
  <2>6. QED
    BY <1>1, <2>1, <2>2, <2>3, <2>4, <2>5, TableKeptStep
<1>3. CASE ~Full
  <2> DEFINE r == [parent |-> cg[p], used |-> FALSE, reserved |-> FALSE]
             n == Len(groups) + 1
  <2>1. /\ groups' = Append(groups, r) /\ pc' = [pc EXCEPT ![p] = "limit"]
        /\ id' = [id EXCEPT ![p] = n] /\ promised' = [promised EXCEPT ![p] = @ \cup {n}]
    BY <1>3 DEF Push, Goto
  <2>2. r \in GroupType /\ ~r.used /\ ~r.reserved
    BY <1>0 DEF GroupType, CgType
  <2>3. /\ Slots' = Slots \cup {n} /\ n \notin Slots
        /\ groups' \in Seq(GroupType') /\ Len(groups') = n
        /\ groups'[n] = r /\ \A o \in Slots : groups'[o] = groups[o]
    BY <1>0, <2>1, <2>2, EntryAdded
  <2>4. n \in 1 .. MaxCg
    BY <1>0, <1>3, CgAssumption DEF Full, CgType
  <2>5. (\A o : Members(o)' = Members(o)) /\ \A o : Unused(o)' = Unused(o)
    BY <1>1, MembersKept, UnusedKept DEF TableKept
  <2>6. Members(n) = {} /\ Unused(n)
    BY <1>0, <2>3, <2>4 DEF Members, InTable, CgType, CleanSlots, Ids
  <2>7. /\ pc'[p] = "limit" /\ id'[p] = n
        /\ \A q \in Procs \ {p} : pc'[q] = pc[q] /\ id'[q] = id[q]
        /\ pc' \in [Procs -> Places] /\ id' \in [Procs -> Slots' \cup {NoId}]
    BY <1>0, <2>1, <2>3 DEF CgType, Places
  <2>8. \A q \in Procs : /\ Creating(q)' <=> Creating(q)
                         /\ Creating(q) => q # p /\ id'[q] = id[q] /\ id[q] \in Slots
    BY <1>0, <1>1, <2>7 DEF Creating, InKernel
  <2>9. /\ promised'[p] = promised[p] \cup {n} /\ \A q \in Procs \ {p} : promised'[q] = promised[q]
        /\ promised' \in [Procs -> SUBSET Slots']
    BY <1>0, <2>1, <2>3 DEF CgType
  <2>10. \A q \in Procs : promised[q] \subseteq Slots
    BY <1>0 DEF CgType
  <2>11. CgType'
    BY <1>0, <1>1, <2>3, <2>4, <2>7, <2>9 DEF CgType
  <2>12. InKernel'
    BY <1>0, <1>1, <2>3, <2>7, <2>8 DEF InKernel
  <2>13. OwnSlot'
    BY <1>0, <2>3, <2>8 DEF OwnSlot
  <2>14. ReservedSlots'
    BY <1>0, <2>2, <2>3, <2>5, <2>8 DEF ReservedSlots
  <2>15. PromisedSlots'
    <3>1. ASSUME NEW q \in Procs, NEW o \in promised'[q]
          PROVE  ~groups'[o].used /\ ~groups'[o].reserved /\ Members(o)' = {} /\ Unused(o)'
      <4>1. CASE o = n
        BY <2>2, <2>3, <2>5, <2>6, <4>1
      <4>2. CASE o # n
        <5>1. o \in promised[q] /\ o \in Slots
          BY <2>9, <2>10, <3>1, <4>2
        <5>2. QED
          BY <1>0, <2>3, <2>5, <5>1 DEF PromisedSlots
      <4>3. QED
        BY <4>1, <4>2
    <3>2. \A q, o \in Procs : q # o => promised'[q] \cap promised'[o] = {}
      BY <1>0, <2>3, <2>9, <2>10 DEF PromisedSlots
    <3>3. QED
      BY <3>1, <3>2 DEF PromisedSlots
  <2>16. CleanSlots'
    BY <1>0, <1>1, <2>3, <2>5, <2>7 DEF CleanSlots, Ids
  <2>17. QED
    BY <2>11, <2>12, <2>13, <2>14, <2>15, <2>16 DEF CgInv
<1>4. QED
  BY <1>2, <1>3

----------------------------------------------------------------------------
(* Who is in a group, and what it holds *)

\* A group that is neither reserved nor another creator's gets a member.
LEMMA EntryUsed ==
    ASSUME CgInv, NEW g \in Slots, ~groups[g].reserved,
           groups' = [groups EXCEPT ![g].used = TRUE],
           state' \in [Procs -> {"Unborn", "Live", "Zombie", "Reaped"}],
           cg' \in [Procs -> Slots],
           \A o \in Slots \ {g} : Members(o) = {} => Members(o)' = {},
           \A q \in Procs : state[q] = "Live" => state'[q] = "Live",
           UNCHANGED <<held, acct, id>>,
           child' \in [Procs -> Procs \cup {NoPid}],
           promised' \in [Procs -> SUBSET Slots],
           \A q \in Procs : promised'[q] \subseteq promised[q] \ {g},
           pc' \in [Procs -> Places],
           \A q \in Procs : \/ pc'[q] = "user" /\ pc[q] \in {"user", "fork"}
                            \/ pc'[q] = pc[q] /\ child'[q] = child[q]
    PROVE  CgInv'
<1>0. CgType /\ InKernel /\ OwnSlot /\ ReservedSlots /\ PromisedSlots /\ CleanSlots
  BY DEF CgInv
<1> DEFINE r == [groups[g] EXCEPT !.used = TRUE]
<1>1. r \in GroupType /\ ~r.reserved
  <2>1. groups[g] \in GroupType
    BY <1>0, SlotFacts
  <2>2. QED
    BY <2>1 DEF GroupType
<1>2. groups' = [groups EXCEPT ![g] = r]
  OBVIOUS
<1>3. /\ Slots' = Slots /\ GroupType' = GroupType /\ Len(groups') = Len(groups)
      /\ groups' \in Seq(GroupType)
      /\ groups'[g] = r /\ \A o \in Slots \ {g} : groups'[o] = groups[o]
  BY <1>0, <1>1, <1>2, EntryChanged
<1>4. \A o : Unused(o)' = Unused(o)
  BY UnusedKept
<1>5. \A q \in Procs : /\ Creating(q)' <=> Creating(q)
                       /\ Creating(q) => id[q] \in Slots \ {g}
  BY <1>0 DEF Creating, InKernel, OwnSlot
<1>6. CgType'
  BY <1>0, <1>3 DEF CgType
<1>7. InKernel'
  BY <1>0, <1>3, <1>5 DEF InKernel
<1>8. OwnSlot'
  BY <1>0, <1>3, <1>5 DEF OwnSlot
<1>9. ReservedSlots'
  BY <1>0, <1>1, <1>3, <1>5 DEF ReservedSlots
<1>10. PromisedSlots'
  <2>1. ASSUME NEW q \in Procs, NEW o \in promised'[q]
        PROVE  ~groups'[o].used /\ ~groups'[o].reserved /\ Members(o)' = {} /\ Unused(o)'
    <3>1. o \in promised[q] /\ o \in Slots \ {g}
      BY <1>0, <2>1 DEF CgType
    <3>2. QED
      BY <1>0, <1>3, <1>4, <3>1 DEF PromisedSlots
  <2>2. \A q, o \in Procs : q # o => promised'[q] \cap promised'[o] = {}
    BY <1>0 DEF PromisedSlots
  <2>3. QED
    BY <2>1, <2>2 DEF PromisedSlots
<1>11. CleanSlots'
  BY <1>0, <1>3, <1>4 DEF CleanSlots, Ids
<1>12. QED
  BY <1>6, <1>7, <1>8, <1>9, <1>10, <1>11 DEF CgInv

LEMMA EnterStep ==
    ASSUME CgInv, NEW p \in Procs, NEW g \in Ids, Enter(p, g)
    PROVE  CgInv'
<1>0. CgType
  BY DEF CgInv
<1>1. /\ g \in Slots /\ ~groups[g].reserved /\ groups' = [groups EXCEPT ![g].used = TRUE]
      /\ cg' = [cg EXCEPT ![p] = g] /\ UNCHANGED <<state, held, acct, id, pc, child>>
      /\ promised' = [q \in Procs |-> promised[q] \ {g}]
  BY DEF Enter, Enterable, FramesKept
<1>2. cg' \in [Procs -> Slots] /\ promised' \in [Procs -> SUBSET Slots]
  BY <1>0, <1>1 DEF CgType
<1>3. \A o \in Slots \ {g} : Members(o) = {} => Members(o)' = {}
  BY <1>0, <1>1 DEF CgType, Members, InTable
<1>4. /\ state' \in [Procs -> {"Unborn", "Live", "Zombie", "Reaped"}]
      /\ child' \in [Procs -> Procs \cup {NoPid}] /\ pc' \in [Procs -> Places]
  BY <1>0, <1>1 DEF CgType
<1>5. QED
  BY <1>1, <1>2, <1>3, <1>4, EntryUsed

LEMMA ForkInsertStep ==
    ASSUME CgInv, NEW p \in Procs, ForkInsert(p)
    PROVE  CgInv'
<1>0. CgType /\ InKernel
  BY DEF CgInv
<1>1. pc[p] = "fork" /\ state[p] = "Live" /\ child[p] \in Procs
  BY <1>0 DEF ForkInsert, Goto, InKernel
<1>2. PICK g \in Slots : g = cg[p] /\ ~groups[g].reserved /\ \A q \in Procs : g \notin promised[q]
  BY <1>1, MemberOfGroup
<1>3. PICK c \in Procs : c = child[p]
  BY <1>1
<1>4. /\ groups' = [groups EXCEPT ![g].used = TRUE]
      /\ state' = [state EXCEPT ![c] = "Live"] /\ cg' = [cg EXCEPT ![c] = g]
      /\ child' = [child EXCEPT ![p] = NoPid] /\ pc' = [pc EXCEPT ![p] = "user"]
      /\ UNCHANGED <<held, acct, id, promised>>
  BY <1>2, <1>3 DEF ForkInsert, Goto, FramesKept
<1>5. /\ state' \in [Procs -> {"Unborn", "Live", "Zombie", "Reaped"}]
      /\ cg' \in [Procs -> Slots] /\ child' \in [Procs -> Procs \cup {NoPid}]
      /\ pc' \in [Procs -> Places] /\ promised' \in [Procs -> SUBSET Slots]
  BY <1>0, <1>4 DEF CgType, Places
<1>6. \A o \in Slots \ {g} : Members(o) = {} => Members(o)' = {}
  BY <1>0, <1>4 DEF CgType, Members, InTable
<1>7. \A q \in Procs : /\ state[q] = "Live" => state'[q] = "Live"
                       /\ promised'[q] \subseteq promised[q] \ {g}
                       /\ \/ pc'[q] = "user" /\ pc[q] \in {"user", "fork"}
                          \/ pc'[q] = pc[q] /\ child'[q] = child[q]
  BY <1>0, <1>1, <1>2, <1>4 DEF CgType
<1>8. QED
  BY <1>2, <1>4, <1>5, <1>6, <1>7, EntryUsed

\* The steps that change who holds which frames, or who is in the table, and
\* charge a group to nobody outside it.
LEMMA FramesStep ==
    ASSUME CgInv, UNCHANGED <<groups, cg, acct, id>>,
           state' \in [Procs -> {"Unborn", "Live", "Zombie", "Reaped"}],
           \A q \in Procs : state'[q] \in {"Live", "Zombie"} => state[q] \in {"Live", "Zombie"},
           held' \in [Procs -> [Ids -> Nat]],
           \A g \in Ids : Unused(g) => \/ Unused(g)'
                                       \/ \E q \in Procs : state[q] = "Live" /\ cg[q] = g,
           child' \in [Procs -> Procs \cup {NoPid}], pc' \in [Procs -> Places],
           \A q \in Procs : \/ pc'[q] = pc[q] /\ child'[q] = child[q]
                            \/ pc[q] = "user" /\ pc'[q] = "fork" /\ child'[q] \in Procs,
           \A q \in Procs : pc'[q] # "user" => state'[q] = "Live",
           promised' \in [Procs -> SUBSET Slots],
           \A q \in Procs : promised'[q] \subseteq promised[q]
    PROVE  CgInv'
<1>0. CgType /\ InKernel /\ OwnSlot /\ ReservedSlots /\ PromisedSlots /\ CleanSlots
  BY DEF CgInv
<1>1. Slots' = Slots /\ GroupType' = GroupType
  BY DEF Slots, GroupType
<1>2. \A o : Members(o)' \subseteq Members(o)
  BY DEF Members, InTable
<1>3. \A q \in Procs : Creating(q)' <=> Creating(q)
  BY DEF Creating
<1>4. \A g \in Ids : Members(g) = {} /\ Unused(g) => Unused(g)'
  BY DEF Members, InTable
<1>5. Slots \subseteq Ids /\ \A g \in Ids \ Slots : Members(g) = {}
  <2>1. Slots \subseteq Ids
    BY <1>0, SlotFacts
  <2>2. \A q \in Procs : cg[q] \in Slots
    BY <1>0 DEF CgType
  <2>3. QED
    BY <2>1, <2>2 DEF Members, InTable
<1>6. CgType'
  BY <1>0, <1>1 DEF CgType
<1>7. InKernel'
  BY <1>0, <1>1, <1>3 DEF InKernel
<1>8. OwnSlot'
  BY <1>0, <1>3 DEF OwnSlot
<1>9. ReservedSlots'
  BY <1>0, <1>1, <1>2, <1>3 DEF ReservedSlots
<1>10. PromisedSlots'
  <2>1. ASSUME NEW q \in Procs, NEW o \in promised'[q]
        PROVE  ~groups'[o].used /\ ~groups'[o].reserved /\ Members(o)' = {} /\ Unused(o)'
    <3>1. o \in promised[q] /\ o \in Ids
      BY <1>0, <1>5, <2>1 DEF CgType
    <3>2. QED
      BY <1>0, <1>2, <1>4, <3>1 DEF PromisedSlots
  <2>2. \A q, o \in Procs : q # o => promised'[q] \cap promised'[o] = {}
    BY <1>0 DEF PromisedSlots
  <2>3. QED
    BY <2>1, <2>2 DEF PromisedSlots
<1>11. CleanSlots'
  <2>1. ASSUME NEW q \in Procs, pc'[q] \in {"reset", "install"}
        PROVE  Unused(id[q])'
    <3>1. PICK g \in Slots : g = id[q] /\ Unused(g) /\ groups[g].reserved
      BY <1>0, <2>1 DEF InKernel, OwnSlot, CleanSlots, Creating
    <3>2. Members(g) = {}
      BY <1>0, <3>1 DEF ReservedSlots
    <3>3. Unused(g)'
      BY <1>4, <1>5, <3>1, <3>2
    <3>4. id'[q] = g
      BY <3>1
    <3>5. QED
      BY <3>3, <3>4
  <2>2. \A q \in Procs : pc'[q] = "install" => id'[q] \notin acct'
    BY <1>0 DEF CleanSlots
  <2>3. \A g \in Ids \ Slots : Unused(g)'
    BY <1>0, <1>4, <1>5 DEF CleanSlots
  <2>4. QED
    BY <1>1, <2>1, <2>2, <2>3 DEF CleanSlots, Ids
<1>12. QED
  BY <1>6, <1>7, <1>8, <1>9, <1>10, <1>11 DEF CgInv

LEMMA AllocStep ==
    ASSUME CgInv, NEW p \in Procs, Alloc(p)
    PROVE  CgInv'
<1>0. CgType /\ InKernel
  BY DEF CgInv
<1>1. PICK g \in Ids : g = cg[p] /\ state[p] = "Live"
  BY MemberOfGroup DEF Alloc, Starts
<1>2. /\ held' = [held EXCEPT ![p][g] = @ + 1]
      /\ UNCHANGED <<groups, cg, acct, id, state, child, pc, promised>>
  BY <1>1 DEF Alloc, TableKept, LocalKept
<1>3. held' \in [Procs -> [Ids -> Nat]]
  BY <1>0, <1>2 DEF CgType
<1>4. \A o \in Ids : Unused(o) => Unused(o)' \/ o = g
  BY <1>0, <1>2 DEF CgType, Unused
<1>5. /\ state' \in [Procs -> {"Unborn", "Live", "Zombie", "Reaped"}]
      /\ child' \in [Procs -> Procs \cup {NoPid}] /\ pc' \in [Procs -> Places]
      /\ promised' \in [Procs -> SUBSET Slots]
      /\ \A q \in Procs : pc'[q] # "user" => state'[q] = "Live"
  BY <1>0, <1>2 DEF CgType, InKernel
<1>6. QED
  BY <1>1, <1>2, <1>3, <1>4, <1>5, FramesStep

LEMMA FreeStep ==
    ASSUME CgInv, NEW p \in Procs, NEW g \in Ids, Free(p, g)
    PROVE  CgInv'
<1>0. CgType /\ InKernel
  BY DEF CgInv
<1>1. /\ held[p][g] > 0 /\ held' = [held EXCEPT ![p][g] = @ - 1]
      /\ UNCHANGED <<groups, cg, acct, id, state, child, pc, promised>>
  BY DEF Free, TableKept, LocalKept
<1>2. held' \in [Procs -> [Ids -> Nat]]
  BY <1>0, <1>1 DEF CgType
<1>3. \A o \in Ids : Unused(o) => Unused(o)'
  BY <1>0, <1>1 DEF CgType, Unused
<1>4. /\ state' \in [Procs -> {"Unborn", "Live", "Zombie", "Reaped"}]
      /\ child' \in [Procs -> Procs \cup {NoPid}] /\ pc' \in [Procs -> Places]
      /\ promised' \in [Procs -> SUBSET Slots]
      /\ \A q \in Procs : pc'[q] # "user" => state'[q] = "Live"
  BY <1>0, <1>1 DEF CgType, InKernel
<1>5. QED
  BY <1>1, <1>2, <1>3, <1>4, FramesStep

LEMMA FreeSpaceStep ==
    ASSUME CgInv, NEW p \in Procs, FreeSpace(p)
    PROVE  CgInv'
<1>0. CgType /\ InKernel
  BY DEF CgInv
<1>1. /\ held' = [held EXCEPT ![p] = [g \in Ids |-> 0]]
      /\ UNCHANGED <<groups, cg, acct, id, state, child, pc, promised>>
  BY DEF FreeSpace, TableKept, LocalKept
<1>2. held' \in [Procs -> [Ids -> Nat]]
  BY <1>0, <1>1 DEF CgType
<1>3. \A o \in Ids : Unused(o) => Unused(o)'
  BY <1>0, <1>1 DEF CgType, Unused
<1>4. /\ state' \in [Procs -> {"Unborn", "Live", "Zombie", "Reaped"}]
      /\ child' \in [Procs -> Procs \cup {NoPid}] /\ pc' \in [Procs -> Places]
      /\ promised' \in [Procs -> SUBSET Slots]
      /\ \A q \in Procs : pc'[q] # "user" => state'[q] = "Live"
  BY <1>0, <1>1 DEF CgType, InKernel
<1>5. QED
  BY <1>1, <1>2, <1>3, <1>4, FramesStep

LEMMA ForkBuildStep ==
    ASSUME CgInv, NEW p \in Procs, NEW c \in Procs, ForkBuild(p, c)
    PROVE  CgInv'
<1>0. CgType /\ InKernel
  BY DEF CgInv
<1>1. PICK g \in Ids : g = cg[p] /\ state[p] = "Live"
  BY MemberOfGroup DEF ForkBuild, Starts
<1>2. /\ pc[p] = "user" /\ pc' = [pc EXCEPT ![p] = "fork"] /\ child' = [child EXCEPT ![p] = c]
      /\ held' = [held EXCEPT ![c][g] = 1]
      /\ UNCHANGED <<groups, cg, acct, id, state, promised>>
  BY <1>1 DEF ForkBuild, Goto, TableKept
<1>3. held' \in [Procs -> [Ids -> Nat]]
  BY <1>0, <1>2 DEF CgType
<1>4. \A o \in Ids : Unused(o) => Unused(o)' \/ o = g
  BY <1>0, <1>2 DEF CgType, Unused
<1>5. /\ state' \in [Procs -> {"Unborn", "Live", "Zombie", "Reaped"}]
      /\ child' \in [Procs -> Procs \cup {NoPid}] /\ pc' \in [Procs -> Places]
      /\ promised' \in [Procs -> SUBSET Slots]
  BY <1>0, <1>2 DEF CgType, Places
<1>6. \A q \in Procs : /\ \/ pc'[q] = pc[q] /\ child'[q] = child[q]
                          \/ pc[q] = "user" /\ pc'[q] = "fork" /\ child'[q] \in Procs
                       /\ pc'[q] # "user" => state'[q] = "Live"
  BY <1>0, <1>1, <1>2 DEF CgType, InKernel
<1>7. QED
  BY <1>1, <1>2, <1>3, <1>4, <1>5, <1>6, FramesStep

LEMMA ExitStep ==
    ASSUME CgInv, NEW p \in Procs, Exit(p)
    PROVE  CgInv'
<1>0. CgType /\ InKernel
  BY DEF CgInv
<1>1. /\ state[p] = "Live" /\ pc[p] = "user" /\ state' = [state EXCEPT ![p] = "Zombie"]
      /\ promised' = [promised EXCEPT ![p] = {}]
      /\ UNCHANGED <<held, groups, cg, acct, id, child, pc>>
  BY DEF Exit, FramesKept
<1>2. /\ state' \in [Procs -> {"Unborn", "Live", "Zombie", "Reaped"}]
      /\ child' \in [Procs -> Procs \cup {NoPid}] /\ pc' \in [Procs -> Places]
      /\ promised' \in [Procs -> SUBSET Slots] /\ held' \in [Procs -> [Ids -> Nat]]
  BY <1>0, <1>1 DEF CgType
<1>3. \A q \in Procs : /\ state'[q] \in {"Live", "Zombie"} => state[q] \in {"Live", "Zombie"}
                       /\ pc'[q] # "user" => state'[q] = "Live"
                       /\ promised'[q] \subseteq promised[q]
  BY <1>0, <1>1 DEF CgType, InKernel
<1>4. \A o \in Ids : Unused(o)' = Unused(o)
  BY <1>1, UnusedKept
<1>5. QED
  BY <1>1, <1>2, <1>3, <1>4, FramesStep

LEMMA ReapStep ==
    ASSUME CgInv, NEW p \in Procs, Reap(p)
    PROVE  CgInv'
<1>0. CgType /\ InKernel
  BY DEF CgInv
<1>1. /\ state[p] = "Zombie" /\ state' = [state EXCEPT ![p] = "Reaped"]
      /\ UNCHANGED <<held, groups, cg, acct, id, child, pc, promised>>
  BY DEF Reap, FramesKept, LocalKept
<1>2. /\ state' \in [Procs -> {"Unborn", "Live", "Zombie", "Reaped"}]
      /\ child' \in [Procs -> Procs \cup {NoPid}] /\ pc' \in [Procs -> Places]
      /\ promised' \in [Procs -> SUBSET Slots] /\ held' \in [Procs -> [Ids -> Nat]]
  BY <1>0, <1>1 DEF CgType
<1>3. \A q \in Procs : /\ state'[q] \in {"Live", "Zombie"} => state[q] \in {"Live", "Zombie"}
                       /\ pc'[q] # "user" => state'[q] = "Live"
                       /\ promised'[q] \subseteq promised[q]
  BY <1>0, <1>1 DEF CgType, InKernel
<1>4. \A o \in Ids : Unused(o)' = Unused(o)
  BY <1>1, UnusedKept
<1>5. QED
  BY <1>1, <1>2, <1>3, <1>4, FramesStep

----------------------------------------------------------------------------
(* The theorem *)

LEMMA CgStep == CgInv /\ [Next]_vars => CgInv'
<1> SUFFICES ASSUME CgInv, [Next]_vars PROVE CgInv'
  OBVIOUS
<1>1. CASE UNCHANGED vars
  BY <1>1, NothingStep DEF vars
<1>2. ASSUME NEW p \in Procs, CgCreate(p)
      PROVE  CgInv'
  BY <1>2, ReserveStep, CheckStep, ReleaseStep, ResetStep, PushStep, LimitStep DEF CgCreate
<1>3. ASSUME NEW p \in Procs, NEW g \in Ids, Enter(p, g) \/ Account(p, g) \/ Free(p, g)
      PROVE  CgInv'
  BY <1>3, EnterStep, AccountStep, FreeStep
<1>4. ASSUME NEW p \in Procs, NEW g \in Ids, NEW l \in Limits, SetLimit(p, g, l)
      PROVE  CgInv'
  BY <1>4, NothingStep DEF SetLimit, TableKept, LocalKept
<1>5. ASSUME NEW p \in Procs,
             Alloc(p) \/ ForkInsert(p) \/ Exit(p) \/ Reap(p) \/ FreeSpace(p)
      PROVE  CgInv'
  BY <1>5, AllocStep, ForkInsertStep, ExitStep, ReapStep, FreeSpaceStep
<1>6. ASSUME NEW p \in Procs, NEW q \in Procs, ForkBuild(p, q)
      PROVE  CgInv'
  BY <1>6, ForkBuildStep
<1>7. QED
  BY <1>1, <1>2, <1>3, <1>4, <1>5, <1>6 DEF Next

\* A control group's slot is handed over whole: one creator at a time works on
\* it and nobody is in it meanwhile, no two creators are given the same group,
\* and it comes without a frame and without the CPU account of its last members
\* (cgcreate, the v2.4 failure).
THEOREM GroupsAreWhole == Spec => []GroupsHold
<1>1. CgInv => TypeOK
  BY SlotFacts DEF CgInv, CgType, TypeOK, GroupType
<1>2. CgInv => HandoverIsExclusive /\ NotMerged /\ NewGroupUsesNothing
  BY DEF CgInv, OwnSlot, ReservedSlots, PromisedSlots, HandoverIsExclusive, NotMerged,
     NewGroupUsesNothing
<1>3. CgInv => HandedOverClean
  BY DEF CgInv, CleanSlots, HandedOverClean
<1>4. QED
  BY <1>1, <1>2, <1>3, CgInit, CgStep, PTL DEF Spec, GroupsHold

----------------------------------------------------------------------------
(* PidNs *)

EntryType == [st : {"None", "Live", "Zombie"}, parent : Nat, ns : Nat, lpid : Nat, cg : Nat,
              pending : BOOLEAN, killed : BOOLEAN]
LogType == [pid : Pids, killed : BOOLEAN]

IdTypes ==
    /\ task \in [Pids -> EntryType]
    /\ nextPid \in 2 .. MaxPid + 1
    /\ ns \in Seq(Nat \ {0})
    /\ reaplog \in Seq(LogType) /\ reaped \in Seq(LogType)
    /\ forking \in [Pids -> [child : Nat, cg : Nat]]
    /\ targets \in [Pids -> SUBSET Pids] /\ marked \in [Pids -> Nat]

\* Whoever is in the table was handed its pid; its pid in its namespace was handed out there.
NamesAreTaken ==
    \A p \in Pids :
      /\ task[p] # Nobody => p < nextPid /\ task[p].st # "None"
      /\ task[p] # Nobody /\ task[p].ns = 0 => task[p].lpid = p
      /\ task[p] # Nobody /\ task[p].ns # 0 =>
           task[p].ns <= Len(ns) /\ task[p].lpid \in 1 .. ns[task[p].ns] - 1

\* The child that a fork builds has its pid, and nothing else yet; no two forks build one.
ChildrenAreNew ==
    /\ \A p \in Pids : forking[p] # Nothing =>
         forking[p].child \in 2 .. nextPid - 1 /\ task[forking[p].child] = Nobody
    /\ \A p, q \in Pids : p # q /\ forking[p] # Nothing => forking[p].child # forking[q].child

\* Who is gone was reaped.
GoneIsReaped ==
    \A p \in Pids : p < nextPid /\ task[p] = Nobody /\ (\A q \in Pids : forking[q].child # p) =>
      \E i \in DOMAIN reaped : reaped[i].pid = p

\* The log is the end of the list of all that were reaped.
LogIsTail ==
    /\ Len(reaplog) = IF Len(reaped) < LogLen THEN Len(reaped) ELSE LogLen
    /\ \A k \in DOMAIN reaplog : reaplog[k] = reaped[Len(reaped) - Len(reaplog) + k]

\* While a kill of the group goes on, its members are marked, still to be marked, or new.
KillGoesOn ==
    \A k \in Pids : targets[k] # {} =>
      \A p \in Alive : task[p].cg = Group /\ ~task[p].killed => p \in bornIn \cup targets[k]

NsInv ==
    /\ IdTypes /\ NamesAreTaken /\ ChildrenAreNew /\ GoneIsReaped /\ LogIsTail /\ KillGoesOn
    /\ LpidsUnique /\ StragglersAreNew

LEMMA NsInitFits == NsInit => NsInv
<1> SUFFICES ASSUME NsInit PROVE NsInv
  OBVIOUS
<1> USE NsAssumption
<1>1. /\ NewTask(0, 0, Init1, 0) \in EntryType /\ Nobody \in EntryType
      /\ NewTask(0, 0, Init1, 0).st = "Live" /\ NewTask(0, 0, Init1, 0).ns = 0
      /\ NewTask(0, 0, Init1, 0).lpid = 1 /\ NewTask(0, 0, Init1, 0).cg = 0 /\ Nobody.st = "None"
  BY DEF NewTask, Nobody, EntryType, Init1
<1>2. /\ task \in [Pids -> EntryType] /\ \A p \in Pids : task[p] # Nobody => p = 1
      /\ task[1] = NewTask(0, 0, Init1, 0) /\ 1 \in Pids
  BY <1>1 DEF NsInit, Pids, Init1
<1>3. IdTypes
  BY <1>2 DEF NsInit, IdTypes, Nothing, Pids
<1>4. NamesAreTaken
  BY <1>1, <1>2 DEF NamesAreTaken, NsInit
<1>5. ChildrenAreNew /\ GoneIsReaped
  BY <1>1, <1>2 DEF ChildrenAreNew, GoneIsReaped, NsInit, Nothing, Pids
<1>6. LogIsTail
  BY DEF LogIsTail, NsInit
<1>7. KillGoesOn /\ LpidsUnique /\ StragglersAreNew
  BY <1>1, <1>2 DEF KillGoesOn, LpidsUnique, StragglersAreNew, NsInit, Here, InNs
<1>8. QED
  BY <1>3, <1>4, <1>5, <1>6, <1>7 DEF NsInv

\* Who is where, and under which name, stays as it is.
SamePlaces ==
    /\ task' \in [Pids -> EntryType]
    /\ \A q \in Pids : /\ task'[q] = Nobody <=> task[q] = Nobody
                       /\ task'[q].st = "None" <=> task[q].st = "None"
                       /\ task'[q].ns = task[q].ns /\ task'[q].lpid = task[q].lpid

LEMMA ChildIsPid == NsInv => \A p \in Pids : forking[p] # Nothing => forking[p].child \in Pids
<1> SUFFICES ASSUME NsInv, NEW p \in Pids, forking[p] # Nothing PROVE forking[p].child \in Pids
  OBVIOUS
<1>1. nextPid \in 2 .. MaxPid + 1 /\ MaxPid \in Nat
  BY NsAssumption DEF NsInv, IdTypes
<1>2. forking[p].child \in 2 .. nextPid - 1
  BY DEF NsInv, ChildrenAreNew
<1>3. QED
  BY <1>1, <1>2 DEF Pids

LEMMA SameNames ==
    ASSUME NsInv, SamePlaces, UNCHANGED <<nextPid, ns, forking, reaped, reaplog>>,
           targets' \in [Pids -> SUBSET Pids], marked' \in [Pids -> Nat]
    PROVE  /\ IdTypes' /\ NamesAreTaken' /\ ChildrenAreNew' /\ GoneIsReaped' /\ LogIsTail'
           /\ LpidsUnique'
<1>1. IdTypes'
  BY DEF NsInv, IdTypes, SamePlaces
<1>2. NamesAreTaken'
  BY DEF NsInv, NamesAreTaken, SamePlaces
<1>3. ChildrenAreNew' /\ GoneIsReaped' /\ LogIsTail'
  <2>1. \A p \in Pids : forking[p] # Nothing => forking[p].child \in Pids
    BY ChildIsPid
  <2>2. ChildrenAreNew'
    BY <2>1 DEF NsInv, ChildrenAreNew, SamePlaces
  <2>3. GoneIsReaped'
    BY DEF NsInv, GoneIsReaped, SamePlaces
  <2>4. LogIsTail'
    BY DEF NsInv, LogIsTail
  <2>5. QED
    BY <2>2, <2>3, <2>4
<1>4. LpidsUnique'
  BY DEF NsInv, LpidsUnique, SamePlaces, Here, InNs
<1>5. QED
  BY <1>1, <1>2, <1>3, <1>4

\* One task is marked, is to found a namespace at its next fork, or enters the group.
LEMMA MarkKeepsPlaces ==
    ASSUME NsInv, NEW t \in Here, NEW g \in Nat,
           \/ task' = [task EXCEPT ![t].killed = TRUE]
           \/ task' = [task EXCEPT ![t].pending = TRUE]
           \/ task' = [task EXCEPT ![t].cg = g]
    PROVE  /\ SamePlaces /\ Alive' = Alive
           /\ \A q \in Pids \ {t} : task'[q] = task[q]
           /\ task'[t].killed = FALSE => task[t].killed = FALSE
<1>1. t \in Pids /\ task \in [Pids -> EntryType] /\ task[t] \in EntryType /\ task[t].st # "None"
  BY DEF NsInv, IdTypes, NamesAreTaken, Here
<1>2. Nobody.st = "None"
  BY DEF Nobody, NewTask
<1>3. /\ task' \in [Pids -> EntryType] /\ \A q \in Pids \ {t} : task'[q] = task[q]
      /\ task'[t].st = task[t].st /\ task'[t].ns = task[t].ns /\ task'[t].lpid = task[t].lpid
      /\ (task'[t].killed = FALSE => task[t].killed = FALSE)
  <2>1. /\ [task[t] EXCEPT !.killed = TRUE] \in EntryType
        /\ [task[t] EXCEPT !.pending = TRUE] \in EntryType
        /\ [task[t] EXCEPT !.cg = g] \in EntryType
    BY <1>1 DEF EntryType
  <2>2. CASE task' = [task EXCEPT ![t].killed = TRUE]
    BY <1>1, <2>1, <2>2 DEF EntryType
  <2>3. CASE task' = [task EXCEPT ![t].pending = TRUE]
    BY <1>1, <2>1, <2>3 DEF EntryType
  <2>4. CASE task' = [task EXCEPT ![t].cg = g]
    BY <1>1, <2>1, <2>4 DEF EntryType
  <2>5. QED
    BY <2>2, <2>3, <2>4
<1>4. SamePlaces
  BY <1>1, <1>2, <1>3 DEF SamePlaces
<1>5. Alive' = Alive
  <2>1. \A q \in Pids : task'[q].st = task[q].st
    BY <1>3
  <2>2. QED
    BY <1>4, <2>1 DEF SamePlaces, Alive, Here, Zombie
<1>6. QED
  BY <1>3, <1>4, <1>5

LEMMA AliveIsHere == \A p \in Alive : p \in Here /\ p \in Pids
BY DEF Alive, Here

\* unshare, cgenter
LEMMA CallKeeps ==
    ASSUME NsInv, NEW p \in Pids, Unshare(p) \/ CgJoin(p)
    PROVE  NsInv'
<1>1. /\ p \in Here /\ UNCHANGED <<nextPid, ns, forking, reaped, reaplog, targets, marked>>
      /\ stopped' = "unknown"
      /\ \/ task' = [task EXCEPT ![p].pending = TRUE]
         \/ task' = [task EXCEPT ![p].cg = Group]
  BY AliveIsHere DEF Unshare, CgJoin, Calls, Set, NamesKept, KillKept
<1>2. Group \in Nat
  BY DEF Group
<1>3. SamePlaces /\ Alive' = Alive /\ \A q \in Pids \ {p} : task'[q] = task[q]
  BY <1>1, <1>2, MarkKeepsPlaces
<1>4. IdTypes' /\ NamesAreTaken' /\ ChildrenAreNew' /\ GoneIsReaped' /\ LogIsTail' /\ LpidsUnique'
  BY <1>1, <1>3, SameNames DEF NsInv, IdTypes
<1>5. KillGoesOn'
  <2>1. SUFFICES ASSUME NEW k \in Pids, targets[k] # {}, NEW q \in Alive, task'[q].cg = Group,
                        ~task'[q].killed
                 PROVE  q \in bornIn' \cup targets[k]
    BY <1>1, <1>3 DEF KillGoesOn
  <2>2. Stopping /\ q \in Pids /\ task \in [Pids -> EntryType] /\ p \in Pids
    BY <2>1, <1>1, AliveIsHere DEF Stopping, NsInv, IdTypes
  <2>3. CASE Unshare(p)
    <3>1. bornIn' = bornIn /\ task' = [task EXCEPT ![p].pending = TRUE]
      BY <2>2, <2>3 DEF Unshare, KillKept, Came, Set
    <3>2. task'[q].cg = task[q].cg /\ task'[q].killed = task[q].killed
      BY <2>2, <3>1 DEF EntryType
    <3>3. QED
      BY <2>1, <3>1, <3>2 DEF NsInv, KillGoesOn
  <2>4. CASE CgJoin(p)
    <3>1. bornIn' = bornIn \cup {p}
      BY <2>2, <2>4 DEF CgJoin, Came
    <3>2. q # p => task'[q] = task[q]
      BY <1>3, <2>2
    <3>3. QED
      BY <2>1, <3>1, <3>2 DEF NsInv, KillGoesOn
  <2>5. QED
    BY <1>1, <2>3, <2>4
<1>6. StragglersAreNew'
  BY <1>1 DEF StragglersAreNew
<1>7. QED
  BY <1>4, <1>5, <1>6 DEF NsInv

\* kill, and one step of cg_kill
LEMMA KillKeeps ==
    ASSUME NsInv, NEW p \in Pids, NEW n \in Pids, Kill(p, n)
    PROVE  NsInv'
<1> DEFINE t == Resolve(p, n)
<1>1. /\ t \in Alive /\ task' = [task EXCEPT ![t].killed = TRUE]
      /\ UNCHANGED <<nextPid, ns, forking, reaped, reaplog, targets, marked>>
      /\ stopped' = "unknown" /\ Came({})
  BY DEF Kill, Mortal, Set, NamesKept, KillKept
<1> HIDE DEF t
<1>2. t \in Here /\ t \in Pids
  BY <1>1, AliveIsHere
<1>3. /\ SamePlaces /\ Alive' = Alive /\ \A q \in Pids \ {t} : task'[q] = task[q]
  BY <1>1, <1>2, MarkKeepsPlaces
<1>4. IdTypes' /\ NamesAreTaken' /\ ChildrenAreNew' /\ GoneIsReaped' /\ LogIsTail' /\ LpidsUnique'
  BY <1>1, <1>3, SameNames DEF NsInv, IdTypes
<1>5. KillGoesOn'
  <2>1. SUFFICES ASSUME NEW k \in Pids, targets[k] # {}, NEW q \in Alive, task'[q].cg = Group,
                        ~task'[q].killed
                 PROVE  q \in bornIn' \cup targets[k]
    BY <1>1, <1>3 DEF KillGoesOn
  <2>2. bornIn' = bornIn
    BY <2>1, <1>1 DEF Stopping, Came
  <2>3. task'[t].killed
    BY <1>1, <1>2 DEF NsInv, IdTypes, EntryType
  <2>4. task'[q] = task[q]
    BY <1>3, <2>1, <2>3, AliveIsHere
  <2>5. QED
    BY <2>1, <2>2, <2>4 DEF NsInv, KillGoesOn
<1>6. StragglersAreNew'
  BY <1>1 DEF StragglersAreNew
<1>7. QED
  BY <1>4, <1>5, <1>6 DEF NsInv

NatOrder == {x \in Nat \X Nat : x[1] < x[2]}

LEMMA MinIsLeast ==
    ASSUME NEW S \in SUBSET Nat, S # {}
    PROVE  Min(S) \in S /\ \A y \in S : Min(S) <= y
<1>1. IsWellFoundedOn(NatOrder, Nat)
  BY NatLessThanWellFounded DEF OpToRel, NatOrder
<1>2. PICK x \in S : \A y \in S : <<y, x>> \notin NatOrder
  BY <1>1, WFMin
<1>3. ASSUME NEW y \in S, y < x PROVE FALSE
  <2>1. <<y, x>> \in Nat \X Nat /\ <<y, x>>[1] < <<y, x>>[2]
    BY <1>3
  <2>2. QED
    BY <2>1, <1>2 DEF NatOrder
<1>4. \A y \in S : x <= y
  BY <1>3
<1>5. QED
  BY <1>4 DEF Min

LEMMA CollectKeeps ==
    ASSUME NsInv, NEW p \in Pids, CgKillCollect(p)
    PROVE  NsInv'
<1>1. /\ UNCHANGED <<task, nextPid, ns, forking, reaped, reaplog>> /\ p \in Alive /\ ~Stopping
      /\ targets' = [targets EXCEPT ![p] = Victims(p)] /\ marked' = [marked EXCEPT ![p] = 0]
      /\ task[p].cg # Group /\ bornIn' = {}
      /\ stopped' = IF Victims(p) = {} THEN "empty" ELSE "unknown"
  BY DEF CgKillCollect, Calls, NamesKept
<1>2. SamePlaces /\ Alive' = Alive
  BY <1>1 DEF SamePlaces, NsInv, IdTypes, Alive, Here, Zombie
<1>3. Victims(p) \subseteq Pids
  BY AliveIsHere DEF Victims
<1>4. targets' \in [Pids -> SUBSET Pids] /\ marked' \in [Pids -> Nat]
      /\ \A k \in Pids : targets'[k] # {} => k = p
  BY <1>1, <1>3 DEF NsInv, IdTypes, Stopping
<1>5. IdTypes' /\ NamesAreTaken' /\ ChildrenAreNew' /\ GoneIsReaped' /\ LogIsTail' /\ LpidsUnique'
  BY <1>1, <1>2, <1>4, SameNames
<1>6. \A q \in Alive : task[q].cg = Group => q \in Victims(p)
  BY <1>1 DEF Victims
<1>7. targets'[p] = Victims(p)
  BY <1>1 DEF NsInv, IdTypes
<1>8. KillGoesOn'
  BY <1>1, <1>2, <1>4, <1>6, <1>7 DEF KillGoesOn
<1>9. StragglersAreNew'
  BY <1>1, <1>2, <1>6 DEF StragglersAreNew
<1>10. QED
  BY <1>5, <1>8, <1>9 DEF NsInv

LEMMA KillOneKeeps ==
    ASSUME NsInv, NEW p \in Pids, CgKillOne(p)
    PROVE  NsInv'
<1> DEFINE t == Min(targets[p])
           n == marked[p] + (IF Mortal(t) THEN 1 ELSE 0)
           last == targets[p] = {t}
<1>1. /\ targets[p] # {} /\ targets' = [targets EXCEPT ![p] = @ \ {t}]
      /\ marked' = [marked EXCEPT ![p] = IF last THEN 0 ELSE n]
      /\ (IF Mortal(t) THEN task' = [task EXCEPT ![t].killed = TRUE] ELSE task' = task)
      /\ (stopped' # "unknown" => last)
      /\ UNCHANGED <<nextPid, ns, forking, reaped, reaplog, bornIn>>
  BY DEF CgKillOne, Set, NamesKept
<1>2. targets[p] \subseteq Pids /\ targets[p] \subseteq Nat /\ t \in targets[p] /\ t \in Pids
  <2>1. targets[p] \subseteq Pids /\ targets[p] \subseteq Nat
    BY DEF NsInv, IdTypes, Pids
  <2>2. QED
    BY <1>1, <2>1, MinIsLeast
<1>3. targets' \in [Pids -> SUBSET Pids] /\ marked' \in [Pids -> Nat]
      /\ targets'[p] = targets[p] \ {t} /\ \A k \in Pids \ {p} : targets'[k] = targets[k]
  <2>1. marked[p] \in Nat /\ marked \in [Pids -> Nat] /\ targets \in [Pids -> SUBSET Pids]
    BY DEF NsInv, IdTypes
  <2>2. n \in Nat
    BY <2>1
  <2> HIDE DEF n, t, last
  <2>3. QED
    BY <1>1, <1>2, <2>1, <2>2
<1> HIDE DEF n, last
<1>4. /\ SamePlaces /\ Alive' = Alive /\ \A q \in Pids \ {t} : task'[q] = task[q]
      /\ t \in Alive => task'[t].killed
  <2> HIDE DEF t
  <2>1. CASE Mortal(t)
    <3>1. t \in Alive /\ t \in Here /\ task' = [task EXCEPT ![t].killed = TRUE]
      BY <1>1, <2>1, AliveIsHere DEF Mortal
    <3>2. SamePlaces /\ Alive' = Alive /\ \A q \in Pids \ {t} : task'[q] = task[q]
      BY <3>1, MarkKeepsPlaces
    <3>3. task'[t].killed
      BY <1>2, <3>1 DEF NsInv, IdTypes, EntryType
    <3>4. QED
      BY <3>2, <3>3
  <2>2. CASE ~Mortal(t)
    <3>1. task' = task /\ t \notin Alive
      BY <1>1, <2>2 DEF Mortal
    <3>2. QED
      BY <3>1 DEF SamePlaces, NsInv, IdTypes, Alive, Here, Zombie
  <2>3. QED
    BY <2>1, <2>2
<1>5. IdTypes' /\ NamesAreTaken' /\ ChildrenAreNew' /\ GoneIsReaped' /\ LogIsTail' /\ LpidsUnique'
  BY <1>1, <1>3, <1>4, SameNames
<1> HIDE DEF t
<1>6. ASSUME NEW k \in Pids, targets[k] # {}, NEW q \in Alive, task'[q].cg = Group, ~task'[q].killed
      PROVE  q \in bornIn \cup (targets[k] \ {t})
  <2>1. q # t /\ task'[q] = task[q]
    BY <1>4, <1>6, AliveIsHere
  <2>2. QED
    BY <1>6, <2>1 DEF NsInv, KillGoesOn
<1>7. KillGoesOn'
  <2>1. \A k \in Pids : targets'[k] # {} => targets[k] # {} /\ targets[k] \ {t} \subseteq targets'[k]
    BY <1>3
  <2>2. QED
    BY <1>1, <1>4, <1>6, <2>1 DEF KillGoesOn
<1>8. StragglersAreNew'
  <2>1. SUFFICES ASSUME last, NEW q \in Alive, task'[q].cg = Group, ~task'[q].killed PROVE q \in bornIn
    BY <1>1, <1>4 DEF StragglersAreNew
  <2>2. targets[p] \ {t} = {}
    BY <2>1 DEF last
  <2>3. QED
    BY <1>1, <1>6, <2>1, <2>2
<1>9. QED
  BY <1>5, <1>7, <1>8 DEF NsInv

\* fork takes a pid
LEMMA ForkPidKeeps ==
    ASSUME NsInv, NEW p \in Pids, ForkPid(p)
    PROVE  NsInv'
<1>1. /\ UNCHANGED <<task, ns, reaplog, reaped, targets, marked>> /\ stopped' = "unknown" /\ Came({})
      /\ p \in Alive /\ forking[p] = Nothing /\ nextPid <= MaxPid /\ nextPid' = nextPid + 1
      /\ forking' = [forking EXCEPT ![p] = [child |-> nextPid, cg |-> task[p].cg]]
  BY DEF ForkPid, Calls, KillKept
<1>2. /\ nextPid \in 2 .. MaxPid + 1 /\ MaxPid \in Nat /\ p \in Pids /\ task[p].cg \in Nat
      /\ forking \in [Pids -> [child : Nat, cg : Nat]]
  BY NsAssumption, <1>1, AliveIsHere DEF NsInv, IdTypes, EntryType
<1>3. /\ nextPid \in Pids /\ nextPid' \in 2 .. MaxPid + 1 /\ task[nextPid] = Nobody
      /\ forking' \in [Pids -> [child : Nat, cg : Nat]]
  <2>1. nextPid \in Pids /\ nextPid' \in 2 .. MaxPid + 1
    BY SMTT(20), <1>1, <1>2 DEF Pids
  <2>2. task[nextPid] = Nobody
    BY <1>2, <2>1 DEF NsInv, NamesAreTaken
  <2>3. QED
    BY <1>1, <1>2, <2>1, <2>2
<1>4. forking'[p].child = nextPid /\ forking'[p] # Nothing /\ \A q \in Pids \ {p} : forking'[q] = forking[q]
  BY <1>1, <1>2 DEF Nothing
<1>5. IdTypes'
  BY <1>1, <1>3 DEF NsInv, IdTypes
<1>6. NamesAreTaken' /\ LpidsUnique' /\ LogIsTail'
  <2>1. \A q \in Pids : q < nextPid => q < nextPid'
    BY <1>1, <1>2 DEF Pids
  <2>2. NamesAreTaken'
    BY <1>1, <2>1 DEF NsInv, NamesAreTaken
  <2>3. QED
    BY <1>1, <2>2 DEF NsInv, LpidsUnique, LogIsTail, Here, InNs
<1>7. ChildrenAreNew'
  <2>1. ASSUME NEW q \in Pids, forking'[q] # Nothing
        PROVE  forking'[q].child \in 2 .. nextPid' - 1 /\ task'[forking'[q].child] = Nobody
    <3>1. CASE q = p
      BY <1>1, <1>2, <1>3, <1>4, <3>1
    <3>2. CASE q # p
      <4>1. forking'[q] = forking[q] /\ forking[q].child \in 2 .. nextPid - 1
            /\ task[forking[q].child] = Nobody
        BY <1>4, <2>1, <3>2 DEF NsInv, ChildrenAreNew
      <4>2. QED
        BY <1>1, <1>2, <4>1
    <3>3. QED
      BY <3>1, <3>2
  <2>2. ASSUME NEW q \in Pids PROVE forking[q].child # nextPid
    <3>1. CASE forking[q] = Nothing
      BY <1>2, <3>1 DEF Nothing
    <3>2. CASE forking[q] # Nothing
      BY <1>2, <3>2 DEF NsInv, ChildrenAreNew
    <3>3. QED
      BY <3>1, <3>2
  <2>3. ASSUME NEW q \in Pids, NEW o \in Pids, q # o, forking'[q] # Nothing
        PROVE  forking'[q].child # forking'[o].child
    <3>1. CASE q = p \/ o = p
      BY <1>4, <2>2, <2>3, <3>1
    <3>2. CASE q # p /\ o # p
      BY <1>4, <2>3, <3>2 DEF NsInv, ChildrenAreNew
    <3>3. QED
      BY <3>1, <3>2
  <2>4. QED
    BY <2>1, <2>3 DEF ChildrenAreNew
<1>8. GoneIsReaped'
  <2>1. SUFFICES ASSUME NEW o \in Pids, o < nextPid', task[o] = Nobody,
                        \A q \in Pids : forking'[q].child # o
                 PROVE  \E i \in DOMAIN reaped : reaped[i].pid = o
    BY <1>1 DEF GoneIsReaped
  <2>2. o # nextPid
    BY <1>4, <2>1
  <2>3. o < nextPid
    BY <1>1, <1>2, <2>1, <2>2 DEF Pids
  <2>4. \A q \in Pids : forking[q].child # o
    BY <1>1, <1>4, <2>1 DEF Nothing, Pids
  <2>5. QED
    BY <2>1, <2>3, <2>4 DEF NsInv, GoneIsReaped
<1>9. KillGoesOn' /\ StragglersAreNew'
  BY <1>1 DEF NsInv, KillGoesOn, StragglersAreNew, Came, Stopping, Alive, Here, Zombie
<1>10. QED
  BY <1>5, <1>6, <1>7, <1>8, <1>9 DEF NsInv

\* The namespace a fork founds is a new one, or one that nobody in the table is in.
LEMMA FoundedIsDead ==
    ASSUME NsInv
    PROVE  /\ NewNs \in 1 .. Len(ns) + 1 /\ Len(ns) \in Nat /\ InNs(NewNs) = {}
           /\ Founded(NewNs) \in Seq(Nat \ {0}) /\ Len(Founded(NewNs)) >= Len(ns)
           /\ NewNs <= Len(Founded(NewNs)) /\ Founded(NewNs)[NewNs] = 2
           /\ \A m \in 1 .. Len(ns) : m # NewNs => Founded(NewNs)[m] = ns[m]
<1>1. ns \in Seq(Nat \ {0}) /\ Len(ns) \in Nat /\ DOMAIN ns = 1 .. Len(ns)
  BY DEF NsInv, IdTypes
<1>2. CASE DeadNs = {}
  <2>1. NewNs = Len(ns) + 1
    BY <1>2 DEF NewNs
  <2>2. InNs(NewNs) = {}
    <3>1. ASSUME NEW q \in InNs(Len(ns) + 1) PROVE FALSE
      <4>1. q \in Pids /\ task[q] # Nobody /\ task[q].ns = Len(ns) + 1
        BY DEF InNs, Here
      <4>2. QED
        BY <1>1, <4>1 DEF NsInv, NamesAreTaken
    <3>2. QED
      BY <2>1, <3>1
  <2>3. Founded(NewNs) = Append(ns, 2)
    <3>1. NewNs > Len(ns)
      BY <1>1, <2>1
    <3>2. QED
      BY <3>1 DEF Founded
  <2> HIDE DEF NewNs
  <2>4. QED
    BY SMTT(20), <1>1, <2>1, <2>2, <2>3
<1>3. CASE DeadNs # {}
  <2>1. NewNs \in DeadNs
    <3>1. DeadNs \in SUBSET Nat
      BY <1>1 DEF DeadNs
    <3>2. Min(DeadNs) \in DeadNs
      BY <1>3, <3>1, MinIsLeast
    <3>3. QED
      BY <1>3, <3>2 DEF NewNs
  <2>2. NewNs \in 1 .. Len(ns) /\ InNs(NewNs) = {}
    BY <1>1, <2>1 DEF DeadNs
  <2>3. Founded(NewNs) = [ns EXCEPT ![NewNs] = 2]
    <3>1. ~(NewNs > Len(ns))
      BY <1>1, <2>2
    <3>2. QED
      BY <3>1 DEF Founded
  <2>4. QED
    BY <1>1, <2>2, <2>3
<1>4. QED
  BY <1>2, <1>3

\* A child comes into the table under a name that its namespace has not handed out.
LEMMA InsertKeeps ==
    ASSUME NsInv, NEW p \in Alive, forking[p] # Nothing, NEW n \in Nat, NEW l \in Nat \ {0},
           Insert(p, NewTask(p, n, l, forking[p].cg)), ns' \in Seq(Nat \ {0}),
           Len(ns') >= Len(ns),
           n = 0 => l = forking[p].child,
           n # 0 => n <= Len(ns') /\ ns'[n] = l + 1,
           \A q \in InNs(n) : n # 0 => task[q].lpid < l,
           \A m \in 1 .. Len(ns) : m # n => ns'[m] = ns[m]
    PROVE  NsInv'
<1> DEFINE c == forking[p].child
           e == NewTask(p, n, l, forking[p].cg)
<1>1. /\ task' = [task EXCEPT ![c] = e, ![p].pending = FALSE]
      /\ forking' = [forking EXCEPT ![p] = Nothing] /\ Came(IF e.cg = Group THEN {c} ELSE {})
      /\ UNCHANGED <<nextPid, reaplog, targets, marked, reaped>> /\ stopped' = "unknown"
  BY DEF Insert
<1>2. /\ p \in Pids /\ p \in Here /\ c \in Pids /\ c < nextPid /\ task[c] = Nobody /\ c # p
      /\ task \in [Pids -> EntryType] /\ forking \in [Pids -> [child : Nat, cg : Nat]]
      /\ nextPid \in Nat
  <2>1. p \in Pids /\ p \in Here
    BY AliveIsHere
  <2>2. c \in 2 .. nextPid - 1 /\ task[c] = Nobody /\ nextPid \in Nat /\ c \in Pids
    BY SMTT(20), <2>1, ChildIsPid DEF NsInv, ChildrenAreNew, IdTypes
  <2>3. QED
    BY SMTT(20), <2>1, <2>2 DEF Here, NsInv, IdTypes
<1>3. /\ e \in EntryType /\ e.st = "Live" /\ e.ns = n /\ e.lpid = l /\ e.cg = forking[p].cg
      /\ e # Nobody /\ ~e.killed
  <2>1. p \in Nat /\ forking[p].cg \in Nat
    BY <1>2 DEF Pids
  <2>2. Nobody.st = "None" /\ e.st = "Live"
    BY DEF Nobody, NewTask
  <2>3. e \in EntryType
    BY <2>1 DEF EntryType, NewTask
  <2>4. QED
    BY <2>2, <2>3 DEF NewTask
<1>0. n = 0 => l = c
  BY DEF c
<1> HIDE DEF c, e
<1>4. /\ task' \in [Pids -> EntryType] /\ task'[c] = e
      /\ \A q \in Pids \ {c} :
           /\ task'[q].ns = task[q].ns /\ task'[q].lpid = task[q].lpid /\ task'[q].st = task[q].st
           /\ task'[q].cg = task[q].cg /\ task'[q].killed = task[q].killed
           /\ q # p => task'[q] = task[q]
  <2>1. task[p] \in EntryType
    BY <1>2
  <2>2. [task[p] EXCEPT !.pending = FALSE] \in EntryType
    BY <2>1 DEF EntryType
  <2> DEFINE t == [task[p] EXCEPT !.pending = FALSE]
  <2>3. t.ns = task[p].ns /\ t.lpid = task[p].lpid /\ t.st = task[p].st /\ t.cg = task[p].cg /\ t.killed = task[p].killed
    BY <2>1 DEF EntryType
  <2>4. task' = [[task EXCEPT ![c] = e] EXCEPT ![p] = t]
    BY <1>1, <1>2
  <2> HIDE DEF t
  <2>5. task' \in [Pids -> EntryType] /\ task'[c] = e /\ task'[p] = t
    BY <1>2, <1>3, <2>2, <2>4 DEF t
  <2>6. \A q \in Pids \ {c, p} : task'[q] = task[q]
    BY <1>2, <2>4
  <2>7. QED
    BY <2>3, <2>5, <2>6
<1>5. \A q \in Pids \ {c} : task'[q] = Nobody <=> task[q] = Nobody
  <2>1. task[p].st # "None" /\ Nobody.st = "None"
    BY <1>2 DEF NsInv, NamesAreTaken, Here, Nobody, NewTask
  <2>2. task'[p] # Nobody /\ task[p] # Nobody
    BY <1>2, <1>4, <2>1
  <2>3. QED
    BY <1>4, <2>2
<1>6. /\ forking' \in [Pids -> [child : Nat, cg : Nat]] /\ forking'[p] = Nothing
      /\ \A q \in Pids \ {p} : forking'[q] = forking[q]
  BY <1>1, <1>2 DEF Nothing
<1>7. IdTypes'
  BY <1>1, <1>4, <1>6 DEF NsInv, IdTypes
<1>8. NamesAreTaken'
  <2>1. ASSUME NEW q \in Pids, task'[q] # Nobody
        PROVE  /\ q < nextPid /\ task'[q].st # "None"
               /\ task'[q].ns = 0 => task'[q].lpid = q
               /\ task'[q].ns # 0 => task'[q].ns <= Len(ns')
                                     /\ task'[q].lpid \in 1 .. ns'[task'[q].ns] - 1
    <3>1. CASE q = c
      <4>1. task'[q] = e /\ q < nextPid /\ (n = 0 => l = q)
        BY <1>0, <1>2, <1>4, <3>1
      <4>2. n # 0 => n <= Len(ns') /\ ns'[n] - 1 = l /\ l \in 1 .. l
        OBVIOUS
      <4>3. QED
        BY <1>3, <4>1, <4>2
    <3>2. CASE q # c
      <4>1. /\ task[q] # Nobody /\ q < nextPid /\ task[q].st # "None"
            /\ task[q].ns = 0 => task[q].lpid = q
            /\ task[q].ns # 0 => task[q].ns <= Len(ns) /\ task[q].lpid \in 1 .. ns[task[q].ns] - 1
        BY <1>5, <2>1, <3>2 DEF NsInv, NamesAreTaken
      <4>2. /\ task'[q].st = task[q].st /\ task'[q].ns = task[q].ns /\ task'[q].lpid = task[q].lpid
            /\ task[q].ns \in Nat /\ task[q].lpid \in Nat
        BY <1>2, <1>4, <3>2 DEF EntryType
      <4>3. CASE task[q].ns # 0
        <5>0. ns \in Seq(Nat \ {0}) /\ Len(ns) \in Nat /\ Len(ns') \in Nat
          BY DEF NsInv, IdTypes
        <5>1. task[q].ns \in 1 .. Len(ns) /\ ns \in Seq(Nat \ {0}) /\ Len(ns) \in Nat /\ Len(ns') \in Nat
              /\ ns[task[q].ns] \in Nat
          BY SMTT(20), <4>1, <4>2, <4>3, <5>0
        <5>2. CASE task[q].ns = n
          <6>1. task[q].lpid < l /\ task[q].lpid >= 1
            <7>1. q \in InNs(n)
              BY <4>1, <5>2 DEF InNs, Here
            <7>2. task[q].lpid < l
              BY <4>3, <5>2, <7>1
            <7>3. QED
              BY <4>1, <4>2, <4>3, <5>1, <7>2
          <6>2. QED
            BY SMTT(20), <4>1, <4>2, <4>3, <5>1, <5>2, <6>1
        <5>3. CASE task[q].ns # n
          BY SMTT(20), <4>1, <4>2, <4>3, <5>1, <5>3
        <5>4. QED
          BY <5>2, <5>3
      <4>4. QED
        BY <4>1, <4>2, <4>3
    <3>3. QED
      BY <3>1, <3>2
  <2>2. QED
    BY <1>1, <2>1 DEF NamesAreTaken
<1>9. ChildrenAreNew'
  <2>1. ASSUME NEW q \in Pids, forking'[q] # Nothing
        PROVE  /\ q # p /\ forking'[q] = forking[q] /\ forking[q].child \in Pids
               /\ forking[q].child \in 2 .. nextPid - 1
               /\ forking[q].child # c /\ task'[forking[q].child] = Nobody
    <3>1. q # p /\ forking'[q] = forking[q]
      BY <1>6, <2>1
    <3>2. /\ forking[q].child \in Pids /\ forking[q].child \in 2 .. nextPid - 1
          /\ forking[q].child # c /\ task[forking[q].child] = Nobody
      BY <1>2, <2>1, <3>1, ChildIsPid DEF NsInv, ChildrenAreNew, c
    <3>3. QED
      BY <1>5, <3>1, <3>2
  <2>2. ASSUME NEW q \in Pids, NEW o \in Pids, q # o, forking'[q] # Nothing
        PROVE  forking'[q].child # forking'[o].child
    <3>1. CASE o = p
      BY <1>6, <2>1, <2>2, <3>1 DEF Nothing
    <3>2. CASE o # p
      <4>1. forking'[q] = forking[q] /\ forking'[o] = forking[o] /\ forking[q] # Nothing
        BY <1>6, <2>1, <2>2, <3>2
      <4>2. QED
        BY <2>2, <4>1 DEF NsInv, ChildrenAreNew
    <3>3. QED
      BY <3>1, <3>2
  <2>3. QED
    BY <1>1, <2>1, <2>2 DEF ChildrenAreNew
<1>10. GoneIsReaped'
  <2>1. SUFFICES ASSUME NEW o \in Pids, o < nextPid, task'[o] = Nobody,
                        \A q \in Pids : forking'[q].child # o
                 PROVE  \E i \in DOMAIN reaped : reaped[i].pid = o
    BY <1>1 DEF GoneIsReaped
  <2>2. o # c /\ task[o] = Nobody
    BY <1>3, <1>4, <1>5, <2>1
  <2>3. \A q \in Pids : forking[q].child # o
    BY <1>6, <2>1, <2>2 DEF c
  <2>4. QED
    BY <2>1, <2>2, <2>3 DEF NsInv, GoneIsReaped
<1>11. LogIsTail' /\ StragglersAreNew'
  BY <1>1 DEF NsInv, LogIsTail, StragglersAreNew
<1>12. LpidsUnique'
  <2>1. \A q \in Pids : q # c /\ task'[q] # Nobody => q \in Here
    BY <1>5 DEF Here
  <2>2. ASSUME NEW q \in Pids, q # c, task'[q] # Nobody, task'[q].ns = n
        PROVE  task'[q].lpid # l
    <3>1. q \in InNs(n) /\ task'[q].lpid = task[q].lpid /\ task[q].lpid \in Nat
      BY <1>2, <1>4, <2>1, <2>2 DEF InNs, EntryType
    <3>2. CASE n # 0
      BY <3>1, <3>2
    <3>3. CASE n = 0
      <4>1. task[q].lpid = q
        BY <3>1, <3>3 DEF NsInv, NamesAreTaken, InNs, Here
      <4>2. QED
        BY <2>2, <3>1, <3>3, <4>1 DEF c
    <3>4. QED
      BY <3>2, <3>3
  <2>3. ASSUME NEW q \in Here', NEW o \in Here', q # o, task'[q].ns = task'[o].ns
        PROVE  task'[q].lpid # task'[o].lpid
    <3>1. q \in Pids /\ o \in Pids /\ task'[q] # Nobody /\ task'[o] # Nobody
      BY DEF Here
    <3>2. CASE q = c \/ o = c
      BY <1>3, <1>4, <2>2, <2>3, <3>1, <3>2
    <3>3. CASE q # c /\ o # c
      BY <1>4, <2>1, <2>3, <3>1, <3>3 DEF NsInv, LpidsUnique
    <3>4. QED
      BY <3>2, <3>3
  <2>4. ASSUME NEW q \in InNs(0)' PROVE task'[q].lpid = q
    BY <1>8 DEF InNs, Here, NamesAreTaken
  <2>5. QED
    BY <2>3, <2>4 DEF LpidsUnique
<1>13. KillGoesOn'
  <2>1. SUFFICES ASSUME NEW k \in Pids, targets[k] # {}, NEW q \in Alive', task'[q].cg = Group,
                        ~task'[q].killed
                 PROVE  q \in bornIn' \cup targets[k]
    BY <1>1 DEF KillGoesOn
  <2>2. bornIn' = bornIn \cup (IF e.cg = Group THEN {c} ELSE {})
    BY <1>1, <2>1 DEF Came, Stopping
  <2>3. CASE q = c
    BY <1>4, <2>1, <2>2, <2>3
  <2>4. CASE q # c
    <3>1. q \in Pids /\ task'[q] # Nobody /\ task'[q].st # "Zombie"
      BY DEF Alive, Here, Zombie
    <3>2. q \in Alive /\ task[q].cg = Group /\ ~task[q].killed
      BY <1>4, <1>5, <2>1, <2>4, <3>1 DEF Alive, Here, Zombie
    <3>3. QED
      BY <2>1, <2>2, <3>2 DEF NsInv, KillGoesOn
  <2>5. QED
    BY <2>3, <2>4
<1>14. QED
  BY <1>7, <1>8, <1>9, <1>10, <1>11, <1>12, <1>13 DEF NsInv

LEMMA ForkInsertKeeps ==
    ASSUME NsInv, NEW p \in Pids, ForkFounds(p) \/ ForkInherits(p)
    PROVE  NsInv'
<1>1. p \in Alive /\ forking[p] # Nothing
  BY DEF ForkFounds, ForkInherits
<1>2. p \in Pids /\ task[p] # Nobody /\ task[p].ns \in Nat /\ ns \in Seq(Nat \ {0}) /\ Len(ns) \in Nat
  BY <1>1 DEF Alive, Here, NsInv, IdTypes, EntryType
<1>3. CASE ForkFounds(p)
  <2>1. /\ ns' = Founded(NewNs) /\ Insert(p, NewTask(p, NewNs, 1, forking[p].cg))
    BY <1>3 DEF ForkFounds
  <2>2. /\ NewNs \in Nat \ {0} /\ InNs(NewNs) = {} /\ ns' \in Seq(Nat \ {0}) /\ Len(ns') >= Len(ns)
        /\ NewNs <= Len(ns') /\ ns'[NewNs] = 1 + 1
        /\ \A m \in 1 .. Len(ns) : m # NewNs => ns'[m] = ns[m]
    BY <2>1, FoundedIsDead
  <2> DEFINE n == NewNs
             l == 1
  <2>3. /\ n \in Nat /\ n # 0 /\ l \in Nat \ {0} /\ Insert(p, NewTask(p, n, l, forking[p].cg))
        /\ ns'[n] = l + 1 /\ n <= Len(ns') /\ \A m \in 1 .. Len(ns) : m # n => ns'[m] = ns[m]
    BY <2>1, <2>2
  <2>4. \A q \in InNs(n) : task[q].lpid < l
    BY <2>2
  <2> HIDE DEF n, l
  <2>5. QED
    BY <1>1, <2>2, <2>3, <2>4, InsertKeeps
<1>4. CASE ForkInherits(p) /\ task[p].ns = 0
  <2>1. ns' = ns /\ Insert(p, NewTask(p, 0, forking[p].child, forking[p].cg))
    BY <1>4 DEF ForkInherits
  <2>2. forking[p].child \in Nat \ {0}
    BY <1>1, <1>2, ChildIsPid DEF Pids
  <2>3. QED
    BY <1>1, <1>2, <2>1, <2>2, InsertKeeps
<1>5. CASE ForkInherits(p) /\ task[p].ns # 0
  <2> DEFINE n == task[p].ns
  <2>1. ns' = [ns EXCEPT ![n] = @ + 1] /\ Insert(p, NewTask(p, n, ns[n], forking[p].cg))
    BY <1>5 DEF ForkInherits
  <2>2. n \in 1 .. Len(ns) /\ n # 0 /\ n \in Nat
    BY <1>2, <1>5 DEF NsInv, NamesAreTaken
  <2>3. \A q \in InNs(n) : task[q].lpid < ns[n]
    <3>1. ASSUME NEW q \in InNs(n) PROVE task[q].lpid < ns[n]
      <4>1. q \in Pids /\ task[q] # Nobody /\ task[q].ns = n
        BY DEF InNs, Here
      <4>2. task[q].lpid \in 1 .. ns[n] - 1 /\ ns[n] \in Nat
        BY <1>2, <2>2, <4>1 DEF NsInv, NamesAreTaken
      <4>3. QED
        BY <4>2
    <3>2. QED
      BY <3>1
  <2> HIDE DEF n
  <2>4. /\ ns[n] \in Nat \ {0} /\ ns' \in Seq(Nat \ {0}) /\ Len(ns') >= Len(ns) /\ n <= Len(ns')
        /\ ns'[n] = ns[n] + 1 /\ \A m \in 1 .. Len(ns) : m # n => ns'[m] = ns[m]
    BY <1>2, <2>1, <2>2
  <2>5. QED
    BY <1>1, <2>1, <2>2, <2>3, <2>4, InsertKeeps
<1>6. QED
  BY <1>3, <1>4, <1>5

\* nsenter
LEMMA EnterKeeps ==
    ASSUME NsInv, NEW p \in Pids, NEW t \in Pids, NsEnter(p, t)
    PROVE  NsInv'
<1> DEFINE n == task[t].ns
<1>1. /\ task' = [task EXCEPT ![p].ns = n, ![p].lpid = ns[n]] /\ ns' = [ns EXCEPT ![n] = @ + 1]
      /\ UNCHANGED <<nextPid, forking, reaped, reaplog, targets, marked>>
      /\ Came({}) /\ stopped' = "unknown" /\ p \in Alive /\ t \in Here /\ n # 0
  BY DEF NsEnter, Entered, KillKept, Calls
<1>2. /\ task \in [Pids -> EntryType] /\ ns \in Seq(Nat \ {0}) /\ Len(ns) \in Nat
      /\ p \in Here /\ task[p] # Nobody /\ task[t] # Nobody
  BY <1>1, AliveIsHere DEF NsInv, IdTypes, Here
<1>3. n \in 1 .. Len(ns) /\ n \in Nat
  BY <1>1, <1>2 DEF NsInv, NamesAreTaken, EntryType
<1> HIDE DEF n
<1>4. /\ ns[n] \in Nat \ {0} /\ ns' \in Seq(Nat \ {0}) /\ Len(ns') = Len(ns)
      /\ ns'[n] = ns[n] + 1 /\ \A m \in 1 .. Len(ns) : m # n => ns'[m] = ns[m]
  BY <1>1, <1>2, <1>3
<1>5. /\ task' \in [Pids -> EntryType] /\ task'[p].ns = n /\ task'[p].lpid = ns[n]
      /\ \A q \in Pids : /\ task'[q].st = task[q].st /\ task'[q].cg = task[q].cg
                         /\ task'[q].killed = task[q].killed
                         /\ q # p => task'[q] = task[q]
  <2>1. task[p] \in EntryType /\ ns[n] \in Nat /\ n \in Nat
    BY <1>2, <1>3, <1>4
  <2> DEFINE moved == [task[p] EXCEPT !.ns = n, !.lpid = ns[n]]
  <2>2. moved \in EntryType
    BY <2>1 DEF EntryType
  <2>3. moved.ns = n /\ moved.lpid = ns[n] /\ moved.st = task[p].st /\ moved.cg = task[p].cg /\ moved.killed = task[p].killed
    BY <2>1 DEF EntryType
  <2>4. task' = [task EXCEPT ![p] = moved]
    BY <1>1, <1>2
  <2> HIDE DEF moved
  <2>5. task' \in [Pids -> EntryType] /\ task'[p] = moved
    BY <1>2, <2>2, <2>4
  <2>6. \A q \in Pids \ {p} : task'[q] = task[q]
    BY <1>2, <2>4
  <2>7. QED
    BY <2>3, <2>5, <2>6
<1>6. \A q \in Pids : task'[q] = Nobody <=> task[q] = Nobody
  <2>1. task[p].st # "None" /\ Nobody.st = "None"
    BY <1>2 DEF NsInv, NamesAreTaken, Nobody, NewTask
  <2>2. QED
    BY <1>2, <1>5, <2>1
<1>7. Here' = Here /\ Alive' = Alive
  BY <1>5, <1>6 DEF Here, Alive, Zombie
<1>8. IdTypes'
  BY <1>1, <1>4, <1>5 DEF NsInv, IdTypes
<1>9. ASSUME NEW q \in Pids, q # p, task[q] # Nobody, task[q].ns = n
      PROVE  task[q].lpid \in 1 .. ns[n] - 1
  BY <1>1, <1>9 DEF NsInv, NamesAreTaken
<1>10. NamesAreTaken'
  <2>1. ASSUME NEW q \in Pids, task'[q] # Nobody
        PROVE  /\ q < nextPid /\ task'[q].st # "None"
               /\ task'[q].ns = 0 => task'[q].lpid = q
               /\ task'[q].ns # 0 => task'[q].ns <= Len(ns')
                                     /\ task'[q].lpid \in 1 .. ns'[task'[q].ns] - 1
    <3>0. q < nextPid /\ task'[q].st # "None"
      BY <1>5, <1>6, <2>1 DEF NsInv, NamesAreTaken
    <3>1. CASE q = p
      BY <1>1, <1>2, <1>3, <1>4, <1>5, <3>0, <3>1
    <3>2. CASE q # p
      <4>1. /\ task'[q] = task[q] /\ task[q] # Nobody /\ task[q].ns \in Nat
            /\ task[q].ns = 0 => task[q].lpid = q
            /\ task[q].ns # 0 => task[q].ns <= Len(ns) /\ task[q].lpid \in 1 .. ns[task[q].ns] - 1
        BY <1>2, <1>5, <1>6, <2>1, <3>2 DEF NsInv, NamesAreTaken, EntryType
      <4>2. CASE task[q].ns = n
        BY <1>1, <1>3, <1>4, <3>0, <4>1, <4>2
      <4>3. CASE task[q].ns # n
        BY <1>2, <1>4, <3>0, <4>1, <4>3
      <4>4. QED
        BY <4>2, <4>3
    <3>3. QED
      BY <3>1, <3>2
  <2>2. QED
    BY <1>1, <2>1 DEF NamesAreTaken
<1>11. ChildrenAreNew'
  <2>1. \A q \in Pids : forking[q] # Nothing => forking[q].child \in Pids
    BY ChildIsPid
  <2>2. QED
    BY <1>1, <1>6, <2>1 DEF NsInv, ChildrenAreNew
<1>12. GoneIsReaped' /\ LogIsTail' /\ StragglersAreNew'
  BY <1>1, <1>6 DEF NsInv, GoneIsReaped, LogIsTail, StragglersAreNew
<1>13. LpidsUnique'
  <2>1. ASSUME NEW q \in Here, NEW o \in Here, q # o, task'[q].ns = task'[o].ns
        PROVE  task'[q].lpid # task'[o].lpid
    <3>1. q \in Pids /\ o \in Pids /\ task[q] # Nobody /\ task[o] # Nobody
      BY DEF Here
    <3>2. CASE q = p
      <4>1. task[o].ns = n /\ task'[o].lpid = task[o].lpid /\ o # p
        BY <1>5, <2>1, <3>1, <3>2
      <4>2. task[o].lpid \in 1 .. ns[n] - 1
        BY <1>9, <3>1, <4>1
      <4>3. QED
        BY <1>4, <1>5, <3>2, <4>1, <4>2
    <3>3. CASE o = p
      <4>1. task[q].ns = n /\ task'[q].lpid = task[q].lpid /\ q # p
        BY <1>5, <2>1, <3>1, <3>3
      <4>2. task[q].lpid \in 1 .. ns[n] - 1
        BY <1>9, <3>1, <4>1
      <4>3. QED
        BY <1>4, <1>5, <3>3, <4>1, <4>2
    <3>4. CASE q # p /\ o # p
      BY <1>5, <2>1, <3>1, <3>4 DEF NsInv, LpidsUnique
    <3>5. QED
      BY <3>2, <3>3, <3>4
  <2>2. ASSUME NEW q \in InNs(0)' PROVE task'[q].lpid = q
    BY <1>10 DEF InNs, Here, NamesAreTaken
  <2>3. QED
    BY <1>7, <2>1, <2>2 DEF LpidsUnique
<1>14. KillGoesOn'
  <2>1. \A k \in Pids : targets[k] # {} => bornIn' = bornIn
    BY <1>1 DEF Came, Stopping
  <2>2. \A q \in Alive : task'[q].cg = task[q].cg /\ task'[q].killed = task[q].killed
    BY <1>5, AliveIsHere
  <2>3. QED
    BY <1>1, <1>7, <2>1, <2>2 DEF NsInv, KillGoesOn
<1>15. QED
  BY <1>8, <1>10, <1>11, <1>12, <1>13, <1>14 DEF NsInv

\* exit
LEMMA LeaveKeeps ==
    ASSUME NsInv, NEW p \in Pids, Leave(p)
    PROVE  NsInv'
<1>1. /\ task' = [q \in Pids |->
           IF q = p THEN [task[q] EXCEPT !.st = "Zombie"]
           ELSE IF q \in Orphans(p) THEN [task[q] EXCEPT !.parent = Init1] ELSE task[q]]
      /\ UNCHANGED <<nextPid, ns, forking, reaped, reaplog, targets, marked>>
      /\ Came({}) /\ stopped' = "unknown" /\ p \in Alive
  BY DEF Leave, KillKept
<1>2. task \in [Pids -> EntryType] /\ Nobody.st = "None" /\ p \in Here
      /\ \A q \in Pids : task[q] # Nobody => task[q].st # "None"
  BY <1>1, AliveIsHere DEF NsInv, IdTypes, NamesAreTaken, Nobody, NewTask
<1>3. ASSUME NEW q \in Pids
      PROVE  /\ task'[q] \in EntryType
             /\ task'[q].ns = task[q].ns /\ task'[q].lpid = task[q].lpid
             /\ task'[q].cg = task[q].cg /\ task'[q].killed = task[q].killed
             /\ task'[q].st = IF q = p THEN "Zombie" ELSE task[q].st
             /\ q # p /\ q \notin Orphans(p) => task'[q] = task[q]
  <2>1. task[q] \in EntryType
    BY <1>2
  <2>2. CASE q = p
    <3>1. task'[q] = [task[q] EXCEPT !.st = "Zombie"]
      BY <1>1, <2>2
    <3>2. QED
      BY <2>1, <2>2, <3>1 DEF EntryType
  <2>3. CASE q # p /\ q \in Orphans(p)
    <3>1. task'[q] = [task[q] EXCEPT !.parent = Init1] /\ Init1 \in Nat
      BY <1>1, <2>3 DEF Init1
    <3>2. QED
      BY <2>1, <2>3, <3>1 DEF EntryType
  <2>4. CASE q # p /\ q \notin Orphans(p)
    BY <1>1, <2>1, <2>4
  <2>5. QED
    BY <2>2, <2>3, <2>4
<1>4. \A q \in Pids : task'[q] = Nobody <=> task[q] = Nobody
  <2>1. ASSUME NEW q \in Pids, task[q] = Nobody PROVE task'[q] = Nobody
    <3>1. q # p /\ q \notin Orphans(p)
      BY <1>2, <2>1 DEF Orphans, Here
    <3>2. QED
      BY <1>3, <2>1, <3>1
  <2>2. ASSUME NEW q \in Pids, task[q] # Nobody PROVE task'[q] # Nobody
    BY <1>2, <1>3, <2>2
  <2>3. QED
    BY <2>1, <2>2
<1>5. SamePlaces
  <2>1. task' \in [Pids -> EntryType]
    BY <1>1, <1>3
  <2>2. task[p].st # "None"
    BY <1>2 DEF Here
  <2>3. QED
    BY <1>3, <1>4, <2>1, <2>2 DEF SamePlaces
<1>6. IdTypes' /\ NamesAreTaken' /\ ChildrenAreNew' /\ GoneIsReaped' /\ LogIsTail' /\ LpidsUnique'
  BY <1>1, <1>5, SameNames DEF NsInv, IdTypes
<1>7. \A q \in Alive' : q \in Alive /\ task'[q].cg = task[q].cg /\ task'[q].killed = task[q].killed
  BY <1>3, <1>4 DEF Alive, Here, Zombie
<1>8. KillGoesOn'
  <2>1. \A k \in Pids : targets[k] # {} => bornIn' = bornIn
    BY <1>1 DEF Came, Stopping
  <2>2. QED
    BY <1>1, <1>7, <2>1 DEF NsInv, KillGoesOn
<1>9. StragglersAreNew'
  BY <1>1 DEF StragglersAreNew
<1>10. QED
  BY <1>6, <1>8, <1>9 DEF NsInv

\* An entry of the log, when the ring is full the oldest goes.
LEMMA LoggedIsTail ==
    ASSUME NsInv, NEW e \in LogType, reaped' = Append(reaped, e), reaplog' = Logged(e)
    PROVE  LogIsTail' /\ reaplog' \in Seq(LogType) /\ reaped' \in Seq(LogType)
<1>1. /\ reaped \in Seq(LogType) /\ reaplog \in Seq(LogType) /\ LogLen \in Nat \ {0}
      /\ Len(reaplog) = IF Len(reaped) < LogLen THEN Len(reaped) ELSE LogLen
      /\ \A k \in 1 .. Len(reaplog) : reaplog[k] = reaped[Len(reaped) - Len(reaplog) + k]
  BY SMTT(20), NsAssumption DEF NsInv, IdTypes, LogIsTail
<1>2. /\ Len(reaped) \in Nat /\ Len(reaplog) \in Nat /\ reaped' \in Seq(LogType)
      /\ Len(reaped') = Len(reaped) + 1 /\ reaped'[Len(reaped) + 1] = e
      /\ \A i \in 1 .. Len(reaped) : reaped'[i] = reaped[i]
  BY <1>1
<1>3. CASE Len(reaplog) = LogLen
  <2> DEFINE m == Tail(reaplog)
  <2>1. reaplog' = Append(m, e)
    BY <1>3 DEF Logged
  <2>2. reaplog # <<>>
    BY <1>1, <1>3
  <2>3. m \in Seq(LogType) /\ Len(m) = LogLen - 1
        /\ \A k \in 1 .. LogLen - 1 : m[k] = reaplog[k + 1]
    BY <1>1, <1>3, <2>2, HeadTailProperties
  <2> HIDE DEF m
  <2>4. /\ reaplog' \in Seq(LogType) /\ Len(reaplog') = LogLen /\ reaplog'[LogLen] = e
        /\ \A k \in 1 .. LogLen - 1 : reaplog'[k] = m[k]
    BY <1>1, <2>1, <2>3
  <2>5. Len(reaped) >= LogLen
    BY <1>1, <1>2, <1>3
  <2>6. ASSUME NEW k \in 1 .. LogLen PROVE reaplog'[k] = reaped'[Len(reaped') - Len(reaplog') + k]
    <3>1. CASE k = LogLen
      BY <1>1, <1>2, <2>4, <3>1
    <3>2. CASE k # LogLen
      <4>1. k \in 1 .. LogLen - 1 /\ k + 1 \in 1 .. Len(reaplog)
        BY <1>1, <1>3, <3>2
      <4>2. reaplog'[k] = reaped[Len(reaped) - LogLen + (k + 1)]
        BY <1>1, <1>3, <2>3, <2>4, <4>1
      <4>3. Len(reaped) - LogLen + (k + 1) \in 1 .. Len(reaped)
        BY <1>1, <1>2, <2>5, <4>1
      <4>4. Len(reaped') - Len(reaplog') + k = Len(reaped) - LogLen + (k + 1)
        BY <1>1, <1>2, <2>4
      <4>5. QED
        BY <1>2, <4>2, <4>3, <4>4
    <3>3. QED
      BY <3>1, <3>2
  <2>7. Len(reaplog') = IF Len(reaped') < LogLen THEN Len(reaped') ELSE LogLen
    BY <1>1, <1>2, <2>4, <2>5
  <2>8. DOMAIN reaplog' = 1 .. LogLen
    BY <2>4
  <2>9. QED
    BY <1>2, <2>4, <2>6, <2>7, <2>8 DEF LogIsTail
<1>4. CASE Len(reaplog) # LogLen
  <2>1. reaplog' = Append(reaplog, e) /\ Len(reaplog) = Len(reaped) /\ Len(reaped) < LogLen
    BY <1>1, <1>2, <1>4 DEF Logged
  <2>2. /\ reaplog' \in Seq(LogType) /\ Len(reaplog') = Len(reaped) + 1
        /\ reaplog'[Len(reaped) + 1] = e
        /\ \A k \in 1 .. Len(reaped) : reaplog'[k] = reaplog[k]
    BY <1>1, <2>1
  <2>3. Len(reaplog') = IF Len(reaped') < LogLen THEN Len(reaped') ELSE LogLen
    BY <1>1, <1>2, <2>1, <2>2
  <2>4. ASSUME NEW k \in 1 .. Len(reaped) + 1
        PROVE  reaplog'[k] = reaped'[Len(reaped') - Len(reaplog') + k]
    <3>1. Len(reaped') - Len(reaplog') + k = k
      BY <1>2, <2>2
    <3>2. CASE k = Len(reaped) + 1
      BY <1>2, <2>2, <3>1, <3>2
    <3>3. CASE k # Len(reaped) + 1
      <4>1. k \in 1 .. Len(reaped) /\ Len(reaped) - Len(reaplog) + k = k
        BY <1>2, <2>1, <3>3
      <4>2. QED
        BY <1>1, <1>2, <2>1, <2>2, <3>1, <4>1
    <3>4. QED
      BY <3>2, <3>3
  <2>5. DOMAIN reaplog' = 1 .. Len(reaped) + 1
    BY <2>2
  <2>6. QED
    BY <1>2, <2>2, <2>3, <2>4, <2>5 DEF LogIsTail
<1>5. QED
  BY <1>3, <1>4

\* waitpid
LEMMA WaitKeeps ==
    ASSUME NsInv, NEW p \in Pids, NEW n \in 0 .. MaxPid, WaitPid(p, n)
    PROVE  NsInv'
<1>1. PICK c \in Orphans(p) :
        /\ Zombie(c) /\ task' = [task EXCEPT ![c] = Nobody]
        /\ reaped' = Append(reaped, [pid |-> c, killed |-> task[c].killed])
        /\ reaplog' = Logged([pid |-> c, killed |-> task[c].killed])
        /\ KillKept /\ UNCHANGED <<nextPid, ns, forking, calls>>
  BY DEF WaitPid
<1>2. /\ UNCHANGED <<nextPid, ns, forking, targets, marked>> /\ Came({}) /\ stopped' = "unknown"
  BY <1>1 DEF KillKept
<1>3. /\ c \in Pids /\ task[c] # Nobody /\ task \in [Pids -> EntryType] /\ Nobody \in EntryType
      /\ reaped \in Seq(LogType) /\ Len(reaped) \in Nat
  <2>1. c \in Pids /\ task[c] # Nobody
    BY DEF Orphans, Here
  <2>2. Nobody \in EntryType
    BY DEF Nobody, NewTask, EntryType
  <2>3. QED
    BY <2>1, <2>2 DEF NsInv, IdTypes
<1>4. [pid |-> c, killed |-> task[c].killed] \in LogType
  BY <1>3 DEF EntryType, LogType
<1>5. LogIsTail' /\ reaplog' \in Seq(LogType) /\ reaped' \in Seq(LogType)
  BY <1>1, <1>4, LoggedIsTail
<1>6. /\ task' \in [Pids -> EntryType] /\ task'[c] = Nobody
      /\ \A q \in Pids \ {c} : task'[q] = task[q]
  BY <1>1, <1>3
<1>7. IdTypes'
  BY <1>2, <1>5, <1>6 DEF NsInv, IdTypes
<1>8. NamesAreTaken'
  BY <1>2, <1>6 DEF NsInv, NamesAreTaken
<1>9. ChildrenAreNew'
  <2>1. \A q \in Pids : forking[q] # Nothing => forking[q].child \in Pids
    BY ChildIsPid
  <2>2. QED
    BY <1>2, <1>6, <2>1 DEF NsInv, ChildrenAreNew
<1>10. GoneIsReaped'
  <2>1. /\ DOMAIN reaped' = 1 .. Len(reaped) + 1 /\ DOMAIN reaped = 1 .. Len(reaped)
        /\ reaped'[Len(reaped) + 1].pid = c
        /\ \A i \in 1 .. Len(reaped) : reaped'[i] = reaped[i]
    BY <1>1, <1>3, <1>4
  <2>2. SUFFICES ASSUME NEW o \in Pids, o < nextPid, task'[o] = Nobody,
                        \A q \in Pids : forking[q].child # o
                 PROVE  \E i \in DOMAIN reaped' : reaped'[i].pid = o
    BY <1>2 DEF GoneIsReaped
  <2>3. CASE o = c
    BY <1>3, <2>1, <2>3
  <2>4. CASE o # c
    <3>1. PICK i \in 1 .. Len(reaped) : reaped[i].pid = o
      BY <1>6, <2>1, <2>2, <2>4 DEF NsInv, GoneIsReaped
    <3>2. i \in DOMAIN reaped' /\ reaped'[i].pid = o
      BY <1>3, <2>1, <3>1
    <3>3. QED
      BY <3>2
  <2>5. QED
    BY <2>3, <2>4
<1>11. LpidsUnique'
  BY <1>6 DEF NsInv, LpidsUnique, Here, InNs
<1>12. KillGoesOn'
  <2>1. \A k \in Pids : targets[k] # {} => bornIn' = bornIn
    BY <1>2 DEF Came, Stopping
  <2>2. \A q \in Alive' : q \in Alive /\ task'[q] = task[q]
    BY <1>6 DEF Alive, Here, Zombie
  <2>3. QED
    BY <1>2, <2>1, <2>2 DEF NsInv, KillGoesOn
<1>13. StragglersAreNew'
  BY <1>2 DEF StragglersAreNew
<1>14. QED
  BY <1>5, <1>7, <1>8, <1>9, <1>10, <1>11, <1>12, <1>13 DEF NsInv

LEMMA NsStepKeeps == NsInv /\ [NsNext]_nsVars => NsInv'
<1> SUFFICES ASSUME NsInv, [NsNext]_nsVars PROVE NsInv'
  OBVIOUS
<1>1. CASE NsNext
  BY <1>1, ForkPidKeeps, ForkInsertKeeps, CallKeeps, CollectKeeps, KillOneKeeps, LeaveKeeps,
     EnterKeeps, KillKeeps, WaitKeeps DEF NsNext
<1>2. CASE UNCHANGED nsVars
  BY <1>2 DEF nsVars, NsInv, IdTypes, NamesAreTaken, ChildrenAreNew, GoneIsReaped, LogIsTail,
     KillGoesOn, LpidsUnique, StragglersAreNew, Here, Alive, Zombie, InNs
<1>3. QED
  BY <1>1, <1>2

\* What the invariant says of the names that the system calls take.
LEMMA NsInvIsEnough == NsInv => NsTypeOK /\ LpidsUnique /\ NoIdentityGap /\ StragglersAreNew
<1> SUFFICES ASSUME NsInv PROVE NsTypeOK /\ NoIdentityGap
  BY DEF NsInv
<1>1. NsTypeOK
  <2>1. \A p \in Here : task[p].ns \in 0 .. Len(ns) /\ task[p].lpid \in Nat \ {0}
    <3>1. SUFFICES ASSUME NEW p \in Pids, task[p] # Nobody
                   PROVE  task[p].ns \in 0 .. Len(ns) /\ task[p].lpid \in Nat \ {0}
      BY DEF Here
    <3>2. task[p].ns \in Nat /\ task[p].lpid \in Nat /\ ns \in Seq(Nat \ {0}) /\ Len(ns) \in Nat /\ p # 0
      <4>1. task[p] \in EntryType /\ ns \in Seq(Nat \ {0})
        BY DEF NsInv, IdTypes
      <4>2. QED
        BY <4>1 DEF EntryType, Pids
    <3>3. QED
      BY <3>1, <3>2 DEF NsInv, NamesAreTaken
  <2>2. Len(reaplog) <= LogLen
    <3>1. Len(reaped) \in Nat /\ LogLen \in Nat
      BY NsAssumption DEF NsInv, IdTypes
    <3>2. QED
      BY <3>1 DEF NsInv, LogIsTail
  <2>3. \A p \in Pids : forking[p].child # 0 => task[forking[p].child] = Nobody
    BY DEF NsInv, ChildrenAreNew, Nothing
  <2>4. QED
    BY <2>1, <2>2, <2>3 DEF NsTypeOK, NsInv, IdTypes
<1>2. NoIdentityGap
  <2>1. SUFFICES ASSUME NEW i \in DOMAIN reaped
                 PROVE  reaped[i] \in Range(reaplog) \/ Len(reaped) - i >= LogLen
    BY DEF NoIdentityGap, NsInv, GoneIsReaped
  <2>2. /\ i \in 1 .. Len(reaped) /\ Len(reaped) \in Nat /\ LogLen \in Nat
        /\ Len(reaplog) = IF Len(reaped) < LogLen THEN Len(reaped) ELSE LogLen
        /\ DOMAIN reaplog = 1 .. Len(reaplog)
    BY NsAssumption DEF NsInv, IdTypes, LogIsTail
  <2>3. CASE i > Len(reaped) - Len(reaplog)
    <3> DEFINE k == i - (Len(reaped) - Len(reaplog))
    <3>1. k \in DOMAIN reaplog /\ Len(reaped) - Len(reaplog) + k = i
      BY <2>2, <2>3
    <3>2. reaplog[k] = reaped[i]
      BY <3>1 DEF NsInv, LogIsTail
    <3>3. QED
      BY <3>1, <3>2 DEF Range
  <2>4. CASE ~(i > Len(reaped) - Len(reaplog))
    BY <2>2, <2>4
  <2>5. QED
    BY <2>3, <2>4
<1>3. QED
  BY <1>1, <1>2

ZombieRests == \A p \in Here : Zombie(p) =>
                 task'[p] \in {task[p], [task[p] EXCEPT !.parent = Init1], Nobody}

\* No call reaches a zombie but the exit of its parent and a wait.
LEMMA StepRests == NsInv /\ [NsNext]_nsVars => ZombieRests
<1> SUFFICES ASSUME NsInv, [NsNext]_nsVars, NEW z \in Pids, task[z] # Nobody, Zombie(z)
             PROVE  task'[z] \in {task[z], [task[z] EXCEPT !.parent = Init1], Nobody}
  BY DEF ZombieRests, Here
<1>1. task \in [Pids -> EntryType] /\ z \notin Alive
  BY DEF NsInv, IdTypes, Alive
<1>2. ASSUME NEW p \in Alive,
             \/ \E f \in {"pending", "cg", "killed"} : \E v : Set(p, f, v)
             \/ \E t \in Pids : NsEnter(p, t)
      PROVE  task'[z] = task[z]
  BY <1>1, <1>2, AliveIsHere DEF Set, NsEnter
<1>3. ASSUME NEW p \in Pids, ForkPid(p) \/ CgKillCollect(p)
      PROVE  task'[z] = task[z]
  BY <1>3 DEF ForkPid, CgKillCollect
<1>4. ASSUME NEW p \in Pids, ForkFounds(p) \/ ForkInherits(p)
      PROVE  task'[z] = task[z]
  <2>1. p \in Alive /\ forking[p] # Nothing /\ p # z
    BY <1>1, <1>4 DEF ForkFounds, ForkInherits
  <2>2. task[forking[p].child] = Nobody /\ forking[p].child # z
    BY <2>1 DEF NsInv, ChildrenAreNew
  <2>3. PICK e : task' = [task EXCEPT ![forking[p].child] = e, ![p].pending = FALSE]
    BY <1>4 DEF ForkFounds, ForkInherits, Insert
  <2>4. QED
    BY <1>1, <2>1, <2>2, <2>3
<1>5. ASSUME NEW p \in Pids, CgKillOne(p) PROVE task'[z] = task[z]
  <2>1. task' = task \/ \E t \in Alive : task' = [task EXCEPT ![t].killed = TRUE]
    BY <1>5 DEF CgKillOne, Set, Mortal
  <2>2. QED
    BY <1>1, <2>1, AliveIsHere
<1>6. ASSUME NEW p \in Pids, NEW n \in Pids, Kill(p, n) PROVE task'[z] = task[z]
  <2>1. \E t \in Alive : task' = [task EXCEPT ![t].killed = TRUE]
    BY <1>6 DEF Kill, Set, Mortal
  <2>2. QED
    BY <1>1, <2>1, AliveIsHere
<1>7. ASSUME NEW p \in Pids, Leave(p)
      PROVE  task'[z] \in {task[z], [task[z] EXCEPT !.parent = Init1]}
  <2>1. p # z
    BY <1>1, <1>7 DEF Leave
  <2>2. task'[z] = IF z = p THEN [task[z] EXCEPT !.st = "Zombie"]
                   ELSE IF z \in Orphans(p) THEN [task[z] EXCEPT !.parent = Init1] ELSE task[z]
    BY <1>7 DEF Leave
  <2>3. QED
    BY <2>1, <2>2
<1>8. ASSUME NEW p \in Pids, NEW n \in 0 .. MaxPid, WaitPid(p, n)
      PROVE  task'[z] \in {task[z], Nobody}
  <2>1. \E c \in Pids : task' = [task EXCEPT ![c] = Nobody]
    BY <1>8 DEF WaitPid, Orphans, Here
  <2>2. QED
    BY <1>1, <2>1
<1>9. ASSUME NEW p \in Pids, Unshare(p) \/ CgJoin(p)
      PROVE  task'[z] = task[z]
  BY <1>2, <1>9 DEF Unshare, CgJoin, Calls
<1>10. ASSUME NEW p \in Pids, NEW t \in Pids, NsEnter(p, t)
      PROVE  task'[z] = task[z]
  BY <1>2, <1>10 DEF NsEnter, Calls
<1>11. CASE UNCHANGED nsVars
  BY <1>11 DEF nsVars
<1>12. QED
  BY <1>3, <1>4, <1>5, <1>6, <1>7, <1>8, <1>9, <1>10, <1>11 DEF NsNext

\* For any number of tasks, namespaces and calls, any log and any fork and kill in progress: a
\* pid names one task of its namespace, who was handed a pid is known or among the last reaped,
\* and who is left in a group that was killed came after the kill.
THEOREM NamesAreSound == NsSpec => [](NsTypeOK /\ LpidsUnique /\ NoIdentityGap /\ StragglersAreNew)
BY NsInitFits, NsStepKeeps, NsInvIsEnough, PTL DEF NsSpec

\* A zombie stays as it is until it is reaped, whatever name it is called by.
THEOREM ZombiesStayDead == NsSpec => ZombiesRest
BY NsInitFits, NsStepKeeps, StepRests, PTL DEF NsSpec, ZombiesRest, ZombieRests

----------------------------------------------------------------------------
(* Paths *)

MountType == [mp : Seq(Names), tgt : Seq(Names)]

\* After the jail was closed, the root and every bind lead below what it was given.
JailHolds ==
    granted # {} =>
      /\ \E v \in granted : Under(root, v)
      /\ \A i \in DOMAIN mounts : \E v \in granted : Under(mounts[i].tgt, v)

PathInv ==
    /\ PathTypeOK /\ CwdIsThere /\ JailHolds
    /\ mounts \in Seq(MountType) /\ granted \subseteq Seq(Names)

LEMMA HostPathIsSeq == HostPaths \subseteq Seq(Names)
<1>1. ASSUME NEW p \in HostPaths PROVE p \in Seq(Names)
  <2>1. PICK m \in 0 .. MaxDepth : p \in [1 .. m -> Names]
    BY DEF HostPaths, BoundedSeq, SeqOf
  <2>2. m \in Nat
    BY PathsAssumption
  <2>3. QED
    BY <2>1, <2>2
<1>2. QED
  BY <1>1

LEMMA RawIsSeq == \A raw \in Raw : raw.comps \in Seq(Names \cup {".."}) /\ raw.abs \in BOOLEAN
<1>1. ASSUME NEW raw \in Raw PROVE raw.comps \in Seq(Names \cup {".."}) /\ raw.abs \in BOOLEAN
  <2>1. raw.comps \in BoundedSeq(Names \cup {".."}, 2) /\ raw.abs \in BOOLEAN
    BY DEF Raw
  <2>2. PICK m \in 0 .. 2 : raw.comps \in [1 .. m -> Names \cup {".."}]
    BY <2>1 DEF BoundedSeq, SeqOf
  <2>3. QED
    BY <2>1, <2>2
<1>2. QED
  BY <1>1

\* Under, component by component.
LEMMA UnderMeans ==
    ASSUME NEW p \in Seq(Names), NEW q \in Seq(Names)
    PROVE  Under(p, q) <=> Len(q) <= Len(p) /\ \A i \in 1 .. Len(q) : p[i] = q[i]
<1>1. Len(p) \in Nat /\ Len(q) \in Nat
  OBVIOUS
<1>2. ASSUME Len(q) <= Len(p)
      PROVE  SubSeq(q, 1, Len(q)) = SubSeq(p, 1, Len(q)) <=> \A i \in 1 .. Len(q) : p[i] = q[i]
  <2> DEFINE a == SubSeq(q, 1, Len(q))
             b == SubSeq(p, 1, Len(q))
  <2>1. /\ a \in Seq(Names) /\ b \in Seq(Names) /\ Len(a) = Len(q) /\ Len(b) = Len(q)
        /\ \A i \in 1 .. Len(q) : a[i] = q[i] /\ b[i] = p[i]
    BY <1>1, <1>2
  <2> HIDE DEF a, b
  <2>2. ASSUME \A i \in 1 .. Len(q) : p[i] = q[i] PROVE a = b
    <3>1. \A i \in 1 .. Len(q) : a[i] = b[i]
      BY <2>1, <2>2
    <3>2. QED
      BY <2>1, <3>1, SeqEqual
  <2>3. QED
    BY <2>1, <2>2 DEF a, b
<1>3. QED
  BY <1>1, <1>2 DEF Under, IsPrefix

LEMMA UnderFacts ==
    ASSUME NEW p \in Seq(Names), NEW q \in Seq(Names)
    PROVE  /\ Under(p, p) /\ Under(q \o p, q)
           /\ \A v \in Seq(Names) : Under(p, q) /\ Under(q, v) => Under(p, v)
           /\ Under(p, q) => q \o SubSeq(p, Len(q) + 1, Len(p)) = p
<1>1. Len(p) \in Nat /\ Len(q) \in Nat
  OBVIOUS
<1>2. Under(p, p)
  BY <1>1, UnderMeans
<1>3. Under(q \o p, q)
  <2>1. q \o p \in Seq(Names) /\ Len(q) <= Len(q \o p) /\ \A i \in 1 .. Len(q) : (q \o p)[i] = q[i]
    BY <1>1
  <2>2. QED
    BY <2>1, UnderMeans
<1>4. ASSUME NEW v \in Seq(Names), Under(p, q), Under(q, v) PROVE Under(p, v)
  <2>1. Len(v) \in Nat /\ Len(q) <= Len(p) /\ Len(v) <= Len(q)
        /\ (\A i \in 1 .. Len(q) : p[i] = q[i]) /\ \A i \in 1 .. Len(v) : q[i] = v[i]
    BY <1>4, UnderMeans
  <2>2. Len(v) <= Len(p) /\ \A i \in 1 .. Len(v) : p[i] = v[i]
    BY <1>1, <2>1
  <2>3. QED
    BY <2>2, UnderMeans
<1>5. ASSUME Under(p, q) PROVE q \o SubSeq(p, Len(q) + 1, Len(p)) = p
  <2>1. Len(q) <= Len(p) /\ \A i \in 1 .. Len(q) : p[i] = q[i]
    BY <1>5, UnderMeans
  <2> DEFINE r == SubSeq(p, Len(q) + 1, Len(p))
             a == q \o r
  <2>2. r \in Seq(Names) /\ Len(r) = Len(p) - Len(q) /\ \A i \in 1 .. Len(p) - Len(q) : r[i] = p[Len(q) + i]
    BY <1>1, <2>1
  <2> HIDE DEF r
  <2>3. /\ a \in Seq(Names) /\ Len(a) = Len(p)
        /\ (\A i \in 1 .. Len(q) : a[i] = q[i])
        /\ \A i \in 1 .. Len(p) : i > Len(q) => a[i] = r[i - Len(q)]
    BY <1>1, <2>1, <2>2
  <2>4. ASSUME NEW i \in 1 .. Len(p) PROVE a[i] = p[i]
    <3>1. CASE i <= Len(q)
      BY <1>1, <2>1, <2>3, <3>1
    <3>2. CASE ~(i <= Len(q))
      <4>1. i > Len(q) /\ i - Len(q) \in 1 .. Len(p) - Len(q) /\ Len(q) + (i - Len(q)) = i
        BY <1>1, <3>2
      <4>2. QED
        BY <2>2, <2>3, <4>1
    <3>3. QED
      BY <3>1, <3>2
  <2> HIDE DEF a
  <2>5. a = p
    BY <2>3, <2>4, SeqEqual
  <2>6. QED
    BY <2>5 DEF a, r
<1>6. QED
  BY <1>2, <1>3, <1>4, <1>5

Jailed == {s \in Seq(Names) : Under(s, root)}

\* One component more, or one less, stays below the root.
LEMMA StepIsJailed ==
    ASSUME root \in Seq(Names), NEW s \in Jailed
    PROVE  Up(s) \in Jailed /\ \A n \in Names : Append(s, n) \in Jailed
<1>1. /\ s \in Seq(Names) /\ Len(root) <= Len(s) /\ Len(s) \in Nat /\ Len(root) \in Nat
      /\ \A i \in 1 .. Len(root) : s[i] = root[i]
  BY UnderMeans DEF Jailed
<1>2. Up(s) \in Jailed
  <2>1. CASE Len(s) > Len(root)
    <3> DEFINE f == SubSeq(s, 1, Len(s) - 1)
    <3>1. f \in Seq(Names) /\ Len(f) = Len(s) - 1 /\ \A i \in 1 .. Len(s) - 1 : f[i] = s[i]
      BY SMTT(20), <1>1, <2>1
    <3> HIDE DEF f
    <3>2. Len(root) <= Len(f) /\ \A i \in 1 .. Len(root) : f[i] = root[i]
      BY <1>1, <2>1, <3>1
    <3>3. Under(f, root)
      BY <3>1, <3>2, UnderMeans
    <3>4. QED
      BY <2>1, <3>1, <3>3 DEF Up, Front, Jailed, f
  <2>2. CASE ~(Len(s) > Len(root))
    BY <2>2 DEF Up
  <2>3. QED
    BY <2>1, <2>2
<1>3. ASSUME NEW n \in Names PROVE Append(s, n) \in Jailed
  <2> DEFINE f == Append(s, n)
  <2>1. f \in Seq(Names) /\ Len(f) = Len(s) + 1 /\ \A i \in 1 .. Len(s) : f[i] = s[i]
    BY <1>1
  <2> HIDE DEF f
  <2>2. Len(root) <= Len(f) /\ \A i \in 1 .. Len(root) : f[i] = root[i]
    BY <1>1, <2>1
  <2>3. Under(f, root)
    BY <2>1, <2>2, UnderMeans
  <2>4. QED
    BY <2>1, <2>3 DEF Jailed, f
<1>4. QED
  BY <1>2, <1>3

\* The walk over the components is defined, and none of its steps leaves the jail.
LEMMA WalkIsJailed ==
    ASSUME root \in Seq(Names), NEW stack \in Jailed, NEW comps \in Seq(Names \cup {".."})
    PROVE  Walk(stack, comps) \in Jailed
<1> DEFINE n == Len(comps)
           Goes(f, i) == IF i = 0 THEN stack
                         ELSE IF comps[i] = ".." THEN Up(f[i - 1]) ELSE Append(f[i - 1], comps[i])
           Good(k) == \E f \in [0 .. k -> Jailed] : \A i \in 0 .. k : f[i] = Goes(f, i)
           W == CHOOSE at : at = [i \in 0 .. n |-> Goes(at, i)]
           Bad == {k \in 0 .. n : ~Good(k)}
<1>1. n \in Nat /\ \A i \in 1 .. n : comps[i] # ".." => comps[i] \in Names
  OBVIOUS
<1>2. Good(0)
  <2> DEFINE f == [i \in 0 .. 0 |-> stack]
  <2>1. f \in [0 .. 0 -> Jailed] /\ \A i \in 0 .. 0 : f[i] = Goes(f, i)
    OBVIOUS
  <2>2. QED
    BY <2>1
<1>3. ASSUME NEW k \in Nat, k + 1 <= n, Good(k) PROVE Good(k + 1)
  <2>1. PICK f \in [0 .. k -> Jailed] : \A i \in 0 .. k : f[i] = Goes(f, i)
    BY <1>3
  <2> DEFINE e == IF comps[k + 1] = ".." THEN Up(f[k]) ELSE Append(f[k], comps[k + 1])
             g == [i \in 0 .. k + 1 |-> IF i = k + 1 THEN e ELSE f[i]]
  <2>2. e \in Jailed
    <3>1. k + 1 \in 1 .. n /\ k \in 0 .. k
      BY <1>1, <1>3
    <3>2. f[k] \in Jailed
      BY <2>1, <3>1
    <3>3. Up(f[k]) \in Jailed /\ \A x \in Names : Append(f[k], x) \in Jailed
      BY <3>2, StepIsJailed
    <3> HIDE DEF n
    <3>4. QED
      BY <1>1, <3>1, <3>3
  <2> HIDE DEF e
  <2>3. g \in [0 .. k + 1 -> Jailed] /\ g[k + 1] = e /\ \A i \in 0 .. k : g[i] = f[i]
    BY <2>1, <2>2
  <2> HIDE DEF g
  <2>4. ASSUME NEW i \in 0 .. k + 1 PROVE g[i] = Goes(g, i)
    <3>1. CASE i = k + 1
      <4>1. i # 0 /\ i - 1 = k /\ g[i - 1] = f[k]
        BY <2>3, <3>1
      <4>2. QED
        BY <2>3, <3>1, <4>1 DEF e
    <3>2. CASE i # k + 1
      <4>0. i \in 0 .. k
        BY <1>3, <3>2
      <4>1. i \in 0 .. k /\ g[i] = f[i] /\ f[i] = Goes(f, i)
        BY <2>1, <2>3, <4>0
      <4>2. i # 0 => i - 1 \in 0 .. k /\ g[i - 1] = f[i - 1]
        BY <2>3, <4>1
      <4>3. QED
        BY <4>1, <4>2
    <3>3. QED
      BY <3>1, <3>2
  <2>5. QED
    BY <2>3, <2>4
<1>4. Good(n)
  <2> HIDE DEF Good
  <2>1. SUFFICES ASSUME Bad # {} PROVE FALSE
    BY <1>1
  <2>2. Bad \in SUBSET Nat
    OBVIOUS
  <2>3. PICK m \in Bad : \A k \in Bad : m <= k
    BY <2>1, <2>2, MinIsLeast
  <2>4. m \in 0 .. n /\ ~Good(m) /\ m # 0
    BY <1>2
  <2>5. m - 1 \in Nat /\ m - 1 \notin Bad /\ (m - 1) + 1 = m /\ m - 1 \in 0 .. n
    BY <1>1, <2>2, <2>3, <2>4
  <2>6. Good(m - 1)
    BY <2>5
  <2>7. QED
    BY <1>3, <2>4, <2>5, <2>6
<1>5. PICK f \in [0 .. n -> Jailed] : \A i \in 0 .. n : f[i] = Goes(f, i)
  BY <1>4
<1>6. f = [i \in 0 .. n |-> Goes(f, i)]
  BY <1>5
<1>7. W = [i \in 0 .. n |-> Goes(W, i)]
  <2> HIDE DEF Goes
  <2>1. \E at : at = [i \in 0 .. n |-> Goes(at, i)]
    BY <1>6
  <2>2. QED
    BY <2>1
<1>8. Walk(stack, comps) = W[n]
  BY DEF Walk
<1>9. \A i \in 0 .. n : W[i] = Goes(W, i)
  BY <1>7
<1> HIDE DEF W
<1> DEFINE Out == {k \in 0 .. n : W[k] \notin Jailed}
<1>10. Out = {}
  <2>1. SUFFICES ASSUME Out # {} PROVE FALSE
    OBVIOUS
  <2>2. Out \in SUBSET Nat
    OBVIOUS
  <2>3. PICK m \in Out : \A k \in Out : m <= k
    BY <2>1, <2>2, MinIsLeast
  <2>4. m \in 0 .. n /\ W[m] \notin Jailed /\ W[m] = Goes(W, m)
    BY <1>9
  <2>5. m # 0
    BY <2>4
  <2>6. m - 1 \in 0 .. n /\ m - 1 \notin Out /\ m \in 1 .. n
    BY <1>1, <2>3, <2>4, <2>5
  <2>7. W[m - 1] \in Jailed
    BY <2>6
  <2>8. Goes(W, m) \in Jailed
    BY <1>1, <2>5, <2>6, <2>7, StepIsJailed
  <2>9. QED
    BY <2>4, <2>8
<1>11. QED
  BY <1>1, <1>8, <1>10

LEMMA ResolveIsJailed ==
    ASSUME PathInv, NEW raw \in Raw
    PROVE  /\ ResolvePath(raw) \in Seq(Names) /\ Under(ResolvePath(raw), root)
           /\ root \in Seq(Names)
<1>1. root \in Seq(Names) /\ cwd \in Seq(Names)
  BY HostPathIsSeq DEF PathInv, PathTypeOK
<1> DEFINE comps == IF raw.abs THEN raw.comps ELSE cwd \o raw.comps
<1>2. comps \in Seq(Names \cup {".."})
  <2>1. cwd \in Seq(Names \cup {".."}) /\ raw.comps \in Seq(Names \cup {".."})
    BY <1>1, RawIsSeq
  <2>2. QED
    BY <2>1
<1>3. root \in Jailed
  BY <1>1, UnderFacts DEF Jailed
<1> HIDE DEF comps
<1>4. Walk(root, comps) \in Jailed
  BY <1>1, <1>2, <1>3, WalkIsJailed
<1>5. QED
  BY <1>1, <1>4 DEF ResolvePath, Jailed, comps

\* What a process can name lies below its root or below the target of a bind.
LEMMA SeenIsBelow ==
    ASSUME PathInv, NEW p \in Seen
    PROVE  /\ p \in Seq(Names)
           /\ \/ Under(p, root)
              \/ \E i \in DOMAIN mounts : Under(p, mounts[i].tgt)
           /\ mounts = <<>> => Under(p, root)
<1>1. PICK raw \in Raw : p = ApplyMounts(ResolvePath(raw))
  BY DEF Seen, ResolveFor
<1> DEFINE q == ResolvePath(raw)
<1>2. q \in Seq(Names) /\ Under(q, root)
  BY ResolveIsJailed
<1> HIDE DEF q
<1>3. mounts \in Seq(MountType)
  BY DEF PathInv
<1>4. CASE Best(q) = {}
  BY <1>1, <1>2, <1>4 DEF ApplyMounts, q
<1>5. CASE Best(q) # {}
  <2> DEFINE i == CHOOSE k \in Best(q) : TRUE
             m == mounts[i]
             r == SubSeq(q, Len(m.mp) + 1, Len(q))
  <2>1. i \in Best(q) /\ Best(q) \subseteq DOMAIN mounts
    BY <1>5 DEF Best
  <2>2. p = m.tgt \o r
    BY <1>1, <1>5 DEF ApplyMounts, q
  <2> HIDE DEF i
  <2>3. m \in MountType /\ mounts # <<>> /\ i \in DOMAIN mounts
    BY <1>3, <2>1
  <2>4. m.tgt \in Seq(Names) /\ m.mp \in Seq(Names)
    BY <2>3 DEF MountType
  <2>5. r \in Seq(Names)
    BY <1>2, <2>4
  <2> HIDE DEF r
  <2>6. p \in Seq(Names) /\ Under(p, m.tgt)
    BY <2>2, <2>4, <2>5, UnderFacts
  <2>7. QED
    BY <2>3, <2>6
<1>6. QED
  BY <1>4, <1>5

LEMMA JailIsEnough == PathInv => PathTypeOK /\ NoEscape /\ CwdIsThere
<1> SUFFICES ASSUME PathInv, granted # {}, NEW p \in Seen
             PROVE  \E v \in granted : Under(p, v)
  BY DEF PathInv, NoEscape
<1>1. /\ \E v \in granted : Under(root, v)
      /\ \A i \in DOMAIN mounts : \E v \in granted : Under(mounts[i].tgt, v)
  BY DEF PathInv, JailHolds
<1>2. /\ p \in Seq(Names) /\ root \in Seq(Names) /\ granted \subseteq Seq(Names)
      /\ mounts \in Seq(MountType)
  BY SeenIsBelow, HostPathIsSeq DEF PathInv, PathTypeOK
<1>3. CASE Under(p, root)
  <2>1. PICK v \in granted : Under(root, v)
    BY <1>1
  <2>2. QED
    BY <1>2, <1>3, <2>1, UnderFacts
<1>4. CASE \E i \in DOMAIN mounts : Under(p, mounts[i].tgt)
  <2>1. PICK i \in DOMAIN mounts : Under(p, mounts[i].tgt)
    BY <1>4
  <2>2. PICK v \in granted : Under(mounts[i].tgt, v)
    BY <1>1
  <2>3. mounts[i].tgt \in Seq(Names)
    <3>1. mounts[i] \in MountType
      BY <1>2
    <3>2. QED
      BY <3>1 DEF MountType
  <2>4. QED
    BY <1>2, <2>1, <2>2, <2>3, UnderFacts
<1>5. QED
  BY <1>3, <1>4, SeenIsBelow

LEMMA PathInitFits == PathInit => PathInv
<1> SUFFICES ASSUME PathInit PROVE PathInv
  OBVIOUS
<1>1. /\ root = <<>> /\ cwd = <<>> /\ mounts = <<>> /\ dirs = {<<>>} /\ granted = {}
      /\ removed = FALSE
  BY DEF PathInit
<1>2. <<>> \in HostPaths
  <2>1. <<>> \in [1 .. 0 -> Names] /\ 0 \in 0 .. MaxDepth
    BY PathsAssumption
  <2>2. QED
    BY <2>1 DEF HostPaths, BoundedSeq, SeqOf
<1>3. PathTypeOK
  <2>1. <<>> \in Seq(Names) /\ Len(mounts) = 0 /\ DOMAIN mounts = {} /\ MaxMounts \in Nat
    BY <1>1, PathsAssumption
  <2>2. root \in HostPaths /\ cwd \in Seq(Names) /\ removed \in BOOLEAN
    BY <1>1, <1>2, <2>1
  <2>3. dirs \subseteq HostPaths /\ <<>> \in dirs
    BY <1>1, <1>2
  <2>4. Len(mounts) <= MaxMounts
    BY <2>1
  <2>5. \A i \in DOMAIN mounts : mounts[i].tgt \in HostPaths /\ mounts[i].mp \in HostPaths
    BY <2>1
  <2>6. QED
    BY <2>2, <2>3, <2>4, <2>5 DEF PathTypeOK
<1>4. QED
  BY <1>1, <1>2, <1>3 DEF PathInv, CwdIsThere, JailHolds

\* A relative path after chdir continues where chdir went.
LEMMA StepArrives == PathInv => Arrives
<1> SUFFICES ASSUME PathInv, mounts = <<>>, NEW p \in Seen, Chdir(p) PROVE root \o cwd' = p
  BY DEF Arrives
<1>1. Under(p, root) /\ p \in Seq(Names) /\ root \in Seq(Names)
  BY SeenIsBelow, HostPathIsSeq DEF PathInv, PathTypeOK
<1>2. cwd' = SubSeq(p, Len(root) + 1, Len(p))
  BY <1>1 DEF Chdir, View
<1>3. QED
  BY <1>1, <1>2, UnderFacts

\* The parts of a path cut after some components, or extended in front by a name, are paths.
LEMMA ViewIsPath ==
    ASSUME root \in Seq(Names), NEW p \in Seq(Names)
    PROVE  View(p) \in Seq(Names)
<1>1. SubSeq(p, Len(root) + 1, Len(p)) \in Seq(Names)
  BY SMTT(20)
<1>2. ASSUME Remnants(p) # {} PROVE (CHOOSE r \in Remnants(p) : TRUE) \in Names
  BY <1>2 DEF Remnants
<1> DEFINE r == CHOOSE r \in Remnants(p) : TRUE
<1> HIDE DEF r
<1>3. ASSUME r \in Names PROVE <<r>> \o SubSeq(p, Len(root) + 1, Len(p)) \in Seq(Names)
  <2>1. <<r>> \in Seq(Names)
    BY <1>3
  <2>2. QED
    BY <1>1, <2>1
<1>4. QED
  BY <1>1, <1>2, <1>3 DEF View, r

LEMMA PathStepKeeps == PathInv /\ [PathNext]_pathVars => PathInv'
<1> SUFFICES ASSUME PathInv, [PathNext]_pathVars PROVE PathInv'
  OBVIOUS
<1> USE DEF PathInv
<1>1. /\ root \in HostPaths /\ dirs \subseteq HostPaths /\ Len(mounts) <= MaxMounts
      /\ removed \in BOOLEAN /\ <<>> \in dirs
      /\ \A i \in DOMAIN mounts : mounts[i].tgt \in HostPaths /\ mounts[i].mp \in HostPaths
      /\ dirs \subseteq Seq(Names)
      /\ root \in Seq(Names) /\ cwd \in Seq(Names) /\ mounts \in Seq(MountType)
  BY HostPathIsSeq DEF PathTypeOK
<1>0. HostPaths' = HostPaths
  BY DEF HostPaths
<1>2. ASSUME NEW p \in Seen, Chdir(p) PROVE PathInv'
  <2>1. /\ UNCHANGED <<root, mounts, dirs, granted>> /\ p \in dirs /\ cwd' = View(p)
        /\ removed' = FALSE
    BY <1>2 DEF Chdir
  <2>2. p \in Seq(Names) /\ (mounts = <<>> => Under(p, root))
    BY SeenIsBelow
  <2>3. cwd' \in Seq(Names)
    BY <1>1, <2>1, <2>2, ViewIsPath
  <2>4. PathTypeOK'
    BY <1>0, <1>1, <2>1, <2>3 DEF PathTypeOK
  <2>5. JailHolds'
    BY <2>1 DEF JailHolds, Under
  <2>6. CwdIsThere'
    <3>1. ASSUME mounts = <<>> PROVE root \o cwd' \in dirs
      <4>1. root \o cwd' = p
        BY <1>2, <3>1, StepArrives DEF Arrives
      <4>2. QED
        BY <2>1, <4>1
    <3>2. QED
      BY <2>1, <3>1 DEF CwdIsThere
  <2>7. QED
    BY <2>1, <2>3, <2>4, <2>5, <2>6
<1>3. ASSUME NEW p \in Seen, Chroot(p) PROVE PathInv'
  <2>1. /\ UNCHANGED <<mounts, dirs>> /\ p \in dirs /\ root' = p /\ cwd' = <<>>
        /\ granted' = IF granted = {} THEN {p} \cup {mounts[i].tgt : i \in DOMAIN mounts} ELSE granted
        /\ removed' = FALSE
    BY <1>3 DEF Chroot, Anchor
  <2>2. p \in Seq(Names)
    BY SeenIsBelow
  <2>3. \A i \in DOMAIN mounts : mounts[i].tgt \in Seq(Names)
    BY <1>1, HostPathIsSeq
  <2>4. granted' \subseteq Seq(Names)
    BY <2>1, <2>2, <2>3
  <2>5. PathTypeOK'
    <3>1. cwd' \in Seq(Names) /\ root' \in HostPaths
      BY <1>1, <2>1
    <3>2. QED
      BY <1>0, <1>1, <2>1, <3>1 DEF PathTypeOK
  <2>6. CwdIsThere'
    BY <2>1, <2>2 DEF CwdIsThere
  <2>7. JailHolds'
    <3>1. CASE granted = {}
      <4>1. p \in granted' /\ Under(p, p)
        BY <2>1, <2>2, <3>1, UnderFacts
      <4>2. \A i \in DOMAIN mounts : mounts[i].tgt \in granted' /\ Under(mounts[i].tgt, mounts[i].tgt)
        BY <2>1, <2>3, <3>1, UnderFacts
      <4>3. QED
        BY <2>1, <4>1, <4>2 DEF JailHolds
    <3>2. CASE granted # {}
      <4>1. \E v \in granted : Under(p, v)
        BY <3>2, JailIsEnough DEF NoEscape
      <4>2. QED
        BY <2>1, <3>2, <4>1 DEF JailHolds
    <3>3. QED
      BY <3>1, <3>2
  <2>8. QED
    BY <2>1, <2>4, <2>5, <2>6, <2>7
<1>4. ASSUME NEW p \in Seen, Mkdir(p) PROVE PathInv'
  <2>1. UNCHANGED <<root, cwd, mounts, granted, removed>> /\ dirs' = dirs \cup {p} /\ p \in HostPaths
    BY <1>4 DEF Mkdir
  <2>2. PathTypeOK'
    BY <1>0, <1>1, <2>1 DEF PathTypeOK
  <2>3. QED
    BY <2>1, <2>2 DEF CwdIsThere, JailHolds
<1>8. ASSUME NEW p \in Seen, Unlink(p) PROVE PathInv'
  <2>1. /\ UNCHANGED <<root, cwd, mounts, granted>> /\ dirs' = {d \in dirs : ~Under(d, p)}
        /\ removed' = (removed \/ Under(root \o cwd, p)) /\ p # <<>>
    BY <1>8 DEF Unlink
  <2>2. p \in Seq(Names) /\ <<>> \in Seq(Names)
    BY SeenIsBelow
  <2>3. ~Under(<<>>, p)
    <3>1. Len(p) \in Nat /\ Len(p) # 0
      BY <2>1, <2>2
    <3>2. Len(<<>>) = 0
      OBVIOUS
    <3>3. ~(Len(p) <= Len(<<>>))
      BY <3>1, <3>2
    <3>4. QED
      BY <2>2, <3>3, UnderMeans
  <2>4. PathTypeOK'
    BY <1>0, <1>1, <2>1, <2>3 DEF PathTypeOK
  <2>5. CwdIsThere'
    BY <2>1 DEF CwdIsThere
  <2>6. JailHolds'
    BY <2>1 DEF JailHolds, Under
  <2>7. QED
    BY <1>1, <2>1, <2>4, <2>5, <2>6
<1>5. ASSUME NEW p \in Seen, NEW t \in Seen, MountVol(p, t) PROVE PathInv'
  <2> DEFINE m == [mp |-> p, tgt |-> t]
  <2>1. /\ UNCHANGED <<root, cwd, granted, removed>> /\ dirs' = dirs \cup {p} /\ t \in dirs
        /\ mounts' = IF Room THEN Append(mounts, m) ELSE mounts
        /\ p \in dirs \/ p \in HostPaths
    BY <1>5 DEF MountVol
  <2>2. p \in Seq(Names) /\ t \in Seq(Names) /\ m \in MountType /\ m.tgt = t /\ m.mp = p
    BY SeenIsBelow DEF MountType
  <2> HIDE DEF m
  <2>3. CASE Room
    <3>1. /\ mounts' \in Seq(MountType) /\ Len(mounts') = Len(mounts) + 1 /\ Len(mounts) \in Nat
          /\ DOMAIN mounts' = 1 .. Len(mounts) + 1 /\ mounts'[Len(mounts) + 1] = m
          /\ \A i \in 1 .. Len(mounts) : mounts'[i] = mounts[i]
          /\ DOMAIN mounts = 1 .. Len(mounts) /\ mounts' # <<>>
      <4>0. mounts' = Append(mounts, m) /\ m \in MountType /\ mounts \in Seq(MountType)
        BY <1>1, <2>1, <2>2, <2>3
      <4>1. /\ mounts' \in Seq(MountType) /\ Len(mounts') = Len(mounts) + 1 /\ Len(mounts) \in Nat
            /\ DOMAIN mounts = 1 .. Len(mounts)
        BY <4>0
      <4>2. DOMAIN mounts' = 1 .. Len(mounts) + 1 /\ mounts'[Len(mounts) + 1] = m
            /\ \A i \in 1 .. Len(mounts) : mounts'[i] = mounts[i]
        BY <4>0
      <4>3. mounts' # <<>>
        BY <4>1
      <4>4. QED
        BY <4>1, <4>2, <4>3
    <3>2. \A i \in DOMAIN mounts' : i = Len(mounts) + 1 \/ (i \in DOMAIN mounts /\ mounts'[i] = mounts[i])
      BY <3>1
    <3>3. PathTypeOK'
      <4>1. Len(mounts') <= MaxMounts
        BY <2>3, <3>1, PathsAssumption DEF Room
      <4>2. \A i \in DOMAIN mounts' : mounts'[i].tgt \in HostPaths /\ mounts'[i].mp \in HostPaths
        BY <1>1, <2>1, <2>2, <3>1, <3>2
      <4>3. /\ root' \in HostPaths /\ dirs' \subseteq HostPaths /\ <<>> \in dirs'
            /\ cwd' \in Seq(Names) /\ removed' \in BOOLEAN
        BY <1>1, <2>1
      <4>4. QED
        BY <1>0, <4>1, <4>2, <4>3 DEF PathTypeOK
    <3>4. JailHolds'
      <4>1. granted # {} => \E v \in granted : Under(t, v)
        BY JailIsEnough DEF NoEscape
      <4>2. granted # {} => \A i \in DOMAIN mounts' : \E v \in granted : Under(mounts'[i].tgt, v)
        BY <2>2, <3>1, <3>2, <4>1 DEF JailHolds
      <4>3. QED
        BY <2>1, <4>2 DEF JailHolds
    <3>5. CwdIsThere'
      BY <3>1 DEF CwdIsThere
    <3>6. QED
      BY <2>1, <3>1, <3>3, <3>4, <3>5
  <2>4. CASE ~Room
    <3>1. mounts' = mounts
      BY <2>1, <2>4
    <3>2. PathTypeOK'
      BY <1>0, <1>1, <2>1, <3>1 DEF PathTypeOK
    <3>3. QED
      BY <2>1, <3>1, <3>2 DEF JailHolds, CwdIsThere
  <2>5. QED
    BY <2>3, <2>4
<1>6. CASE UNCHANGED pathVars
  <2>1. UNCHANGED <<root, cwd, mounts, dirs, granted, removed>>
    BY <1>6 DEF pathVars
  <2>2. PathTypeOK' /\ CwdIsThere' /\ JailHolds'
    BY <1>0, <2>1 DEF PathTypeOK, CwdIsThere, JailHolds
  <2>3. QED
    BY <2>1, <2>2
<1>7. QED
  BY <1>2, <1>3, <1>4, <1>5, <1>6, <1>8 DEF PathNext

\* For any names, any depth and any table of binds: once a process was jailed, nothing it passes
\* to a system call names anything outside the jail and the volumes it was given.
THEOREM JailIsTight == PathSpec => []NoEscape
BY PathInitFits, PathStepKeeps, JailIsEnough, PTL DEF PathSpec

----------------------------------------------------------------------------
(* The three side by side *)

LEMMA CtStepIs == [CtNext]_ctVars => [Next]_vars /\ [NsNext]_nsVars /\ [PathNext]_pathVars
BY DEF CtNext, ctVars, ControlGroups, Namespaces, Resolution

\* What a name means to the process that uses it: a pid, a group that was killed, a path, for
\* any values of the constants of the three modules; directories come and go (mkdir, unlink),
\* and a working directory is missing only where it or one above it was unlinked.
THEOREM NamesAreConfined == CtSpec => []Confined
<1> DEFINE I == NsInv /\ PathInv
<1>1. CtInit => I
  BY NsInitFits, PathInitFits DEF CtInit
<1>2. I /\ [CtNext]_ctVars => I'
  BY CtStepIs, NsStepKeeps, PathStepKeeps
<1>3. I => Confined
  BY NsInvIsEnough, JailIsEnough DEF Confined
<1> HIDE DEF I
<1>4. QED
  BY <1>1, <1>2, <1>3, PTL DEF CtSpec

\* A zombie rests until it is reaped, and a process that went to a directory is there.
THEOREM NothingSlips == CtSpec => StaysPut
<1> DEFINE I == NsInv /\ PathInv
<1>1. CtInit => I
  BY NsInitFits, PathInitFits DEF CtInit
<1>2. I /\ [CtNext]_ctVars => I'
  BY CtStepIs, NsStepKeeps, PathStepKeeps
<1>3. I /\ [CtNext]_ctVars => [ZombieRests]_nsVars
  BY CtStepIs, StepRests
<1>4. I /\ [CtNext]_ctVars => [part = "paths" => Arrives]_ctVars
  BY StepArrives
<1> HIDE DEF I
<1>5. QED
  BY <1>1, <1>2, <1>3, <1>4, PTL DEF CtSpec, StaysPut, ZombiesRest, ZombieRests
============================================================================
