----------------------- MODULE TrampolineRegistryProofs -----------------------
(***************************************************************************)
(* Proofs about TrampolineRegistry, for every granularity, slot size,      *)
(* address space and set of hooked functions.                              *)
(***************************************************************************)
EXTENDS TrampolineRegistry, SequenceTheorems, WellFoundedInduction, TLAPS

\* A recorded trampoline lies at the offset of a slot of its page, also in the
\* state in which the process dies.
RecordsAtSlots ==
  \A a \in DOMAIN records : a - pages[records[a]] \in Offsets

\* The inductive invariant.  A slot goes back to the right free list only because
\* a record's address is a slot of its page; it is a slot of no other page only
\* because pages are distinct.
IInv == TypeOK /\ PagesDisjoint /\ SlotsPartitioned /\ RecordsAtSlots

\* The slots in use as the abstract store sees them, and what a step is there.
Live == [a \in DOMAIN records |-> code[a]]

StoreStep == [Store!Next]_(Store!vars)

-------------------------------------------------------------------------------
(* Arithmetic. *)

\* Distinct multiples of n are at least n apart (slots in a page, pages).
LEMMA MultiplesApart ==
  ASSUME NEW n \in Nat, NEW i \in Nat, NEW j \in Nat, i < j
  PROVE  i * n + n <= j * n
<1>1. PICK d \in Nat : j = i + 1 + d
  <2>1. j - i - 1 \in Nat /\ j = i + 1 + (j - i - 1)
    OBVIOUS
  <2> QED BY <2>1
<1>2. j * n = i * n + n + d * n
  BY <1>1
<1>3. d * n \in Nat /\ i * n \in Nat
  OBVIOUS
<1> QED BY <1>2, <1>3

\* Every slot ends before its page does.
LEMMA OffsetsFit ==
  ASSUME NEW o \in Offsets
  PROVE  o \in Nat /\ o + SlotSize <= Gran
<1> USE SizesAssumption
<1>1. PICK k \in 0 .. SlotsPerPage - 1 : o = k * SlotSize
  BY DEF Offsets
<1>2. SlotsPerPage \in Nat /\ SlotsPerPage * SlotSize <= Gran
  BY DEF SlotsPerPage
<1>3. k \in Nat /\ k < SlotsPerPage
  BY <1>1, <1>2
<1>4. k * SlotSize + SlotSize <= SlotsPerPage * SlotSize
  BY <1>2, <1>3, MultiplesApart
<1>5. k * SlotSize \in Nat
  BY <1>3
<1>6. SlotsPerPage * SlotSize \in Nat
  BY <1>2
<1> QED BY <1>1, <1>2, <1>4, <1>5, <1>6

\* The base address of a granule is a natural number.
LEMMA BasesAreNat == Bases \subseteq Nat
  BY SizesAssumption DEF Bases

\* An address is a slot of one page only.
LEMMA SameGranule ==
  ASSUME NEW p \in Bases, NEW q \in Bases, NEW addr \in Nat,
         addr - p \in Offsets, addr - q \in Offsets
  PROVE  p = q
<1> USE SizesAssumption
<1>1. PICK g \in 0 .. Granules - 1 : p = g * Gran
  BY DEF Bases
<1>2. PICK h \in 0 .. Granules - 1 : q = h * Gran
  BY DEF Bases
<1>3. p \in Nat /\ q \in Nat
  BY BasesAreNat
<1>4. /\ p <= addr /\ addr < p + Gran
      /\ q <= addr /\ addr < q + Gran
  BY <1>3, OffsetsFit
<1>5. CASE g < h
  <2>1. p + Gran <= q
    BY <1>1, <1>2, <1>5, MultiplesApart
  <2> QED BY <1>3, <1>4, <2>1
<1>6. CASE h < g
  <2>1. q + Gran <= p
    BY <1>1, <1>2, <1>6, MultiplesApart
  <2> QED BY <1>3, <1>4, <2>1
<1> QED BY <1>1, <1>2, <1>5, <1>6

\* A slot of a page is an address of the process.
LEMMA SlotInAddressSpace ==
  ASSUME NEW p \in Bases, NEW addr \in Nat, addr - p \in Offsets
  PROVE  addr \in 0 .. Granules * Gran - 1
<1> USE SizesAssumption
<1>1. PICK g \in 0 .. Granules - 1 : p = g * Gran
  BY DEF Bases
<1>2. p \in Nat /\ addr < p + Gran
  BY BasesAreNat, OffsetsFit
<1>3. p + Gran <= Granules * Gran
  BY <1>1, MultiplesApart
<1>4. Granules * Gran \in Nat
  OBVIOUS
<1> QED BY <1>2, <1>3, <1>4

\* The list AddNewPage makes has every slot once.
LEMMA NewFreeListIsFull ==
  /\ NewFreeList \in Seq(Offsets)
  /\ Len(NewFreeList) = SlotsPerPage
  /\ SlotsPerPage \in Nat \ {0}
  /\ FreeOffsets(NewFreeList) = Offsets
  /\ \A k, l \in DOMAIN NewFreeList : NewFreeList[k] = NewFreeList[l] => k = l
<1> USE SizesAssumption
<1>1. SlotsPerPage \in Nat \ {0}
  BY DEF SlotsPerPage
<1>2. \A k \in 1 .. SlotsPerPage : (k - 1) * SlotSize \in Offsets
  BY <1>1 DEF Offsets
<1>3. NewFreeList \in [1 .. SlotsPerPage -> Offsets]
  BY <1>2 DEF NewFreeList
<1>4. NewFreeList \in Seq(Offsets) /\ Len(NewFreeList) = SlotsPerPage
  BY <1>1, <1>3
<1>5. FreeOffsets(NewFreeList) = Offsets
  <2>1. ASSUME NEW o \in Offsets PROVE o \in FreeOffsets(NewFreeList)
    <3>1. PICK k \in 0 .. SlotsPerPage - 1 : o = k * SlotSize
      BY DEF Offsets
    <3>2. k + 1 \in 1 .. SlotsPerPage /\ NewFreeList[k + 1] = o
      BY <1>1, <3>1 DEF NewFreeList
    <3> QED BY <1>3, <3>2 DEF FreeOffsets
  <2> QED BY <1>3, <2>1 DEF FreeOffsets
<1>6. ASSUME NEW k \in 1 .. SlotsPerPage, NEW l \in 1 .. SlotsPerPage, k < l
      PROVE  NewFreeList[k] # NewFreeList[l]
  <2>1. (k - 1) * SlotSize + SlotSize <= (l - 1) * SlotSize
    BY <1>1, <1>6, MultiplesApart
  <2>2. (k - 1) * SlotSize \in Int /\ (l - 1) * SlotSize \in Int
    BY <1>1
  <2> QED BY <2>1, <2>2 DEF NewFreeList
<1>7. DOMAIN NewFreeList = 1 .. SlotsPerPage
  BY DEF NewFreeList
<1>8. \A k, l \in DOMAIN NewFreeList : NewFreeList[k] = NewFreeList[l] => k = l
  BY <1>1, <1>6, <1>7
<1> QED BY <1>1, <1>4, <1>5, <1>8

\* Popping a free list leaves its other slots in it.
LEMMA WithoutLast ==
  ASSUME NEW list \in Seq(Offsets), list # <<>>,
         \A k, l \in DOMAIN list : list[k] = list[l] => k = l
  PROVE  FreeOffsets(SubSeq(list, 1, Len(list) - 1)) = FreeOffsets(list) \ {list[Len(list)]}
<1> DEFINE n    == Len(list)
           rest == SubSeq(list, 1, n - 1)
<1>1. n \in Nat \ {0} /\ DOMAIN list = 1 .. n
  OBVIOUS
<1>2. DOMAIN rest = 1 .. n - 1 /\ \A k \in 1 .. n - 1 : rest[k] = list[k]
  BY <1>1
<1>3. \A k \in 1 .. n : k = n \/ k \in 1 .. n - 1
  <2> HIDE DEF n
  <2> QED BY <1>1
<1>4. \A k \in 1 .. n - 1 : k \in 1 .. n /\ list[k] # list[n]
  BY <1>1
<1>5. ASSUME NEW x
      PROVE  x \in FreeOffsets(rest) <=> \E k \in 1 .. n - 1 : x = list[k]
  BY <1>2 DEF FreeOffsets
<1>6. ASSUME NEW x
      PROVE  x \in FreeOffsets(list) <=> \E k \in 1 .. n : x = list[k]
  BY <1>1 DEF FreeOffsets
<1>7. n \in 1 .. n
  BY <1>1
<1> HIDE DEF rest, n
<1>8. ASSUME NEW x
      PROVE  x \in FreeOffsets(rest) <=> x \in FreeOffsets(list) /\ x # list[n]
  BY <1>3, <1>4, <1>5, <1>6
<1> QED BY <1>8 DEF rest, n

\* Pushing a slot adds it to those of the list.
LEMMA PushedFreeList ==
  ASSUME NEW list \in Seq(Offsets), NEW o \in Offsets
  PROVE  FreeOffsets(Append(list, o)) = FreeOffsets(list) \cup {o}
<1> DEFINE n    == Len(list)
           more == Append(list, o)
<1>1. /\ n \in Nat
      /\ DOMAIN list = 1 .. n
      /\ DOMAIN more = 1 .. n + 1
      /\ more[n + 1] = o
      /\ \A k \in 1 .. n : more[k] = list[k]
  BY AppendProperties
<1> HIDE DEF n, more
<1>2. \A k \in 1 .. n + 1 : k = n + 1 \/ k \in 1 .. n
  BY <1>1
<1>3. n + 1 \in 1 .. n + 1 /\ \A k \in 1 .. n : k \in 1 .. n + 1
  BY <1>1
<1>4. ASSUME NEW x
      PROVE  x \in FreeOffsets(more) <=> x \in FreeOffsets(list) \/ x = o
  BY <1>1, <1>2, <1>3 DEF FreeOffsets
<1> QED BY <1>4 DEF more

\* The first of a non-empty set of addresses or indices exists.
LEMMA MinOfNats ==
  ASSUME NEW S \in SUBSET Nat, S # {}
  PROVE  Min(S) \in S /\ \A n \in S : Min(S) <= n
<1>1. \E m \in S : \A n \in S : ~ (<<n, m>> \in OpToRel(<, Nat))
  BY NatLessThanWellFounded, WFMin
<1>2. PICK m \in S : \A n \in S : ~ (<<n, m>> \in OpToRel(<, Nat))
  BY <1>1
<1>3. ASSUME NEW n \in S PROVE ~(n < m)
  <2>1. ASSUME n < m PROVE <<n, m>> \in OpToRel(<, Nat)
    <3>1. <<n, m>> \in Nat \X Nat /\ <<n, m>>[1] = n /\ <<n, m>>[2] = m
      OBVIOUS
    <3> QED BY <2>1, <3>1, Zenon DEF OpToRel
  <2> QED BY <1>2, <2>1, Zenon
<1>4. \A n \in S : m <= n
  BY <1>3
<1> QED BY <1>4 DEF Min

\* VirtualAlloc answers null or a base that was free.
LEMMA VirtualAllocResult ==
  ASSUME NEW s \in Sites, NEW base \in VirtualAlloc(FindPageForAlloc(GetAddressableRange(s)))
  PROVE  base = Null \/ base \in FreeBases
<1> DEFINE found == FreeInRange(GetAddressableRange(s))
<1>1. found \subseteq FreeBases /\ FreeBases \subseteq Nat
  BY BasesAreNat DEF FreeInRange, FreeBases
<1>2. CASE found = {}
  BY <1>2 DEF VirtualAlloc, FindPageForAlloc
<1>3. CASE found # {}
  <2>1. Min(found) \in FreeBases
    BY <1>1, <1>3, MinOfNats
  <2> QED BY <1>3, <2>1 DEF VirtualAlloc, FindPageForAlloc
<1> QED BY <1>2, <1>3

-------------------------------------------------------------------------------
(* Taking a slot. *)

\* What the two ways of registering have in common: the page list pgs with its free
\* lists is sound, whether or not its last page is new, and page i has a free slot.
LEMMA TakeSlotPreserves ==
  ASSUME ~faulted,
         TypeOK,
         RecordsAtSlots,
         NEW s \in Sites,
         NEW pgs \in Seq(Bases),
         NEW frees \in Seq(Seq(Offsets)),
         Len(frees) = Len(pgs),
         Len(pages) <= Len(pgs),
         \A j \in DOMAIN pages : pgs[j] = pages[j],
         NEW i \in DOMAIN pgs,
         frees[i] # <<>>,
         \A j \in DOMAIN pgs :
           Partitioned(frees[j], UsedOffsets(records, j, pgs[j])),
         \A j, k \in DOMAIN pgs : pgs[j] = pgs[k] => j = k,
         \A j \in DOMAIN pgs : \A g \in Image \cup foreign : 
            j # i \/ pgs[i] # Null => pgs[j] # g * Gran,
         \A j \in DOMAIN pgs : j # i => pgs[j] # Null,
         TakeSlot(s, i, pgs, frees)
  PROVE  IInv' /\ StoreStep
<1> DEFINE free == frees[i]
           n    == Len(free)
           addr == pgs[i] + free[n]
<1> USE SizesAssumption
<1>1. /\ free \in Seq(Offsets)
      /\ n \in Nat \ {0}
      /\ n \in DOMAIN free
      /\ DOMAIN free = 1 .. n
      /\ free[n] \in Offsets
  BY ElementOfSeq
<1>2. /\ pgs[i] \in Nat
      /\ free[n] \in Nat
      /\ addr \in Nat
      /\ addr - pgs[i] = free[n]
  <2>1. pgs[i] \in Bases
    BY ElementOfSeq
  <2>2. pgs[i] \in Nat
    BY <2>1, BasesAreNat
  <2>3. free[n] \in Nat
    BY <1>1, OffsetsFit
  <2> QED BY <2>2, <2>3
<1>3. /\ pages' = pgs
      /\ freeLists' = [frees EXCEPT ![i] = SubSeq(free, 1, n - 1)]
      /\ faulted' = (pgs[i] = Null)
      /\ foreign' = foreign
  BY DEF TakeSlot
<1>4. /\ SubSeq(free, 1, n - 1) \in Seq(Offsets)
      /\ Len(SubSeq(free, 1, n - 1)) = n - 1
      /\ DOMAIN SubSeq(free, 1, n - 1) = 1 .. n - 1
      /\ \A k \in 1 .. n - 1 : SubSeq(free, 1, n - 1)[k] = free[k]
  BY <1>1
<1>5. DOMAIN frees = DOMAIN pgs /\ DOMAIN pgs = 1 .. Len(pgs) /\ DOMAIN pages = 1 .. Len(pages)
  BY DEF TypeOK
<1>6. /\ freeLists' \in Seq(Seq(Offsets))
      /\ Len(freeLists') = Len(pgs)
      /\ freeLists'[i] = SubSeq(free, 1, n - 1)
      /\ \A j \in DOMAIN pgs : j # i => freeLists'[j] = frees[j]
  BY <1>3, <1>4, <1>5
<1>7. DOMAIN records \subseteq Nat /\ \A a \in DOMAIN records : records[a] \in DOMAIN pages
  BY DEF TypeOK
<1>8. DOMAIN pages \subseteq DOMAIN pgs
  BY <1>5 DEF TypeOK
<1>9. CASE pgs[i] = Null
  <2>1. records' = records /\ code' = code
    BY <1>9 DEF TakeSlot
  <2>2. TypeOK'
    BY <1>3, <1>6, <1>8, <2>1 DEF TypeOK
  <2>3. RecordsAtSlots'
    BY <1>3, <1>7, <2>1 DEF RecordsAtSlots
  <2>4. StoreStep
    <3>1. Live' = Live /\ faulted' = TRUE
      BY <1>3, <1>9, <2>1 DEF Live
    <3>2. Store!Die
      BY <3>1 DEF Store!Die, Live
    <3> QED BY <3>2 DEF StoreStep, Store!Next
  <2> QED BY <1>3, <1>9, <2>2, <2>3, <2>4 DEF IInv, PagesDisjoint, SlotsPartitioned
<1>10. CASE pgs[i] # Null
  <2>1. /\ records' = [a \in DOMAIN records \cup {addr} |->
                         IF a = addr THEN i ELSE records[a]]
        /\ code' = [a \in DOMAIN code \cup {addr} |->
                      IF a = addr THEN s ELSE code[a]]
    BY <1>10 DEF TakeSlot
  <2>2. TypeOK'
    BY <1>2, <1>3, <1>6, <1>8, <2>1 DEF TypeOK
  <2>3. RecordsAtSlots'
    BY <1>1, <1>2, <1>3, <1>7, <2>1 DEF RecordsAtSlots
  <2>4. PagesDisjoint'
    BY <1>3, <1>10 DEF PagesDisjoint
  <2>5. ASSUME NEW j \in DOMAIN pgs
        PROVE  Partitioned(freeLists'[j], UsedOffsets(records', j, pgs[j]))
    <3>1. Partitioned(frees[j], UsedOffsets(records, j, pgs[j]))
      OBVIOUS
    <3>2. CASE j = i
      <4>1. free[n] \notin UsedOffsets(records, i, pgs[i])
        BY <1>1, <3>1, <3>2 DEF Partitioned, FreeOffsets
      <4>2. addr \notin {b \in DOMAIN records : records[b] = i}
        BY <1>2, <4>1 DEF UsedOffsets
      <4>3. {b \in DOMAIN records' : records'[b] = i}
              = {b \in DOMAIN records : records[b] = i} \cup {addr}
        BY <2>1
      <4>4. UsedOffsets(records', i, pgs[i]) = UsedOffsets(records, i, pgs[i]) \cup {free[n]}
        <5>1. UsedOffsets(records', i, pgs[i])
                = {a - pgs[i] : a \in {b \in DOMAIN records : records[b] = i} \cup {addr}}
          BY <4>3 DEF UsedOffsets
        <5>2. \A S : {a - pgs[i] : a \in S \cup {addr}}
                       = {a - pgs[i] : a \in S} \cup {addr - pgs[i]}
          OBVIOUS
        <5> QED BY <1>2, <5>1, <5>2 DEF UsedOffsets
      <4>5. free[n] \in FreeOffsets(free)
        BY <1>1 DEF FreeOffsets
      <4>6. FreeOffsets(freeLists'[i]) = FreeOffsets(free) \ {free[n]}
        <5>1. \A k, l \in DOMAIN free : free[k] = free[l] => k = l
          BY <3>1, <3>2 DEF Partitioned
        <5>2. FreeOffsets(SubSeq(free, 1, Len(free) - 1)) = FreeOffsets(free) \ {free[Len(free)]}
          BY <1>1, <5>1, WithoutLast
        <5> QED BY <1>6, <5>2
      <4>7. \A k, l \in DOMAIN freeLists'[i] : freeLists'[i][k] = freeLists'[i][l] => k = l
        <5>1. DOMAIN freeLists'[i] \subseteq DOMAIN free
          BY <1>1, <1>4, <1>6
        <5>2. \A k \in DOMAIN freeLists'[i] : freeLists'[i][k] = free[k]
          BY <1>4, <1>6
        <5>3. \A k, l \in DOMAIN free : free[k] = free[l] => k = l
          BY <3>1, <3>2 DEF Partitioned
        <5> QED BY <5>1, <5>2, <5>3
      <4> QED BY <3>1, <3>2, <4>1, <4>4, <4>5, <4>6, <4>7 DEF Partitioned
    <3>3. CASE j # i
      <4>1. addr \notin {b \in DOMAIN records : records[b] = j}
        <5>1. ASSUME addr \in DOMAIN records, records[addr] = j
              PROVE  FALSE
          <6>1. addr - pgs[j] \in Offsets
            BY <1>7, <5>1 DEF RecordsAtSlots
          <6>2. pgs[i] \in Bases /\ pgs[j] \in Bases
            BY ElementOfSeq
          <6>3. pgs[i] = pgs[j]
            BY <1>1, <1>2, <6>1, <6>2, SameGranule
          <6> QED BY <3>3, <6>3
        <5> QED BY <5>1
      <4>2. {b \in DOMAIN records' : records'[b] = j} = {b \in DOMAIN records : records[b] = j}
        BY <2>1, <3>3, <4>1
      <4>3. UsedOffsets(records', j, pgs[j]) = UsedOffsets(records, j, pgs[j])
        BY <4>2 DEF UsedOffsets
      <4>4. freeLists'[j] = frees[j]
        BY <1>6, <3>3
      <4> QED BY <3>1, <4>3, <4>4
    <3> QED BY <3>2, <3>3
  <2>6. SlotsPartitioned'
    BY <1>3, <2>5 DEF SlotsPartitioned
  <2>7. addr \notin DOMAIN records
    <3>1. ASSUME addr \in DOMAIN records PROVE FALSE
      <4> DEFINE j == records[addr]
      <4>1. j \in DOMAIN pgs /\ addr - pgs[j] \in Offsets
        BY <1>7, <1>8, <3>1 DEF RecordsAtSlots
      <4>2. pgs[i] \in Bases /\ pgs[j] \in Bases
        BY <4>1, ElementOfSeq
      <4>3. pgs[i] = pgs[j]
        BY <1>1, <1>2, <4>1, <4>2, SameGranule
      <4>4. j = i
        BY <4>1, <4>3
      <4>5. free[n] \in UsedOffsets(records, i, pgs[i])
        BY <1>2, <3>1, <4>4 DEF UsedOffsets
      <4>6. free[n] \in FreeOffsets(free)
        BY <1>1 DEF FreeOffsets
      <4> QED BY <4>5, <4>6 DEF Partitioned
    <3> QED BY <3>1
  <2>8. StoreStep
    <3>1. addr \in 0 .. Granules * Gran - 1
      <4>1. pgs[i] \in Bases
        BY ElementOfSeq
      <4> QED BY <1>1, <1>2, <4>1, SlotInAddressSpace
    <3>2. DOMAIN Live = DOMAIN records /\ DOMAIN records' = DOMAIN records \cup {addr}
      BY <2>1 DEF Live
    <3>3. Live' = [b \in DOMAIN Live \cup {addr} |-> IF b = addr THEN s ELSE Live[b]]
      <4>1. \A b \in DOMAIN records \cup {addr} :
              code'[b] = IF b = addr THEN s ELSE code[b]
        BY <2>1 DEF TypeOK
      <4> QED BY <2>1, <3>2, <4>1 DEF Live
    <3>4. faulted' = faulted
      BY <1>3, <1>10 DEF TypeOK
    <3>5. Store!Alloc(s, addr)
      <4>1. addr \in (0 .. Granules * Gran - 1) \ DOMAIN Live
        BY <2>7, <3>1, <3>2
      <4> QED BY <3>3, <3>4, <4>1 DEF Store!Alloc, Live
    <3> QED BY <3>1, <3>5 DEF StoreStep, Store!Next
  <2> QED BY <2>2, <2>3, <2>4, <2>6, <2>8 DEF IInv
<1> QED BY <1>9, <1>10

-------------------------------------------------------------------------------
(* The invariant. *)

\* At the start there are neither pages nor records.
LEMMA InitInvariant == Init => IInv
<1> SUFFICES ASSUME Init PROVE IInv
  OBVIOUS
<1>1. TypeOK
  <2>1. \A S : /\ <<>> \in Seq(S)
               /\ <<>> \in [DOMAIN <<>> -> S]
               /\ DOMAIN <<>> = {}
               /\ Len(<<>>) = 0
    <3>1. \A S : <<>> \in Seq(S) /\ Len(<<>>) = 0
      OBVIOUS
    <3>2. \A S : <<>> \in [1 .. Len(<<>>) -> S]
      BY <3>1, LenProperties
    <3>3. DOMAIN <<>> = 1 .. 0
      BY <3>1
    <3> QED BY <3>1, <3>2, <3>3
  <2> QED BY <2>1 DEF Init, TypeOK
<1>2. DOMAIN pages = {} /\ DOMAIN records = {}
  BY DEF Init
<1> QED BY <1>1, <1>2 DEF IInv, PagesDisjoint, SlotsPartitioned, RecordsAtSlots

\* Register from a page that exists keeps the invariant, and is a step of the store.
LEMMA RegisterInPageInvariant ==
  ASSUME IInv, ~faulted, NEW s \in Sites, RegisterInPage(s)
  PROVE  IInv' /\ StoreStep
<1> DEFINE fitting == FindRelevantPageInRange(GetAddressableRange(s))
           i       == Min(fitting)
<1>1. fitting # {} /\ TakeSlot(s, i, pages, freeLists)
  BY DEF RegisterInPage
<1>2. fitting \subseteq DOMAIN pages /\ DOMAIN pages \subseteq Nat
  BY DEF FindRelevantPageInRange, IInv, TypeOK
<1>3. i \in fitting
  BY <1>1, <1>2, MinOfNats
<1>4. i \in DOMAIN pages /\ freeLists[i] # <<>>
  BY <1>3 DEF FindRelevantPageInRange
<1>5. /\ TypeOK
      /\ RecordsAtSlots
      /\ pages \in Seq(Bases)
      /\ freeLists \in Seq(Seq(Offsets))
      /\ Len(freeLists) = Len(pages)
      /\ Len(pages) <= Len(pages)
  BY DEF IInv, TypeOK
<1>6. /\ \A j \in DOMAIN pages : Partitioned(freeLists[j], UsedOffsets(records, j, pages[j]))
      /\ \A j, k \in DOMAIN pages : pages[j] = pages[k] => j = k
      /\ \A j \in DOMAIN pages : \A g \in Image \cup foreign : pages[j] # g * Gran
      /\ \A j \in DOMAIN pages : pages[j] # Null
  BY DEF IInv, PagesDisjoint, SlotsPartitioned
<1> HIDE DEF i
<1>7. /\ \A j \in DOMAIN pages : pages[j] = pages[j]
      /\ \A j \in DOMAIN pages : \A g \in Image \cup foreign :
            j # i \/ pages[i] # Null => pages[j] # g * Gran
      /\ \A j \in DOMAIN pages : j # i => pages[j] # Null
  BY <1>6
<1> QED BY <1>1, <1>4, <1>5, <1>6, <1>7, TakeSlotPreserves, Zenon

\* So does Register from a new page, and one from no page is the death of the process.
LEMMA AddNewPageInvariant ==
  ASSUME IInv, ~faulted, NEW s \in Sites, AddNewPage(s)
  PROVE  IInv' /\ StoreStep
<1> USE SizesAssumption
<1>1. PICK base \in VirtualAlloc(FindPageForAlloc(GetAddressableRange(s))) :
        TakeSlot(s, Len(pages) + 1, Append(pages, base), Append(freeLists, NewFreeList))
  BY DEF AddNewPage
<1>2. base = Null \/ base \in FreeBases
  BY <1>1, VirtualAllocResult
<1>3. Null \in Bases /\ FreeBases \subseteq Bases
  <2>1. 0 * Gran = Null /\ 0 \in 0 .. Granules - 1
    BY DEF Null
  <2> QED BY <2>1 DEF Bases, FreeBases
<1> DEFINE i     == Len(pages) + 1
           pgs   == Append(pages, base)
           frees == Append(freeLists, NewFreeList)
<1>4. /\ pages \in Seq(Bases)
      /\ freeLists \in Seq(Seq(Offsets))
      /\ Len(freeLists) = Len(pages)
      /\ Len(pages) \in Nat
      /\ DOMAIN pages = 1 .. Len(pages)
  BY DEF IInv, TypeOK
<1>5. /\ pgs \in Seq(Bases)
      /\ frees \in Seq(Seq(Offsets))
      /\ Len(pgs) = Len(pages) + 1
      /\ Len(frees) = Len(pgs)
      /\ DOMAIN pgs = 1 .. i
      /\ i \in DOMAIN pgs
      /\ pgs[i] = base
      /\ frees[i] = NewFreeList
      /\ \A j \in DOMAIN pages : pgs[j] = pages[j] /\ frees[j] = freeLists[j]
  <2>1. base \in Bases /\ NewFreeList \in Seq(Offsets)
    BY <1>2, <1>3, NewFreeListIsFull
  <2>2. /\ pgs \in Seq(Bases)
        /\ Len(pgs) = Len(pages) + 1
        /\ pgs[i] = base
        /\ \A j \in 1 .. Len(pages) : pgs[j] = pages[j]
    BY <1>4, <2>1, AppendProperties
  <2>3. /\ frees \in Seq(Seq(Offsets))
        /\ Len(frees) = Len(pages) + 1
        /\ frees[i] = NewFreeList
        /\ \A j \in 1 .. Len(pages) : frees[j] = freeLists[j]
    BY <1>4, <2>1, AppendProperties
  <2> HIDE DEF pgs, frees
  <2> QED BY <1>4, <2>2, <2>3
<1>6. \A j \in DOMAIN pgs : j = i \/ j \in DOMAIN pages
  BY <1>4, <1>5
<1>7. frees[i] # <<>>
  BY <1>5, NewFreeListIsFull
<1>8. ASSUME NEW j \in DOMAIN pgs
      PROVE  Partitioned(frees[j], UsedOffsets(records, j, pgs[j]))
  <2>1. CASE j = i
    <3>1. {b \in DOMAIN records : records[b] = i} = {}
      BY <1>4 DEF IInv, TypeOK
    <3>2. UsedOffsets(records, i, pgs[i]) = {}
      BY <3>1 DEF UsedOffsets
    <3> QED BY <1>5, <2>1, <3>2, NewFreeListIsFull DEF Partitioned
  <2>2. CASE j \in DOMAIN pages
    BY <1>5, <2>2 DEF IInv, SlotsPartitioned
  <2> QED BY <1>6, <2>1, <2>2
<1>9. ASSUME NEW j \in DOMAIN pages
      PROVE  /\ pages[j] # Null
             /\ pages[j] # base
             /\ \A g \in Image \cup foreign : pages[j] # g * Gran
  BY <1>2, <1>9 DEF IInv, PagesDisjoint, FreeBases, Owned
<1>10. \A j, k \in DOMAIN pgs : pgs[j] = pgs[k] => j = k
  BY <1>5, <1>6, <1>9 DEF IInv, PagesDisjoint
<1>11. base # Null => \A g \in Image \cup foreign : base # g * Gran
  BY <1>2 DEF FreeBases
<1>12. \A j \in DOMAIN pgs : \A g \in Image \cup foreign :
         j # i \/ pgs[i] # Null => pgs[j] # g * Gran
  BY <1>5, <1>6, <1>9, <1>11
<1>13. \A j \in DOMAIN pgs : j # i => pgs[j] # Null
  BY <1>5, <1>6, <1>9
<1>14. TypeOK /\ RecordsAtSlots /\ Len(pages) <= Len(pgs) /\ TakeSlot(s, i, pgs, frees)
  BY <1>1, <1>4, <1>5 DEF IInv
<1> HIDE DEF i, pgs, frees
<1> QED BY <1>5, <1>7, <1>8, <1>10, <1>12, <1>13, <1>14, TakeSlotPreserves

\* So does Unregister; of an address that is not registered it changes nothing.
LEMMA UnregisterInvariant ==
  ASSUME IInv, NEW addr, Unregister(addr)
  PROVE  IInv' /\ StoreStep
<1>1. /\ ~faulted
      /\ pages' = pages
      /\ code' = code
      /\ foreign' = foreign
      /\ faulted' = faulted
  BY DEF Unregister
<1>2. PagesDisjoint'
  BY <1>1 DEF IInv, PagesDisjoint
<1>3. CASE addr \notin DOMAIN records
  <2>1. freeLists' = freeLists /\ records' = records
    BY <1>3 DEF Unregister
  <2>2. StoreStep
    BY <1>1, <2>1 DEF StoreStep, Store!vars
  <2> QED BY <1>1, <1>2, <2>1, <2>2 DEF IInv, TypeOK, SlotsPartitioned, RecordsAtSlots
<1>4. CASE addr \in DOMAIN records
  <2> DEFINE i      == records[addr]
             offset == addr - pages[i]
             free   == freeLists[i]
             n      == Len(free)
  <2>1. /\ freeLists' = [freeLists EXCEPT ![i] = Append(free, offset)]
        /\ records' = [a \in DOMAIN records \ {addr} |-> records[a]]
    BY <1>4 DEF Unregister
  <2>2. /\ i \in DOMAIN pages
        /\ DOMAIN freeLists = DOMAIN pages
        /\ DOMAIN pages = 1 .. Len(pages)
        /\ freeLists \in Seq(Seq(Offsets))
        /\ free \in Seq(Offsets)
        /\ n \in Nat
        /\ DOMAIN free = 1 .. n
        /\ offset \in Offsets
    BY <1>4 DEF IInv, TypeOK, RecordsAtSlots
  <2>3. /\ Append(free, offset) \in Seq(Offsets)
        /\ DOMAIN Append(free, offset) = 1 .. n + 1
        /\ Append(free, offset)[n + 1] = offset
        /\ \A k \in 1 .. n : Append(free, offset)[k] = free[k]
    BY <2>2, AppendProperties
  <2>4. /\ freeLists' \in Seq(Seq(Offsets))
        /\ Len(freeLists') = Len(freeLists)
        /\ freeLists'[i] = Append(free, offset)
        /\ \A j \in DOMAIN pages : j # i => freeLists'[j] = freeLists[j]
    BY <2>1, <2>2, <2>3
  <2>5. TypeOK'
    BY <1>1, <2>1, <2>4 DEF IInv, TypeOK
  <2>6. RecordsAtSlots'
    BY <1>1, <2>1 DEF IInv, RecordsAtSlots
  <2>7. ASSUME NEW j \in DOMAIN pages
        PROVE  Partitioned(freeLists'[j], UsedOffsets(records', j, pages[j]))
    <3>1. Partitioned(freeLists[j], UsedOffsets(records, j, pages[j]))
      BY <1>1 DEF IInv, SlotsPartitioned
    <3>2. CASE j # i
      <4>1. {b \in DOMAIN records' : records'[b] = j} = {b \in DOMAIN records : records[b] = j}
        BY <2>1, <3>2
      <4>2. UsedOffsets(records', j, pages[j]) = UsedOffsets(records, j, pages[j])
        BY <4>1 DEF UsedOffsets
      <4> QED BY <2>4, <3>1, <3>2, <4>2
    <3>3. CASE j = i
      <4>1. {b \in DOMAIN records' : records'[b] = i}
              = {b \in DOMAIN records : records[b] = i} \ {addr}
        BY <2>1
      <4>2. offset \in UsedOffsets(records, i, pages[i])
        BY <1>4 DEF UsedOffsets
      <4>3. UsedOffsets(records', i, pages[i])
              = UsedOffsets(records, i, pages[i]) \ {offset}
        <5>1. ASSUME NEW b \in DOMAIN records, b # addr
              PROVE  b - pages[i] # offset
          <6>1. pages[i] \in Nat
            BY <2>2, ElementOfSeq, BasesAreNat DEF IInv, TypeOK
          <6> QED BY <1>4, <5>1, <6>1 DEF IInv, TypeOK
        <5>2. \A b \in {c \in DOMAIN records : records[c] = i} :
                 b \in DOMAIN records
          OBVIOUS
        <5> QED BY <1>4, <4>1, <5>1, <5>2 DEF UsedOffsets
      <4>4. offset \notin FreeOffsets(free)
        BY <3>1, <3>3, <4>2 DEF Partitioned
      <4>5. FreeOffsets(Append(free, offset)) = FreeOffsets(free) \cup {offset}
        BY <2>2, PushedFreeList
      <4>6. \A k, l \in DOMAIN Append(free, offset) :
              Append(free, offset)[k] = Append(free, offset)[l] => k = l
        <5>1. \A k \in 1 .. n : free[k] # offset
          BY <2>2, <4>4 DEF FreeOffsets
        <5>2. \A k, l \in 1 .. n : free[k] = free[l] => k = l
          BY <2>2, <3>1, <3>3 DEF Partitioned
        <5>3. \A k \in 1 .. n + 1 : k = n + 1 \/ k \in 1 .. n
          <6>1. n \in Nat
            BY <2>2
          <6> HIDE DEF n
          <6> QED BY <6>1
        <5> QED BY <2>3, <5>1, <5>2, <5>3
      <4>7. /\ FreeOffsets(free) \cup UsedOffsets(records, i, pages[i]) = Offsets
            /\ FreeOffsets(free) \cap UsedOffsets(records, i, pages[i]) = {}
        BY <3>1, <3>3 DEF Partitioned
      <4> DEFINE list == Append(free, offset)
                 used == UsedOffsets(records', i, pages[i])
      <4>8. FreeOffsets(list) \cup used = Offsets /\ FreeOffsets(list) \cap used = {}
        <5> HIDE DEF offset, free, list, used
        <5> QED BY <4>2, <4>3, <4>4, <4>5, <4>7 DEF list, used
      <4>9. Partitioned(list, used)
        BY <4>6, <4>8 DEF Partitioned
      <4> QED BY <2>4, <3>3, <4>9
    <3> QED BY <3>2, <3>3
  <2>8. SlotsPartitioned'
    BY <1>1, <2>7 DEF SlotsPartitioned
  <2>9. StoreStep
    <3>1. addr \in 0 .. Granules * Gran - 1
      <4>1. pages[i] \in Bases /\ addr \in Nat
        BY <1>4, <2>2, ElementOfSeq DEF IInv, TypeOK
      <4> QED BY <2>2, <4>1, SlotInAddressSpace
    <3>2. DOMAIN Live = DOMAIN records /\ DOMAIN records' = DOMAIN records \ {addr}
      BY <2>1 DEF Live
    <3>3. Live' = [b \in DOMAIN Live \ {addr} |-> Live[b]]
      BY <1>1, <2>1, <3>2 DEF Live
    <3>4. Store!Release(addr)
      BY <1>1, <1>4, <3>2, <3>3 DEF Store!Release, Live
    <3> QED BY <3>1, <3>4 DEF StoreStep, Store!Next
  <2> QED BY <1>2, <2>5, <2>6, <2>8, <2>9 DEF IInv
<1> QED BY <1>3, <1>4

\* The rest of the process takes no memory from the registry.
LEMMA ForeignInvariant ==
  ASSUME IInv, NEW g \in 0 .. Granules - 1, ForeignAlloc(g) \/ ForeignFree(g)
  PROVE  IInv' /\ StoreStep
<1>1. /\ UNCHANGED <<pages, freeLists, records, code, faulted>>
      /\ foreign' \subseteq foreign \cup {g}
      /\ g \in foreign' => g \in foreign \/ g * Gran \in FreeBases
  BY DEF ForeignAlloc, ForeignFree
<1>2. TypeOK' /\ SlotsPartitioned' /\ RecordsAtSlots'
  BY <1>1 DEF IInv, TypeOK, SlotsPartitioned, RecordsAtSlots
<1>3. PagesDisjoint'
  <2>1. g \in foreign' \ foreign => \A i \in DOMAIN pages : pages[i] # g * Gran
    BY <1>1 DEF FreeBases, Owned
  <2> QED BY <1>1, <2>1 DEF IInv, PagesDisjoint
<1>4. StoreStep
  BY <1>1 DEF StoreStep, Store!vars
<1> QED BY <1>2, <1>3, <1>4 DEF IInv

\* Every step keeps the invariant, and is a step of the store or none.
LEMMA StepInvariant == IInv /\ [Next]_vars => IInv' /\ StoreStep
<1> SUFFICES ASSUME IInv, [Next]_vars PROVE IInv' /\ StoreStep
  OBVIOUS
<1>1. ASSUME NEW s \in Sites, Register(s) PROVE IInv' /\ StoreStep
  BY <1>1, RegisterInPageInvariant, AddNewPageInvariant DEF Register
<1>2. ASSUME NEW addr \in DOMAIN code \cup {Null}, Unregister(addr)
      PROVE  IInv' /\ StoreStep
  BY <1>2, UnregisterInvariant
<1>3. ASSUME NEW g \in 0 .. Granules - 1, ForeignAlloc(g) PROVE IInv' /\ StoreStep
  BY <1>3, ForeignInvariant
<1>4. ASSUME NEW g \in 0 .. Granules - 1, ForeignFree(g) PROVE IInv' /\ StoreStep
  BY <1>4, ForeignInvariant
<1>5. CASE UNCHANGED vars
  BY <1>5 DEF vars, IInv, TypeOK, PagesDisjoint, SlotsPartitioned, RecordsAtSlots,
              StoreStep, Store!vars
<1> QED BY <1>1, <1>2, <1>3, <1>4, <1>5 DEF Next

\* The inductive invariant holds in every state of every instance.
THEOREM Invariance == Spec => []IInv
  BY InitInvariant, StepInvariant, PTL DEF Spec

-------------------------------------------------------------------------------
(* What the invariant is for. *)

\* The registry's state keeps its shape (TrampolineRegistry's members).
THEOREM TypeCorrect == Spec => []TypeOK
<1>1. IInv => TypeOK
  BY DEF IInv
<1> QED BY <1>1, Invariance, PTL

\* No slot leaks and none is free while it is in use, whatever hooks are installed
\* and uninstalled (Register, Unregister).
THEOREM SlotSafety == Spec => []SlotsPartitioned
<1>1. IInv => SlotsPartitioned
  BY DEF IInv
<1> QED BY <1>1, Invariance, PTL

\* Trampolines in use never overlap and stay within their pages.
THEOREM Disjointness == Spec => []TrampolinesDisjoint
<1>1. IInv => TrampolinesDisjoint
  <2> SUFFICES ASSUME IInv, ~faulted PROVE TrampolinesDisjoint
    BY DEF TrampolinesDisjoint
  <2> USE SizesAssumption
  <2>1. ASSUME NEW a \in DOMAIN records
        PROVE  /\ a \in Nat
               /\ records[a] \in DOMAIN pages
               /\ pages[records[a]] \in Bases
               /\ pages[records[a]] \in Nat
               /\ a - pages[records[a]] \in Offsets
               /\ a - pages[records[a]] \in Nat
               /\ a - pages[records[a]] + SlotSize <= Gran
    <3>1. /\ a \in Nat
          /\ records[a] \in DOMAIN pages
          /\ a - pages[records[a]] \in Offsets
      BY DEF IInv, TypeOK, RecordsAtSlots
    <3>2. pages[records[a]] \in Bases
      BY <3>1, ElementOfSeq DEF IInv, TypeOK
    <3> QED BY <3>1, <3>2, BasesAreNat, OffsetsFit
  <2>2. ASSUME NEW a \in DOMAIN records
        PROVE  /\ pages[records[a]] <= a
               /\ a + SlotSize <= pages[records[a]] + Gran
    BY <2>1
  <2>3. ASSUME NEW a \in DOMAIN records, NEW b \in DOMAIN records, a < b
        PROVE  a + SlotSize <= b
    <3> DEFINE p == pages[records[a]]
               q == pages[records[b]]
    <3>1. CASE p = q
      <4>1. PICK k \in 0 .. SlotsPerPage - 1 : a - p = k * SlotSize
        BY <2>1 DEF Offsets
      <4>2. PICK l \in 0 .. SlotsPerPage - 1 : b - q = l * SlotSize
        BY <2>1 DEF Offsets
      <4>3. k \in Nat /\ l \in Nat
        BY <4>1, <4>2, NewFreeListIsFull
      <4>4. k * SlotSize \in Nat /\ l * SlotSize \in Nat
        BY <4>3
      <4>5. ~(l <= k)
        <5>1. ASSUME l < k PROVE l * SlotSize + SlotSize <= k * SlotSize
          BY <4>3, <5>1, MultiplesApart
        <5> QED BY <2>1, <2>3, <3>1, <4>1, <4>2, <4>3, <4>4, <5>1
      <4>6. k * SlotSize + SlotSize <= l * SlotSize
        BY <4>3, <4>5, MultiplesApart
      <4> QED BY <2>1, <3>1, <4>1, <4>2, <4>4, <4>6
    <3>2. CASE p # q
      <4>1. PICK g \in 0 .. Granules - 1 : p = g * Gran
        BY <2>1 DEF Bases
      <4>2. PICK h \in 0 .. Granules - 1 : q = h * Gran
        BY <2>1 DEF Bases
      <4>3. CASE g < h
        <5>1. p + Gran <= q
          BY <4>1, <4>2, <4>3, MultiplesApart
        <5> QED BY <2>1, <5>1
      <4>4. CASE h < g
        <5>1. q + Gran <= p
          BY <4>1, <4>2, <4>4, MultiplesApart
        <5> QED BY <2>1, <2>3, <5>1
      <4> QED BY <3>2, <4>1, <4>2, <4>3, <4>4
    <3> QED BY <3>1, <3>2
  <2> QED BY <2>2, <2>3 DEF TrampolinesDisjoint
<1> QED BY <1>1, Invariance, PTL

\* The registry implements the store: it never hands out a slot that is in use, nor
\* touches one until it is unregistered (Register, Unregister).
THEOREM Implementation == Spec => ImplementsStore
<1>1. Init => Store!Init
  <2> SUFFICES ASSUME Init PROVE Store!Init
    OBVIOUS
  <2>1. DOMAIN records = {} /\ faulted = FALSE
    BY DEF Init
  <2> QED BY <2>1 DEF Store!Init
<1>2. IInv /\ [Next]_vars => [Store!Next]_(Store!vars)
  BY StepInvariant DEF StoreStep
<1> QED BY <1>1, <1>2, Invariance, PTL DEF Spec, ImplementsStore, Store!Spec

\* The largest of a bounded set of addresses exists.
LEMMA MaxOfNats ==
  ASSUME NEW S \in SUBSET Nat, S # {}, NEW bound \in Nat, \A n \in S : n <= bound
  PROVE  Max(S) \in S /\ \A n \in S : n <= Max(S)
<1> DEFINE T == {bound - n : n \in S}
<1>1. T \in SUBSET Nat /\ T # {}
  <2>1. \A n \in S : bound - n \in Nat
    OBVIOUS
  <2> QED BY <2>1
<1>2. Min(T) \in T /\ \A t \in T : Min(T) <= t
  BY <1>1, MinOfNats
<1>3. PICK m \in S : Min(T) = bound - m
  BY <1>2
<1>4. ASSUME NEW n \in S PROVE n <= m
  <2>1. bound - n \in T
    OBVIOUS
  <2>2. Min(T) <= bound - n
    BY <1>2, <2>1
  <2> QED BY <1>3, <2>2
<1> QED BY <1>4 DEF Max

\* A displacement that fits in 32 bits is read back by the CPU as it was written.
LEMMA Signed32Identity ==
  ASSUME NEW n \in Int, -DispLimit <= n, n < DispLimit
  PROVE  Signed32(n) = n
<1>1. DispLimit \in Nat \ {0}
  BY SizesAssumption
<1>2. \A m \in Nat \ {0} : \A k \in 0 .. m - 1 : k % m = k
  OBVIOUS
<1>3. n + DispLimit \in 0 .. 2 * DispLimit - 1 /\ 2 * DispLimit \in Nat \ {0}
  BY <1>1
<1>4. (n + DispLimit) % (2 * DispLimit) = n + DispLimit
  BY <1>2, <1>3
<1> QED BY <1>1, <1>4 DEF Signed32

\* The 64 KB that GetAddressableRange leaves between 0x7FFF0000 and what a disp32
\* can span is enough for every slot of every page in range.
THEOREM InRangeResolves == Spec => []InRangeTrampolinesResolve
<1>1. IInv => InRangeTrampolinesResolve
  <2> SUFFICES ASSUME IInv, NEW a \in DOMAIN records,
                      InRange(GetAddressableRange(code[a]), pages[records[a]]),
                      NEW d \in code[a].disps
               PROVE  FixedUpTarget(a, d) = d.target
    BY DEF InRangeTrampolinesResolve
  <2> USE SizesAssumption
  <2> DEFINE s == code[a]
             p == pages[records[a]]
             A == Addressed(s)
             end == a + d.base
  <2>1. /\ s \in Sites
        /\ a \in Nat
        /\ records[a] \in DOMAIN pages
        /\ a - p \in Offsets
    BY DEF IInv, TypeOK, RecordsAtSlots
  <2>2. p \in Nat
    BY <2>1, ElementOfSeq, BasesAreNat DEF IInv, TypeOK
  <2>3. a - p \in Nat /\ a - p + SlotSize <= Gran
    BY <2>1, OffsetsFit
  <2>4. /\ s.func \in Nat
        /\ s.func < Granules * Gran
        /\ \A e \in s.disps : /\ e.base \in 0 .. SlotSize
                              /\ e.target \in Nat
                              /\ e.target < Granules * Gran
    BY <2>1, SitesAssumption DEF Displacements
  <2>5. A \in SUBSET Nat /\ A # {} /\ Granules * Gran \in Nat /\ \A n \in A : n <= Granules * Gran
    BY <2>4 DEF Addressed
  <2>6. /\ Min(A) \in Nat /\ \A n \in A : Min(A) <= n
        /\ Max(A) \in Nat /\ \A n \in A : n <= Max(A)
    BY <2>5, MinOfNats, MaxOfNats
  <2>7. d.target \in A
    BY DEF Addressed
  <2>8. Max(A) - Reach <= p /\ p < Min(A) + Reach
    BY DEF InRange, GetAddressableRange
  <2>9. d.base \in 0 .. SlotSize /\ d.target \in Nat
    BY <2>4
  <2>10. /\ d.target - end \in Int
         /\ -DispLimit <= d.target - end
         /\ d.target - end < DispLimit
    <3>1. Min(A) <= d.target /\ d.target <= Max(A)
      BY <2>6, <2>7
    <3> HIDE DEF s, p, A
    <3> QED BY <2>1, <2>2, <2>3, <2>6, <2>8, <2>9, <3>1
  <2>11. Signed32(d.target - end) = d.target - end
    BY <2>10, Signed32Identity
  <2> QED BY <2>1, <2>9, <2>11 DEF FixedUpTarget
<1> QED BY <1>1, Invariance, PTL

-------------------------------------------------------------------------------
(* The search for a page in range. *)

\* The first free granule found lies in the range that was searched: rounded to whole
\* granules, the range does not grow.
LEMMA FoundInRange ==
  ASSUME NEW s \in Sites, FreeInRange(GetAddressableRange(s)) # {}
  PROVE  InRange(GetAddressableRange(s), Min(FreeInRange(GetAddressableRange(s))))
<1> USE SizesAssumption
<1> DEFINE A     == Addressed(s)
           range == GetAddressableRange(s)
           found == FreeInRange(range)
           base  == Min(found)
<1>1. range.min \in Int /\ range.max \in Int
  <2>1. /\ s.func \in Nat
        /\ s.func < Granules * Gran
        /\ \A e \in s.disps : e.target \in Nat /\ e.target < Granules * Gran
    BY SitesAssumption DEF Displacements
  <2>2. A \in SUBSET Nat /\ A # {} /\ Granules * Gran \in Nat /\ \A n \in A : n <= Granules * Gran
    BY <2>1 DEF Addressed
  <2>3. Min(A) \in Nat /\ Max(A) \in Nat
    BY <2>2, MinOfNats, MaxOfNats
  <2> QED BY <2>3 DEF GetAddressableRange
<1>2. found \subseteq Nat
  BY BasesAreNat DEF FreeInRange, FreeBases
<1>3. base \in found /\ base \in Nat
  BY <1>2, MinOfNats
<1>4. AlignUp(range.min) <= base /\ base < AlignDown(range.max) - Gran
  BY <1>3 DEF FreeInRange, AlignMemRangeWithGranularity
<1>5. \A n \in Int : /\ n \div Gran \in Int /\ AlignDown(n) \in Int
                     /\ AlignDown(n) <= n /\ n < AlignDown(n) + Gran
  BY DEF AlignDown
<1>6. range.min <= AlignUp(range.min) /\ AlignUp(range.min) \in Int
  BY <1>1, <1>5 DEF AlignUp
<1>7. AlignDown(range.max) - Gran < range.max /\ AlignDown(range.max) \in Int
  BY <1>1, <1>5
<1> HIDE DEF base, found, range, A
<1> QED BY <1>1, <1>3, <1>4, <1>6, <1>7 DEF InRange, base, found, range

OnlyIfExhausted ==
  \A a \in DOMAIN records' \ DOMAIN records :
    LET range == GetAddressableRange(code'[a])
    IN  ~InRange(range, pages'[records'[a]]) => FreeInRange(range) = {}

\* The slot taken is the only new record, and it is one of the page it was taken from.
LEMMA TakenSlot ==
  ASSUME NEW s, NEW i, NEW pgs, NEW frees, TakeSlot(s, i, pgs, frees),
         NEW a \in DOMAIN records' \ DOMAIN records
  PROVE  pages'[records'[a]] = pgs[i] /\ code'[a] = s /\ pgs[i] # Null
BY DEF TakeSlot

\* Register looks further than the range only when the search in it finds nothing.
LEMMA SearchStep == IInv /\ [Next]_vars => OnlyIfExhausted
<1> SUFFICES ASSUME IInv, [Next]_vars, NEW a \in DOMAIN records' \ DOMAIN records,
                    ~InRange(GetAddressableRange(code'[a]), pages'[records'[a]])
             PROVE  FreeInRange(GetAddressableRange(code'[a])) = {}
  BY DEF OnlyIfExhausted
<1>1. ASSUME NEW s \in Sites, RegisterInPage(s)
      PROVE  FreeInRange(GetAddressableRange(code'[a])) = {}
  <2> DEFINE fitting == FindRelevantPageInRange(GetAddressableRange(s))
  <2>1. fitting \subseteq Nat /\ fitting # {}
    BY <1>1 DEF RegisterInPage, FindRelevantPageInRange, IInv, TypeOK
  <2>2. Min(fitting) \in fitting
    BY <2>1, MinOfNats
  <2>3. InRange(GetAddressableRange(s), pages[Min(fitting)])
    BY <2>2 DEF FindRelevantPageInRange
  <2>4. TakeSlot(s, Min(fitting), pages, freeLists)
    BY <1>1 DEF RegisterInPage
  <2>5. pages'[records'[a]] = pages[Min(fitting)] /\ code'[a] = s
    BY <2>4, TakenSlot
  <2> QED BY <2>3, <2>5
<1>2. ASSUME NEW s \in Sites, AddNewPage(s)
      PROVE  FreeInRange(GetAddressableRange(code'[a])) = {}
  <2> DEFINE range == GetAddressableRange(s)
  <2>1. PICK base \in VirtualAlloc(FindPageForAlloc(range)) :
          TakeSlot(s, Len(pages) + 1, Append(pages, base), Append(freeLists, NewFreeList))
    BY <1>2 DEF AddNewPage
  <2>2. Append(pages, base)[Len(pages) + 1] = base
    <3>1. base = Null \/ base \in FreeBases
      BY VirtualAllocResult
    <3>2. pages \in Seq(Nat) /\ base \in Nat
      BY <3>1, BasesAreNat DEF IInv, TypeOK, FreeBases, Null
    <3> QED BY <3>2, AppendProperties
  <2>3. pages'[records'[a]] = base /\ code'[a] = s /\ base # Null
    <3> DEFINE i     == Len(pages) + 1
               pgs   == Append(pages, base)
               frees == Append(freeLists, NewFreeList)
    <3>1. TakeSlot(s, i, pgs, frees)
      BY <2>1
    <3>2. pgs[i] = base
      BY <2>2
    <3> HIDE DEF i, pgs, frees
    <3> QED BY <3>1, <3>2, TakenSlot
  <2>4. CASE FreeInRange(range) # {}
    <3>1. InRange(range, Min(FreeInRange(range)))
      BY <2>4, FoundInRange
    <3>2. base \in {Null, Min(FreeInRange(range))} \/ Min(FreeInRange(range)) = Null
      BY <2>4 DEF VirtualAlloc, FindPageForAlloc
    <3>3. Min(FreeInRange(range)) # Null
      <4>1. Min(FreeInRange(range)) \in FreeBases
        BY <2>4, BasesAreNat, MinOfNats DEF FreeInRange, FreeBases
      <4>2. Null \notin FreeBases
        BY SizesAssumption DEF FreeBases, Null
      <4> QED BY <4>1, <4>2
    <3>4. base = Min(FreeInRange(range))
      BY <2>3, <3>2, <3>3
    <3> QED BY <2>3, <3>1, <3>4
  <2> QED BY <2>3, <2>4
<1>3. ASSUME NEW addr, Unregister(addr) PROVE FALSE
  BY <1>3 DEF Unregister
<1>4. ASSUME NEW g, ForeignAlloc(g) \/ ForeignFree(g) PROVE FALSE
  BY <1>4 DEF ForeignAlloc, ForeignFree
<1>5. CASE UNCHANGED vars
  BY <1>5 DEF vars
<1> QED BY <1>1, <1>2, <1>3, <1>4, <1>5 DEF Next, Register

\* A trampoline out of its site's range means that none of the granules the search looks
\* at was free, all in the range but the last, for every size of granule and reach
\* (FindPageForAlloc): what it finds lies in the range it was given, and is used.
THEOREM SearchComplete == Spec => OutOfRangeOnlyIfExhausted
<1>1. IInv /\ [Next]_vars => [OnlyIfExhausted]_vars
  BY SearchStep
<1> QED BY <1>1, Invariance, PTL DEF Spec, OutOfRangeOnlyIfExhausted, OnlyIfExhausted

===============================================================================
