-------------------------- MODULE TrampolineRegistry --------------------------
(***************************************************************************)
(* Gandr's TrampolineRegistry (Hook.cpp): the pages of executable memory   *)
(* from which Hook::Install takes one slot per installed hook.             *)
(*                                                                         *)
(* Addresses are integers and 0 is the null address.  The address space of *)
(* the hooked process is Granules granules of Gran bytes each, the unit in *)
(* which VirtualAlloc places pages.  Both operations run under the         *)
(* registry's exclusive lock from their first line to their last, so each  *)
(* is one action.                                                          *)
(***************************************************************************)
EXTENDS Integers, Sequences, FiniteSetsExt

CONSTANTS
  Gran,       \* dwAllocationGranularity: 0x10000 on Windows
  SlotSize,   \* k_trampolineSize: 0x28; it does not divide Gran
  Reach,      \* 0x7FFF0000, how far GetAddressableRange lets a page be
  DispLimit,  \* a disp32 holds -DispLimit .. DispLimit - 1: 0x80000000
  Granules,   \* size of the address space, in granules
  Image,      \* granules that are never free: null, the loaded images
  Sites       \* the functions hooked, with the displacements in their prologs

\* A displacement of a copied prolog: the address the instruction refers to, and
\* the offset in the copy of the end of that instruction, where the CPU adds it.
Displacements == [base : 0 .. SlotSize, target : Nat]

ASSUME SizesAssumption ==
  /\ Gran \in Nat \ {0}
  /\ SlotSize \in 1 .. Gran
  /\ Reach \in Nat
  /\ DispLimit \in Nat
  /\ Reach + Gran <= DispLimit
  /\ Granules \in Nat \ {0}
  /\ Image \subseteq 0 .. Granules - 1
  /\ 0 \in Image

\* The source computes a site's range with unsigned arithmetic; a code address
\* below Reach (2 GB) would wrap.  Images of 64-bit programs are far above it.
ASSUME SitesAssumption ==
  /\ \A s \in Sites : /\ s.func \in Nat
                      /\ s.func < Granules * Gran
                      /\ s.func >= Reach
                      /\ s.disps \subseteq Displacements
                      /\ \A d \in s.disps : d.target < Granules * Gran

VARIABLES
  pages,      \* m_pages: base address of each page, null if VirtualAlloc failed
  freeLists,  \* m_freeLists: offsets of the free slots of each page
  records,    \* m_records: address of a registered trampoline -> page index
  code,       \* what each slot ever written holds: the site it was made for
  foreign,    \* granules in use by the rest of the process
  faulted     \* the process died writing through a null page

vars == <<pages, freeLists, records, code, foreign, faulted>>

Null == 0

-------------------------------------------------------------------------------
(* The virtual memory of the process. *)

Bases == {g * Gran : g \in 0 .. Granules - 1}

Owned == {pages[i] : i \in DOMAIN pages}

FreeBases ==
  {b \in Bases : /\ b \notin Owned
                 /\ b \notin {g * Gran : g \in Image \cup foreign}}

\* VirtualAlloc at a free address, anywhere if that is null, or not at all:
\* memory is short, or another thread took the address since it was queried.
VirtualAlloc(desired) ==
  {Null} \cup IF desired = Null THEN FreeBases ELSE {desired}

-------------------------------------------------------------------------------
(* Where a trampoline should be. *)

Addressed(s) == {s.func} \cup {d.target : d \in s.disps}

GetAddressableRange(s) ==
  [min |-> Max(Addressed(s)) - Reach, max |-> Min(Addressed(s)) + Reach]

InRange(range, addr) == range.min <= addr /\ addr < range.max

AlignDown(addr) == (addr \div Gran) * Gran
AlignUp(addr)   == AlignDown(addr + Gran - 1)

AlignMemRangeWithGranularity(range) ==
  [min |-> AlignUp(range.min), max |-> AlignDown(range.max)]

\* The loop stops one granule short of the last page that would fit.
FreeInRange(range) ==
  LET aligned == AlignMemRangeWithGranularity(range)
  IN  {b \in FreeBases : aligned.min <= b /\ b < aligned.max - Gran}

FindPageForAlloc(range) ==
  IF FreeInRange(range) = {} THEN Null ELSE Min(FreeInRange(range))

\* Mutant of FindRelevantPageInRange: any page with a free slot will do.
FindRelevantPageAnywhere(range) == {i \in DOMAIN pages : freeLists[i] # <<>>}

FindRelevantPageInRange(range) ==
  {i \in DOMAIN pages : freeLists[i] # <<>> /\ InRange(range, pages[i])}

-------------------------------------------------------------------------------
(* Slots. *)

\* Mutant of SlotsPerPage: rounded up, the last slot crosses the end of the page.
SlotsPerPageRoundedUp == (Gran + SlotSize - 1) \div SlotSize

SlotsPerPage == Gran \div SlotSize

Offsets == {k * SlotSize : k \in 0 .. SlotsPerPage - 1}

NewFreeList == [k \in 1 .. SlotsPerPage |-> (k - 1) * SlotSize]

Signed32(n) == ((n + DispLimit) % (2 * DispLimit)) - DispLimit

\* Mutant of FixedUpTarget: offsetBase is left out of the new displacement.
FixedUpFromStart(addr, d) == addr + d.base + Signed32(d.target - addr)

\* The address the copied instruction refers to once FixupDisplacements has
\* written the 32 low bits of its new displacement.
FixedUpTarget(addr, d) ==
  LET end == addr + d.base IN end + Signed32(d.target - end)

-------------------------------------------------------------------------------
(* The operations. *)

Init ==
  /\ pages = <<>>
  /\ freeLists = <<>>
  /\ records = <<>>
  /\ code = <<>>
  /\ foreign = {}
  /\ faulted = FALSE

\* Mutant of TakeSlot: back() without pop_back(), the slot stays on the list.
TakeSlotAndKeepIt(s, i, pgs, frees) ==
  LET addr == pgs[i] + frees[i][Len(frees[i])]
  IN  /\ pages' = pgs
      /\ freeLists' = frees
      /\ faulted' = (pgs[i] = Null)
      /\ IF pgs[i] = Null
           THEN UNCHANGED <<records, code>>
           ELSE /\ records' = [a \in DOMAIN records \cup {addr} |->
                                 IF a = addr THEN i ELSE records[a]]
                /\ code' = [a \in DOMAIN code \cup {addr} |->
                              IF a = addr THEN s ELSE code[a]]
      /\ UNCHANGED foreign

\* Takes the last free slot of page i and writes the trampoline of s there.
TakeSlot(s, i, pgs, frees) ==
  LET free == frees[i]
      addr == pgs[i] + free[Len(free)]
  IN  /\ pages' = pgs
      /\ freeLists' = [frees EXCEPT ![i] = SubSeq(free, 1, Len(free) - 1)]
      /\ faulted' = (pgs[i] = Null)
      /\ IF pgs[i] = Null
           THEN UNCHANGED <<records, code>>
           ELSE /\ records' = [a \in DOMAIN records \cup {addr} |->
                                 IF a = addr THEN i ELSE records[a]]
                /\ code' = [a \in DOMAIN code \cup {addr} |->
                              IF a = addr THEN s ELSE code[a]]
      /\ UNCHANGED foreign

\* A page within reach that has a free slot is used before a new one is made.
RegisterInPage(s) ==
  LET fitting == FindRelevantPageInRange(GetAddressableRange(s))
  IN  /\ fitting # {}
      /\ TakeSlot(s, Min(fitting), pages, freeLists)

AddNewPage(s) ==
  LET range == GetAddressableRange(s)
  IN  /\ FindRelevantPageInRange(range) = {}
      /\ \E base \in VirtualAlloc(FindPageForAlloc(range)) :
           TakeSlot(s, Len(pages) + 1, Append(pages, base),
                    Append(freeLists, NewFreeList))

Register(s) ==
  /\ ~faulted
  /\ RegisterInPage(s) \/ AddNewPage(s)

\* Mutant of Unregister: the record is not erased, and the slot freed all the same.
UnregisterAndKeepRecord(addr) ==
  /\ ~faulted
  /\ IF addr \in DOMAIN records
       THEN LET i == records[addr]
            IN  freeLists' = [freeLists EXCEPT ![i] = Append(@, addr - pages[i])]
       ELSE UNCHANGED freeLists
  /\ UNCHANGED <<pages, records, code, foreign, faulted>>

\* The caller may pass an address that is not registered: nothing happens.
Unregister(addr) ==
  /\ ~faulted
  /\ IF addr \in DOMAIN records
       THEN LET i == records[addr]
            IN  /\ freeLists' = [freeLists EXCEPT ![i] = Append(@, addr - pages[i])]
                /\ records' = [a \in DOMAIN records \ {addr} |-> records[a]]
       ELSE UNCHANGED <<freeLists, records>>
  /\ UNCHANGED <<pages, code, foreign, faulted>>

\* The rest of the process allocates and frees memory of its own.
ForeignAlloc(g) ==
  /\ ~faulted
  /\ g * Gran \in FreeBases
  /\ foreign' = foreign \cup {g}
  /\ UNCHANGED <<pages, freeLists, records, code, faulted>>

ForeignFree(g) ==
  /\ ~faulted
  /\ g \in foreign
  /\ foreign' = foreign \ {g}
  /\ UNCHANGED <<pages, freeLists, records, code, faulted>>

Next ==
  \/ \E s \in Sites : Register(s)
  \/ \E addr \in DOMAIN code \cup {Null} : Unregister(addr)
  \/ \E g \in 0 .. Granules - 1 : ForeignAlloc(g)
  \/ \E g \in 0 .. Granules - 1 : ForeignFree(g)

Spec == Init /\ [][Next]_vars

-------------------------------------------------------------------------------
(* The registry implements TrampolineStore: the slots in use are the records. *)

Store == INSTANCE TrampolineStore
           WITH Slots <- 0 .. Granules * Gran - 1,
                live  <- [a \in DOMAIN records |-> code[a]],
                dead  <- faulted

\* Register is the allocation of a slot nobody holds and Unregister its release:
\* every behaviour of the registry is one of the store (class TrampolineRegistry).
ImplementsStore == Store!Spec

-------------------------------------------------------------------------------
(* Properties. *)

FreeOffsets(free) == {free[k] : k \in DOMAIN free}

UsedOffsets(recs, i, base) == {a - base : a \in {b \in DOMAIN recs : recs[b] = i}}

\* Every slot of a page is either free or in use, and is listed once if it is free.
Partitioned(free, used) ==
  /\ FreeOffsets(free) \cup used = Offsets
  /\ FreeOffsets(free) \cap used = {}
  /\ \A k, l \in DOMAIN free : free[k] = free[l] => k = l

\* The shape of the registry's state: m_freeLists shares its index with m_pages,
\* and a record names a page that exists.
TypeOK ==
  /\ pages \in Seq(Bases)
  /\ freeLists \in Seq(Seq(Offsets))
  /\ Len(freeLists) = Len(pages)
  /\ DOMAIN records \subseteq Nat
  /\ records \in [DOMAIN records -> DOMAIN pages]
  /\ code \in [DOMAIN code -> Sites]
  /\ DOMAIN records \subseteq DOMAIN code
  /\ foreign \subseteq 0 .. Granules - 1
  /\ faulted \in BOOLEAN

\* VirtualAlloc never hands out memory twice, so neither does the registry: its
\* pages are distinct and none overlaps what the rest of the process uses.
PagesDisjoint ==
  ~faulted =>
    /\ \A i, j \in DOMAIN pages : pages[i] = pages[j] => i = j
    /\ \A i \in DOMAIN pages : /\ pages[i] # Null
                               /\ \A g \in Image \cup foreign : pages[i] # g * Gran

\* Every slot of a page is either free or in use, never both, and a free slot is
\* listed once: no slot leaks and none can be handed out while it is in use.
SlotsPartitioned ==
  ~faulted => \A i \in DOMAIN pages :
                Partitioned(freeLists[i], UsedOffsets(records, i, pages[i]))

\* Two trampolines in use never overlap, and each lies within its page.
TrampolinesDisjoint ==
  ~faulted =>
    /\ \A a, b \in DOMAIN records : a < b => a + SlotSize <= b
    /\ \A a \in DOMAIN records :
         /\ pages[records[a]] <= a
         /\ a + SlotSize <= pages[records[a]] + Gran

\* A trampoline in a page that is in the range computed for its site refers to the
\* same addresses as the prolog it was copied from: 0x7FFF0000 leaves room for the
\* 64 KB of slots behind the page's base (GetAddressableRange, FixupDisplacements).
InRangeTrampolinesResolve ==
  \A a \in DOMAIN records :
    InRange(GetAddressableRange(code[a]), pages[records[a]]) =>
      \A d \in code[a].disps : FixedUpTarget(a, d) = d.target

\* A new trampoline is out of its site's range only when the search for a free granule
\* came back empty; it looks at all granules in that range but the last (FindPageForAlloc).
OutOfRangeOnlyIfExhausted ==
  [][\A a \in DOMAIN records' \ DOMAIN records :
       LET range == GetAddressableRange(code'[a])
       IN  ~InRange(range, pages'[records'[a]]) => FreeInRange(range) = {}]_vars

===============================================================================
