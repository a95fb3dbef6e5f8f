--------------------------- MODULE UserProgProofs ---------------------------
(***************************************************************************)
(* Theorems about the loader of user programs, for every layout of the     *)
(* memory and all sizes of the image and of the stack: the stack that a    *)
(* program gets, and when loading it is safe.                              *)
(***************************************************************************)
EXTENDS UserProg, Basics

HP == INSTANCE HeapProofs
        WITH Sizes <- {}, CallocArgs <- {}, AlignedArgs <- {}

-----------------------------------------------------------------------------
(* The heap's theorems, for the heap of this module.                       *)

LEMMA HeapAssumed == HP!HeapAssumption
  BY UserProgAssumption DEF HP!HeapAssumption

LEMMA LayoutIs ==
  /\ W \in Nat /\ HeapLimit \in Nat /\ Align \in Nat \ {0}
  /\ HP!Address = 0 .. HeapLimit
<1>1. {W, HeapLimit, Align} \subseteq Nat /\ Align > 0
  <2>1. {W, Page, Align, HeapStart, MinStart, HeapLimit, MaxBlocks} \subseteq Nat
        /\ Align > 0
    BY UserProgAssumption, Zenon
  <2> QED BY <2>1
<1> QED BY <1>1 DEF HP!Address

LEMMA SameMalloc ==
  ASSUME NEW size
  PROVE  (H!malloc(size) <=> HP!malloc(size)) /\ (H!Bounded(size) <=> HP!Bounded(size))
  BY DEF H!malloc, HP!malloc, H!Room, HP!Room, H!Take, HP!Take, H!Grant,
         HP!Grant, H!Raised, HP!Raised, H!ALIGN_UP, HP!ALIGN_UP,
         H!ALIGN_DOWN, HP!ALIGN_DOWN, H!Bounded, HP!Bounded

LEMMA SameMemInit == (H!MemInit <=> HP!MemInit) /\ (H!Init <=> HP!Init)
  BY DEF H!MemInit, HP!MemInit, H!Init, HP!Init, H!Start, HP!Start, H!End,
         HP!End, H!ALIGN_UP, HP!ALIGN_UP, H!ALIGN_DOWN, HP!ALIGN_DOWN

LEMMA SameTypeOK == H!TypeOK <=> HP!TypeOK
  BY DEF H!TypeOK, HP!TypeOK, H!Address, HP!Address, H!Block, HP!Block

(* What the heap's invariant says of the pointer and of the blocks.        *)
LEMMA HeapFacts ==
  ASSUME HP!HeapInv
  PROVE  /\ heap.start \in Nat /\ heap.end \in Nat /\ heap.current \in Nat
         /\ heap.start <= heap.current /\ heap.current <= heap.end
         /\ blocks \in Seq(HP!Block) /\ Len(blocks) \in Nat
         /\ \A i \in DOMAIN blocks :
              /\ blocks[i].addr \in Nat /\ blocks[i].asked \in Nat
              /\ heap.start <= blocks[i].addr
              /\ blocks[i].addr + blocks[i].asked <= heap.current
         /\ \A i, j \in DOMAIN blocks :
              i # j => H!Disjoint(blocks[i], blocks[j])
<1>1. /\ heap.start \in HP!Address /\ heap.end \in HP!Address
      /\ heap.current \in HP!Address
      /\ blocks \in Seq(HP!Block)
  BY DEF HP!HeapInv, HP!TypeOK
<1>2. HP!Address \subseteq Nat /\ 0 \in HP!Address
  BY LayoutIs
<1>3. heap.start <= heap.current /\ heap.current <= heap.end
  <2>1. CASE heap.align = 0
    BY <2>1 DEF HP!HeapInv, HP!Off
  <2>2. CASE heap.align # 0
    BY <1>1, <1>2, <2>2 DEF HP!HeapInv
  <2> QED BY <2>1, <2>2
<1>4. \A i \in DOMAIN blocks : blocks[i].addr \in Nat /\ blocks[i].asked \in Nat
  <2>1. \A i \in DOMAIN blocks : blocks[i] \in HP!Block
    BY <1>1
  <2> QED BY <2>1 DEF HP!Block
<1>5. \A i, j \in DOMAIN blocks : i # j => H!Disjoint(blocks[i], blocks[j])
  BY DEF HP!HeapInv, HP!Stacked, HP!BlocksDisjoint, HP!Disjoint, H!Disjoint
<1>6. \A i \in DOMAIN blocks :
        /\ heap.start <= blocks[i].addr
        /\ blocks[i].addr + blocks[i].asked <= heap.current
  BY DEF HP!HeapInv, HP!Stacked
<1>7. /\ heap.start \in Nat /\ heap.end \in Nat /\ heap.current \in Nat
      /\ Len(blocks) \in Nat
  <2>1. Len(blocks) \in Nat
    BY <1>1
  <2>2. heap.start \in Nat /\ heap.end \in Nat /\ heap.current \in Nat
    BY <1>1, <1>2, Zenon
  <2> QED BY <2>1, <2>2
<1> QED BY <1>1, <1>3, <1>4, <1>5, <1>6, <1>7

(* A block granted is the last one, and only the pointer moves.            *)
LEMMA MallocFacts ==
  ASSUME HP!HeapInv, NEW size \in Nat, H!Bounded(size), H!malloc(size)
  PROVE  /\ HP!HeapInv'
         /\ blocks' = Append(blocks, [addr |-> heap.current, asked |-> size,
                                      align |-> heap.align])
         /\ heap'.start = heap.start /\ heap'.end = heap.end
         /\ heap.align # 0 /\ heap'.align = heap.align
         /\ heap.current <= heap'.current
<1>1. HP!malloc(size) /\ HP!Bounded(size)
  BY SameMalloc
<1>2. HP!HeapInv'
  BY <1>1, HP!mallocKeeps, HeapAssumed
<1>3. /\ blocks' = Append(blocks, [addr |-> heap.current, asked |-> size,
                                   align |-> heap.align])
      /\ heap.align # 0
  BY DEF H!malloc, H!Grant, H!Room
<1>4. heap'.start = heap.start /\ heap'.end = heap.end /\ heap'.align = heap.align
  BY DEF H!malloc, H!Take, HP!HeapInv, HP!TypeOK
<1>5. heap.current <= heap'.current
  <2>1. blocks \in Seq(HP!Block) /\ heap.current \in Nat /\ Len(blocks) \in Nat
    BY HeapFacts
  <2>2. [addr |-> heap.current, asked |-> size, align |-> heap.align] \in HP!Block
    <3>1. heap.align = Align /\ Align \in Nat \ {0}
      BY <1>3, LayoutIs DEF HP!HeapInv, HP!TypeOK
    <3> QED BY <2>1, <3>1 DEF HP!Block
  <2>3. /\ Len(blocks') = Len(blocks) + 1
        /\ blocks'[Len(blocks) + 1] =
             [addr |-> heap.current, asked |-> size, align |-> heap.align]
    BY <1>3, <2>1, <2>2
  <2>4. Len(blocks) + 1 \in DOMAIN blocks'
    BY <1>3, <2>1, <2>2, <2>3
  <2>5. /\ blocks'[Len(blocks) + 1].addr + blocks'[Len(blocks) + 1].asked
             <= heap'.current
        /\ heap'.current \in Nat
    <3>1. \A i \in DOMAIN blocks' :
            blocks'[i].addr + blocks'[i].asked <= heap'.current
      BY <1>2 DEF HP!HeapInv, HP!Stacked
    <3>2. heap'.current \in HP!Address
      BY <1>2 DEF HP!HeapInv, HP!TypeOK
    <3>3. heap'.current \in Nat
      BY <3>2, LayoutIs
    <3> QED BY <2>4, <3>1, <3>3
  <2> QED BY <2>1, <2>3, <2>5
<1> QED BY <1>2, <1>3, <1>4, <1>5

LEMMA MemInitFacts ==
  ASSUME H!MemInit
  PROVE  /\ HP!HeapInv' /\ blocks' = <<>> /\ heap'.align # 0
         /\ heap'.start = HP!Start /\ heap'.end = HP!End
<1>1. HP!MemInit
  BY SameMemInit
<1>2. HP!HeapInv'
  BY <1>1, HP!MemInitKeeps, HeapAssumed
<1> QED BY <1>1, <1>2, LayoutIs DEF HP!MemInit

-----------------------------------------------------------------------------
(* The stack that prepare_user_stack makes.                                *)

Words == [k \in 1 .. 16 |-> Pushed[17 - k]]

LEMMA ConstantsAre ==
  /\ ImageStart \in Nat /\ ImageArea \in Nat
  /\ StackSize \in Nat /\ StackSize > 17
  /\ ProgName \in Nat \ {0} /\ user_phdrs \in Nat \ {0}
  /\ random_bytes \in Nat \ {0}
<1>1. /\ {ImageStart, ImageArea, StackSize} \subseteq Nat
      /\ StackSize > 17
      /\ {ProgName, user_phdrs, random_bytes} \subseteq Nat \ {0}
  BY UserProgAssumption, Zenon
<1> QED BY <1>1

LEMMA PushedLen == Len(Pushed) = 16
  BY DEF Pushed

LEMMA WordsAre ==
  /\ Words[1] = 1 /\ Words[2] = ProgName /\ Words[3] = 0 /\ Words[4] = 0
  /\ Words[5] = AT_PHDR /\ Words[6] = user_phdrs
  /\ Words[7] = AT_PHENT /\ Words[8] = 56
  /\ Words[9] = AT_PHNUM /\ Words[10] = 2
  /\ Words[11] = AT_PAGESZ /\ Words[12] = 4096
  /\ Words[13] = AT_RANDOM /\ Words[14] = random_bytes
  /\ Words[15] = AT_NULL /\ Words[16] = 0
  BY DEF Words, Pushed

LEMMA WordsType == Words \in Seq(Nat) /\ Len(Words) = 16
<1>1. \A k \in 1 .. 16 : Words[k] \in Nat
  <2> SUFFICES ASSUME NEW k \in 1 .. 16 PROVE Words[k] \in Nat
    OBVIOUS
  <2>1. k \in {1, 2, 3, 4, 5, 6, 7, 8, 9, 10, 11, 12, 13, 14, 15, 16}
    OBVIOUS
  <2>2. \A n \in {0, 1, 2, 3, 4, 5, 6, 25, 56, 4096} : n \in Nat
    OBVIOUS
  <2> QED BY <2>1, <2>2, ConstantsAre, WordsAre
          DEF AT_NULL, AT_PHDR, AT_PHENT, AT_PHNUM, AT_PAGESZ, AT_RANDOM
<1>2. Words \in [1 .. 16 -> Nat]
  <2>1. Words = [k \in 1 .. 16 |-> Words[k]]
    BY DEF Words
  <2> QED BY <1>1, <2>1
<1>3. 16 \in Nat
  OBVIOUS
<1> QED BY <1>2, <1>3, FunctionIsSeq

LEMMA TopIs ==
  ASSUME NEW bottom \in Nat
  PROVE  /\ Top(bottom) - 16 \in Nat /\ bottom <= Top(bottom) - 16
         /\ Top(bottom) - 16 + 16 <= bottom + StackSize
         /\ (Top(bottom) - 16) % 2 = 0
<1> DEFINE a == bottom + StackSize
           r == a % 2
           q == a \div 2
<1>1. a \in Nat /\ StackSize \in Nat /\ StackSize > 17
  BY ConstantsAre
<1> HIDE DEF a
<1>2. r \in {0, 1} /\ q \in Nat /\ a = 2 * q + r
  BY <1>1, Z3
<1>3. Top(bottom) = a - r
  BY DEF Top, H!ALIGN_DOWN, a
<1> HIDE DEF r, q
<1>4. Top(bottom) - 16 = 2 * (q - 8) /\ q - 8 \in Nat
  BY <1>1, <1>2, <1>3 DEF a
<1>5. (2 * (q - 8)) % 2 = 0
  BY <1>4, Z3
<1> QED BY <1>1, <1>2, <1>3, <1>4, <1>5 DEF a

-----------------------------------------------------------------------------
(* The inductive invariant.                                                *)

StackBlock == [addr |-> user_stack, asked |-> StackSize, align |-> Align]

(* After _start there is a heap; a run holds the block granted last.       *)
RunHoldsStack ==
  /\ phase # "_start" => heap.align # 0
  /\ phase \in {"allocated", "ready"} =>
       blocks # <<>> /\ blocks[Len(blocks)] = StackBlock
  /\ phase = "ready" => stack = [sp |-> Top(user_stack) - 16, words |-> Words]

(* The image is the copied one until the program is called.                *)
ImageHolds ==
  /\ phase \in {"loaded", "allocated"} => image = "fresh"
  /\ phase = "ready" /\ ImageClear => image = "fresh"

LoaderInv ==
  /\ HP!HeapInv
  /\ TypeOK
  /\ RunHoldsStack
  /\ ImageHolds
  /\ ImageClear => damaged = {}

(* Where the words of the prepared stack lie.                              *)
LEMMA StackInBlock ==
  ASSUME HP!HeapInv, blocks # <<>>, blocks[Len(blocks)] = StackBlock
  PROVE  LET sp == Top(user_stack) - 16 IN
         /\ Len(blocks) \in DOMAIN blocks /\ user_stack \in Nat
         /\ sp \in Nat /\ sp % 2 = 0 /\ user_stack <= sp
         /\ sp + 16 <= user_stack + StackSize
         /\ heap.start <= user_stack
         /\ user_stack + StackSize <= heap.current
<1>1. /\ blocks \in Seq(HP!Block) /\ Len(blocks) \in Nat
      /\ \A i \in DOMAIN blocks :
           /\ blocks[i].addr \in Nat
           /\ heap.start <= blocks[i].addr
           /\ blocks[i].addr + blocks[i].asked <= heap.current
  BY HeapFacts
<1>2. Len(blocks) \in DOMAIN blocks
  BY <1>1
<1>3. /\ user_stack \in Nat /\ heap.start <= user_stack
      /\ user_stack + StackSize <= heap.current
  BY <1>1, <1>2 DEF StackBlock
<1>4. /\ Top(user_stack) - 16 \in Nat /\ user_stack <= Top(user_stack) - 16
      /\ Top(user_stack) - 16 + 16 <= user_stack + StackSize
      /\ (Top(user_stack) - 16) % 2 = 0
  BY <1>3, TopIs
<1> QED BY <1>2, <1>3, <1>4

LEMMA InitLoader == Init => LoaderInv
<1> SUFFICES ASSUME Init PROVE LoaderInv
  OBVIOUS
<1>1. HP!Init /\ H!Init
  BY SameMemInit DEF Init
<1>2. HP!HeapInv
  BY <1>1, HP!InitHeapInv, HeapAssumed
<1>3. H!TypeOK
  BY <1>2, SameTypeOK DEF HP!HeapInv
<1> QED BY <1>2, <1>3
        DEF Init, LoaderInv, TypeOK, Phase, RunHoldsStack, ImageHolds

(* Owners are blocks; the image's have none while it is clear of the heap. *)
LEMMA OwnersIs ==
  ASSUME NEW a, NEW n
  PROVE  Owners(a, n) \subseteq DOMAIN blocks
  BY DEF Owners

LEMMA NoOwner ==
  ASSUME HP!HeapInv, ImageClear
  PROVE  Owners(ImageStart, ImageArea) = {}
<1>1. ASSUME NEW i \in DOMAIN blocks
      PROVE  H!Disjoint(blocks[i], [addr |-> ImageStart, asked |-> ImageArea])
  <2>1. /\ blocks[i].addr \in Nat /\ blocks[i].asked \in Nat
        /\ heap.start <= blocks[i].addr
        /\ blocks[i].addr + blocks[i].asked <= heap.current
        /\ heap.start \in Nat /\ heap.current \in Nat
    BY HeapFacts
  <2>2. \/ blocks[i].addr + blocks[i].asked <= ImageStart
        \/ ImageStart + ImageArea <= blocks[i].addr
    BY <2>1, ConstantsAre DEF ImageClear
  <2> QED BY <2>2 DEF H!Disjoint
<1> QED BY <1>1 DEF Owners

LEMMA BootKeeps == LoaderInv /\ Boot => LoaderInv'
<1> SUFFICES ASSUME LoaderInv, Boot PROVE LoaderInv'
  OBVIOUS
<1>1. /\ HP!HeapInv' /\ blocks' = <<>> /\ heap'.align # 0
      /\ heap'.start = HP!Start /\ heap'.end = HP!End
  BY MemInitFacts DEF Boot
<1>2. /\ phase' = "mem_test" /\ damaged' = {}
      /\ UNCHANGED <<image, user_stack, stack, served>>
  BY DEF Boot, GoTo
<1>3. (H!TypeOK)'
  <2>1. (HP!TypeOK)'
    BY <1>1 DEF HP!HeapInv
  <2>2. (H!TypeOK <=> HP!TypeOK)'
    BY SameTypeOK, PTL
  <2> QED BY <2>1, <2>2
<1>4. user_stack' \in {0} \cup heap'.start .. heap'.end
  <2>1. user_stack \in {0} \cup heap.start .. heap.end
    BY DEF LoaderInv, TypeOK
  <2>2. CASE heap.align = 0
    <3>1. heap.start = 0 /\ heap.end = 0
      BY <2>2 DEF LoaderInv, HP!HeapInv, HP!Off
    <3> QED BY <1>2, <2>1, <3>1
  <2>3. CASE heap.align # 0
    <3>1. heap.start = HP!Start /\ heap.end = HP!End
      BY <2>3 DEF LoaderInv, HP!HeapInv
    <3> QED BY <1>1, <1>2, <2>1, <3>1
  <2> QED BY <2>2, <2>3
<1> QED BY <1>1, <1>2, <1>3, <1>4
        DEF LoaderInv, TypeOK, Phase, RunHoldsStack, ImageHolds

(* What a step that grants a block leaves true.                            *)
LEMMA GrantKeeps ==
  ASSUME LoaderInv, NEW size \in Nat, H!Bounded(size), H!malloc(size)
  PROVE  /\ HP!HeapInv' /\ (H!TypeOK)'
         /\ DOMAIN blocks \subseteq DOMAIN blocks' /\ blocks' # <<>>
         /\ blocks'[Len(blocks')] =
              [addr |-> heap.current, asked |-> size, align |-> Align]
         /\ heap'.start = heap.start /\ heap'.end = heap.end
         /\ heap'.align # 0
         /\ ImageClear' => ImageClear
<1>1. HP!HeapInv /\ heap.start \in Nat /\ heap.current \in Nat
      /\ blocks \in Seq(HP!Block) /\ Len(blocks) \in Nat
  BY HeapFacts DEF LoaderInv
<1>2. /\ HP!HeapInv'
      /\ blocks' = Append(blocks, [addr |-> heap.current, asked |-> size,
                                   align |-> heap.align])
      /\ heap'.start = heap.start /\ heap'.end = heap.end
      /\ heap.align # 0 /\ heap'.align = heap.align
      /\ heap.current <= heap'.current
  BY <1>1, MallocFacts
<1>3. heap.align = Align /\ Align \in Nat \ {0}
  BY <1>1, <1>2, LayoutIs DEF HP!HeapInv, HP!TypeOK
<1>4. (H!TypeOK)'
  <2>1. (HP!TypeOK)'
    BY <1>2 DEF HP!HeapInv
  <2>2. (H!TypeOK <=> HP!TypeOK)'
    BY SameTypeOK, PTL
  <2> QED BY <2>1, <2>2
<1>5. heap'.current \in Nat
  <2>1. heap'.current \in HP!Address
    BY <1>2 DEF HP!HeapInv, HP!TypeOK
  <2> QED BY <2>1, LayoutIs
<1>6. ImageClear' => ImageClear
  BY <1>1, <1>2, <1>5, ConstantsAre DEF ImageClear
<1> DEFINE b == [addr |-> heap.current, asked |-> size, align |-> Align]
<1>7. b \in HP!Block
  BY <1>1, <1>3 DEF HP!Block
<1> HIDE DEF b
<1>8. blocks' = Append(blocks, b)
  BY <1>2, <1>3 DEF b
<1>9. /\ blocks' \in Seq(HP!Block) /\ Len(blocks') = Len(blocks) + 1
      /\ blocks'[Len(blocks) + 1] = b
  BY <1>1, <1>7, <1>8
<1>10. DOMAIN blocks \subseteq DOMAIN blocks' /\ blocks' # <<>>
       /\ blocks'[Len(blocks')] = b
  BY <1>1, <1>9
<1> QED BY <1>2, <1>4, <1>6, <1>10 DEF b

(* What the heap's state alone decides stays so while the heap does.        *)
LEMMA SameState ==
  ASSUME LoaderInv, UNCHANGED <<heap, blocks>>
  PROVE  HP!HeapInv' /\ (H!TypeOK)' /\ (ImageClear' <=> ImageClear)
<1>1. UNCHANGED HP!vars
  BY DEF HP!vars
<1>2. HP!HeapInv'
  BY <1>1 DEF LoaderInv, HP!HeapInv, HP!TypeOK, HP!Stacked,
              HP!BlocksDisjoint
<1>3. (H!TypeOK)'
  BY DEF LoaderInv, TypeOK, H!TypeOK
<1> QED BY <1>2, <1>3 DEF ImageClear

LEMMA MemTestKeeps == LoaderInv /\ MemTest => LoaderInv'
<1> SUFFICES ASSUME LoaderInv, MemTest PROVE LoaderInv'
  OBVIOUS
<1>1. CASE Len(blocks) < Len(TestSizes)
  <2> DEFINE size == TestSizes[Len(blocks) + 1]
  <2>1. H!malloc(size) /\ phase' = phase /\ phase = "mem_test"
        /\ UNCHANGED <<image, user_stack, stack, damaged>>
    BY <1>1 DEF MemTest
  <2>2. size \in Nat /\ H!Bounded(size)
    <3>1. blocks \in Seq(HP!Block) /\ Len(blocks) \in Nat
      BY HeapFacts DEF LoaderInv
    <3>2. /\ TestSizes \in Seq(Nat)
          /\ \A k \in 1 .. Len(TestSizes) : H!Bounded(TestSizes[k])
      BY UserProgAssumption, Zenon
    <3>3. Len(blocks) + 1 \in 1 .. Len(TestSizes)
      BY <1>1, <3>1, <3>2
    <3> QED BY <3>2, <3>3
  <2> HIDE DEF size
  <2>3. /\ HP!HeapInv' /\ (H!TypeOK)'
        /\ DOMAIN blocks \subseteq DOMAIN blocks'
        /\ heap'.start = heap.start /\ heap'.end = heap.end
        /\ heap'.align # 0
        /\ ImageClear' => ImageClear
    BY <2>1, <2>2, GrantKeeps
  <2> QED BY <2>1, <2>3
          DEF LoaderInv, TypeOK, Phase, RunHoldsStack, ImageHolds
<1>2. CASE ~(Len(blocks) < Len(TestSizes))
  <2>1. /\ phase = "mem_test" /\ phase' = "shell"
        /\ UNCHANGED <<heap, blocks, image, user_stack, stack, damaged>>
    BY <1>2 DEF MemTest
  <2>2. HP!HeapInv' /\ (H!TypeOK)' /\ (ImageClear' <=> ImageClear)
    BY <2>1, SameState
  <2> QED BY <2>1, <2>2
          DEF LoaderInv, TypeOK, Phase, RunHoldsStack, ImageHolds
<1> QED BY <1>1, <1>2

(* Steps that neither grant a block nor write into memory.                 *)
LEMMA RebootKeeps == LoaderInv /\ Reboot => LoaderInv'
<1> SUFFICES ASSUME LoaderInv, Reboot PROVE LoaderInv'
  OBVIOUS
<1>1. /\ phase' = "_start"
      /\ UNCHANGED <<heap, blocks, image, user_stack, stack, damaged>>
  BY DEF Reboot, GoTo
<1>2. HP!HeapInv' /\ (H!TypeOK)' /\ (ImageClear' <=> ImageClear)
  BY <1>1, SameState
<1> QED BY <1>1, <1>2
        DEF LoaderInv, TypeOK, Phase, RunHoldsStack, ImageHolds

LEMMA LoadImageKeeps == LoaderInv /\ LoadImage => LoaderInv'
<1> SUFFICES ASSUME LoaderInv, LoadImage PROVE LoaderInv'
  OBVIOUS
<1>1. /\ phase = "shell" /\ phase' = "loaded" /\ image' = "fresh"
      /\ damaged' = damaged \cup Owners(ImageStart, ImageArea)
      /\ UNCHANGED <<heap, blocks, user_stack, stack>>
  BY DEF LoadImage, GoTo
<1>2. HP!HeapInv' /\ (H!TypeOK)' /\ (ImageClear' <=> ImageClear)
  BY <1>1, SameState
<1>3. damaged' \subseteq DOMAIN blocks'
  BY <1>1, OwnersIs DEF LoaderInv, TypeOK
<1>4. ImageClear => damaged' = {}
  BY <1>1, NoOwner DEF LoaderInv
<1> QED BY <1>1, <1>2, <1>3, <1>4
        DEF LoaderInv, TypeOK, Phase, RunHoldsStack, ImageHolds

LEMMA AllocStackKeeps == LoaderInv /\ AllocStack => LoaderInv'
<1> SUFFICES ASSUME LoaderInv, AllocStack PROVE LoaderInv'
  OBVIOUS
<1>1. /\ phase = "loaded" /\ phase' = "allocated"
      /\ H!malloc(StackSize) /\ user_stack' = heap.current
      /\ UNCHANGED <<image, stack, damaged>>
  BY DEF AllocStack, GoTo
<1>2. StackSize \in Nat /\ H!Bounded(StackSize)
  BY ConstantsAre, UserProgAssumption, Zenon
<1>3. /\ HP!HeapInv' /\ (H!TypeOK)'
      /\ DOMAIN blocks \subseteq DOMAIN blocks' /\ blocks' # <<>>
      /\ blocks'[Len(blocks')] =
           [addr |-> heap.current, asked |-> StackSize, align |-> Align]
      /\ heap'.start = heap.start /\ heap'.end = heap.end
      /\ heap'.align # 0
      /\ ImageClear' => ImageClear
  BY <1>1, <1>2, GrantKeeps
<1>4. user_stack' \in heap'.start .. heap'.end
  <2>1. /\ heap.start \in Nat /\ heap.end \in Nat /\ heap.current \in Nat
        /\ heap.start <= heap.current /\ heap.current <= heap.end
    BY HeapFacts DEF LoaderInv
  <2> QED BY <1>1, <1>3, <2>1
<1>5. blocks'[Len(blocks')] = StackBlock'
  BY <1>1, <1>3 DEF StackBlock
<1>6. image' = "fresh"
  BY <1>1 DEF LoaderInv, ImageHolds
<1>7. ImageClear' => damaged' = {}
  BY <1>1, <1>3 DEF LoaderInv
<1> QED BY <1>1, <1>3, <1>4, <1>5, <1>6, <1>7
        DEF LoaderInv, TypeOK, Phase, RunHoldsStack, ImageHolds

LEMMA OutOfMemoryKeeps == LoaderInv /\ OutOfMemory => LoaderInv'
<1> SUFFICES ASSUME LoaderInv, OutOfMemory PROVE LoaderInv'
  OBVIOUS
<1>1. /\ phase = "loaded" /\ phase' = "shell" /\ user_stack' = 0
      /\ UNCHANGED <<heap, blocks, image, stack, damaged>>
  BY DEF OutOfMemory, GoTo
<1>2. HP!HeapInv' /\ (H!TypeOK)' /\ (ImageClear' <=> ImageClear)
  BY <1>1, SameState
<1> QED BY <1>1, <1>2
        DEF LoaderInv, TypeOK, Phase, RunHoldsStack, ImageHolds

(* The words go into the run's own block, and into no other.               *)
LEMMA PrepareStackKeeps == LoaderInv /\ PrepareStack => LoaderInv'
<1> SUFFICES ASSUME LoaderInv, PrepareStack PROVE LoaderInv'
  OBVIOUS
<1> DEFINE sp == Top(user_stack) - 16
           written == [addr |-> sp, asked |-> 16]
           area == [addr |-> ImageStart, asked |-> ImageArea]
<1>1. /\ phase = "allocated" /\ phase' = "ready"
      /\ stack' = [sp |-> sp, words |-> Words]
      /\ image' = IF H!Disjoint(written, area) THEN image ELSE "damaged"
      /\ damaged' = damaged \cup (Owners(sp, 16) \ {Len(blocks)})
      /\ UNCHANGED <<heap, blocks, user_stack>>
  BY PushedLen DEF PrepareStack, GoTo, Words
<1>2. HP!HeapInv' /\ (H!TypeOK)' /\ (ImageClear' <=> ImageClear)
  BY <1>1, SameState
<1>3. /\ HP!HeapInv /\ blocks # <<>> /\ blocks[Len(blocks)] = StackBlock
      /\ image = "fresh"
  BY <1>1 DEF LoaderInv, RunHoldsStack, ImageHolds
<1>4. /\ Len(blocks) \in DOMAIN blocks /\ user_stack \in Nat
      /\ sp \in Nat /\ user_stack <= sp
      /\ sp + 16 <= user_stack + StackSize
      /\ heap.start <= user_stack
      /\ user_stack + StackSize <= heap.current
  BY <1>3, StackInBlock
<1>5. /\ heap.start \in Nat /\ heap.end \in Nat /\ heap.current \in Nat
      /\ heap.current <= heap.end
      /\ \A k \in DOMAIN blocks :
           blocks[k].addr \in Nat /\ blocks[k].asked \in Nat
      /\ \A k, l \in DOMAIN blocks :
           k # l => H!Disjoint(blocks[k], blocks[l])
  BY <1>3, HeapFacts
<1>6. /\ ImageStart \in Nat /\ ImageArea \in Nat
      /\ StackSize \in Nat /\ StackSize > 17
  BY ConstantsAre
<1> HIDE DEF sp
<1>7. sp \in heap'.start .. heap'.end
  BY <1>1, <1>4, <1>5, <1>6
<1>8. stack'.words \in Seq(Nat) /\ stack'.sp = sp
  BY <1>1, WordsType
<1>9. ASSUME NEW k \in DOMAIN blocks, k # Len(blocks)
      PROVE  H!Disjoint(blocks[k], written)
  <2>1. H!Disjoint(blocks[k], StackBlock)
    BY <1>3, <1>4, <1>5, <1>9
  <2>2. \/ blocks[k].addr + blocks[k].asked <= user_stack
        \/ user_stack + StackSize <= blocks[k].addr
    BY <2>1 DEF H!Disjoint, StackBlock
  <2>3. \/ blocks[k].addr + blocks[k].asked <= sp
        \/ sp + 16 <= blocks[k].addr
    BY <1>4, <1>5, <1>6, <2>2
  <2> QED BY <2>3 DEF H!Disjoint
<1>10. Owners(sp, 16) \ {Len(blocks)} = {}
  BY <1>9 DEF Owners
<1>11. ImageClear => H!Disjoint(written, area)
  <2>1. ImageClear => sp + 16 <= ImageStart \/ ImageStart + ImageArea <= sp
    BY <1>4, <1>5, <1>6 DEF ImageClear
  <2> QED BY <2>1 DEF H!Disjoint
<1>12. image' \in {"fresh", "damaged"} /\ (ImageClear => image' = "fresh")
  BY <1>1, <1>3, <1>11
<1>13. damaged' = damaged
  BY <1>1, <1>10
<1> QED BY <1>1, <1>2, <1>3, <1>7, <1>8, <1>12, <1>13
        DEF LoaderInv, TypeOK, Phase, RunHoldsStack, ImageHolds, sp, StackBlock

LEMMA JumpKeeps == LoaderInv /\ Jump => LoaderInv'
<1> SUFFICES ASSUME LoaderInv, Jump PROVE LoaderInv'
  OBVIOUS
<1>1. /\ phase = "ready" /\ phase' = "user" /\ image' = "used"
      /\ UNCHANGED <<heap, blocks, user_stack, stack, damaged>>
  BY DEF Jump, GoTo
<1>2. HP!HeapInv' /\ (H!TypeOK)' /\ (ImageClear' <=> ImageClear)
  BY <1>1, SameState
<1> QED BY <1>1, <1>2
        DEF LoaderInv, TypeOK, Phase, RunHoldsStack, ImageHolds

LEMMA GatewayCallKeeps == LoaderInv /\ GatewayCall => LoaderInv'
<1> SUFFICES ASSUME LoaderInv, GatewayCall PROVE LoaderInv'
  OBVIOUS
<1>1. /\ phase = "user" /\ phase' \in {"user", "exit"}
      /\ UNCHANGED <<heap, blocks, image, user_stack, stack, damaged>>
  BY DEF GatewayCall
<1>2. HP!HeapInv' /\ (H!TypeOK)' /\ (ImageClear' <=> ImageClear)
  BY <1>1, SameState
<1> QED BY <1>1, <1>2
        DEF LoaderInv, TypeOK, Phase, RunHoldsStack, ImageHolds

LEMMA UserProgEndsKeeps == LoaderInv /\ UserProgEnds => LoaderInv'
<1> SUFFICES ASSUME LoaderInv, UserProgEnds PROVE LoaderInv'
  OBVIOUS
<1>1. /\ phase = "user" /\ phase' \in {"shell", "halted"}
      /\ UNCHANGED <<heap, blocks, image, user_stack, stack, damaged>>
  BY DEF UserProgEnds, GoTo
<1>2. HP!HeapInv' /\ (H!TypeOK)' /\ (ImageClear' <=> ImageClear)
  BY <1>1, SameState
<1> QED BY <1>1, <1>2
        DEF LoaderInv, TypeOK, Phase, RunHoldsStack, ImageHolds

LEMMA LoaderStutters == LoaderInv /\ UNCHANGED vars => LoaderInv'
<1> SUFFICES ASSUME LoaderInv, UNCHANGED vars PROVE LoaderInv'
  OBVIOUS
<1>1. UNCHANGED <<heap, blocks, phase, image, user_stack, stack, damaged>>
  BY DEF vars
<1>2. HP!HeapInv' /\ (H!TypeOK)' /\ (ImageClear' <=> ImageClear)
  BY <1>1, SameState
<1> QED BY <1>1, <1>2
        DEF LoaderInv, TypeOK, Phase, RunHoldsStack, ImageHolds, StackBlock

LEMMA LoaderStep == LoaderInv /\ [Next]_vars => LoaderInv'
  BY BootKeeps, MemTestKeeps, RebootKeeps, LoadImageKeeps, AllocStackKeeps,
     OutOfMemoryKeeps, PrepareStackKeeps, JumpKeeps, GatewayCallKeeps,
     UserProgEndsKeeps, LoaderStutters DEF Next

LEMMA LoaderInvariant == Spec => []LoaderInv
  BY InitLoader, LoaderStep, PTL DEF Spec

-----------------------------------------------------------------------------
(* The theorems.                                                           *)

(***************************************************************************)
(* The heap's state, where the hart is in run_user_prog, and a prepared    *)
(* stack pointer, which lies in the heap.                                  *)
(***************************************************************************)
THEOREM TypeCorrect == Spec => []TypeOK
<1>1. LoaderInv => TypeOK
  BY DEF LoaderInv
<1> QED BY <1>1, LoaderInvariant, PTL

(* Reading the words that prepare_user_stack wrote as a C library does.    *)
LEMMA FirstNullIs ==
  ASSUME stack.words = Words
  PROVE  FirstNull(4) = 4
<1>1. /\ stack.words[4] = 0 /\ Len(stack.words) = 16
  BY WordsAre, WordsType
<1>2. ASSUME NEW i \in 4 .. 16, i # 4, \A j \in 4 .. i-1 : stack.words[j] # 0
      PROVE  FALSE
  <2>1. 4 \in 4 .. i-1
    BY <1>2
  <2> QED BY <1>1, <1>2, <2>1
<1>3. 4 \in 4 .. Len(stack.words) /\ \A j \in 4 .. 4-1 : stack.words[j] # 0
  BY <1>1
<1> DEFINE P(i) == stack.words[i] = 0 /\ \A j \in 4 .. i-1 : stack.words[j] # 0
<1>4. P(4)
  BY <1>1
<1>5. \A i \in 4 .. Len(stack.words) : P(i) => i = 4
  BY <1>1, <1>2
<1>6. FirstNull(4) = CHOOSE i \in 4 .. Len(stack.words) : P(i)
  BY DEF FirstNull
<1> HIDE DEF P
<1> QED BY <1>3, <1>4, <1>5, <1>6

LEMMA ReadBack ==
  ASSUME stack.words = Words
  PROVE  /\ Argc = 1 /\ Argv = <<ProgName>> /\ stack.words[Argc + 2] = 0
         /\ Env = <<>>
         /\ \E k \in Pairs : Pair(k)[1] = AT_NULL
         /\ {Pair(k) : k \in 1 .. AuxEnd - 1} =
              {<<AT_PHDR, user_phdrs>>, <<AT_PHENT, 56>>, <<AT_PHNUM, 2>>,
               <<AT_PAGESZ, 4096>>, <<AT_RANDOM, random_bytes>>}
<1>1. /\ Words \in Seq(Nat) /\ Len(Words) = 16
  BY WordsType
<1>2. Argc = 1
  BY WordsAre DEF Argc
<1>3. Argv = <<ProgName>>
  <2>1. SubSeq(Words, 2, 2) \in Seq(Nat) /\ Len(SubSeq(Words, 2, 2)) = 1
        /\ SubSeq(Words, 2, 2)[1] = Words[2]
    <3>1. 2 \in Nat \ {0} /\ 2 \in 0 .. Len(Words)
      BY <1>1
    <3>2. /\ SubSeq(Words, 2, 2) \in Seq(Nat)
          /\ Len(SubSeq(Words, 2, 2)) = IF 2 <= 2 THEN 2 - 2 + 1 ELSE 0
          /\ \A k \in 1 .. 2 - 2 + 1 : SubSeq(Words, 2, 2)[k] = Words[2 + k - 1]
      BY <1>1, <3>1, SubSeqIs
    <3> QED BY <3>2
  <2>2. Argv = SubSeq(Words, 2, 2)
    BY <1>2 DEF Argv
  <2>3. /\ <<ProgName>> \in Seq(Nat) /\ Len(<<ProgName>>) = 1
        /\ <<ProgName>>[1] = ProgName
    BY ConstantsAre
  <2>4. \A k \in 1 .. 1 : SubSeq(Words, 2, 2)[k] = <<ProgName>>[k]
    BY <2>1, <2>3, WordsAre
  <2> QED BY <2>1, <2>2, <2>3, <2>4, SameSeq
<1>4. stack.words[Argc + 2] = 0
  BY <1>2, WordsAre
<1>5. EnvEnd = 4
  BY <1>2, FirstNullIs DEF EnvEnd
<1>6. Env = <<>>
  <2>1. Env = SubSeq(Words, 4, 3)
    BY <1>2, <1>5 DEF Env
  <2>2. 4 \in Nat \ {0} /\ 3 \in 0 .. Len(Words)
    BY <1>1
  <2>3. /\ SubSeq(Words, 4, 3) \in Seq(Nat)
        /\ Len(SubSeq(Words, 4, 3)) = IF 4 <= 3 THEN 3 - 4 + 1 ELSE 0
    BY <1>1, <2>2, SubSeqIs
  <2> QED BY <2>1, <2>3
<1>7. Pairs = {1, 2, 3, 4, 5, 6}
  <2>1. Len(stack.words) - EnvEnd = 12 /\ 12 \div 2 = 6
    BY <1>1, <1>5
  <2>2. Pairs = 1 .. 6
    BY <2>1 DEF Pairs
  <2> QED BY <2>2
<1>8. /\ Pair(1) = <<AT_PHDR, user_phdrs>> /\ Pair(2) = <<AT_PHENT, 56>>
      /\ Pair(3) = <<AT_PHNUM, 2>> /\ Pair(4) = <<AT_PAGESZ, 4096>>
      /\ Pair(5) = <<AT_RANDOM, random_bytes>> /\ Pair(6) = <<AT_NULL, 0>>
  BY <1>5, WordsAre DEF Pair
<1>9. AuxEnd = 6
  <2> DEFINE P(k) == Pair(k)[1] = AT_NULL
                     /\ \A l \in 1 .. k-1 : Pair(l)[1] # AT_NULL
  <2>1. /\ \A k \in {1, 2, 3, 4, 5} : Pair(k)[1] # AT_NULL
        /\ Pair(6)[1] = AT_NULL
    BY <1>8 DEF AT_NULL, AT_PHDR, AT_PHENT, AT_PHNUM, AT_PAGESZ, AT_RANDOM
  <2>2. 1 .. 6-1 = {1, 2, 3, 4, 5}
    OBVIOUS
  <2>3. P(6) /\ 6 \in Pairs /\ \A k \in Pairs : P(k) => k = 6
    BY <1>7, <2>1, <2>2
  <2>4. AuxEnd = CHOOSE k \in Pairs : P(k)
    BY DEF AuxEnd
  <2> HIDE DEF P
  <2> QED BY <2>3, <2>4
<1>10. {Pair(k) : k \in 1 .. AuxEnd - 1} =
         {<<AT_PHDR, user_phdrs>>, <<AT_PHENT, 56>>, <<AT_PHNUM, 2>>,
          <<AT_PAGESZ, 4096>>, <<AT_RANDOM, random_bytes>>}
  <2>1. 1 .. AuxEnd - 1 = {1, 2, 3, 4, 5}
    BY <1>9
  <2>2. {Pair(k) : k \in {1, 2, 3, 4, 5}} =
          {Pair(1), Pair(2), Pair(3), Pair(4), Pair(5)}
    OBVIOUS
  <2>3. {Pair(k) : k \in 1 .. AuxEnd - 1} =
          {Pair(k) : k \in {1, 2, 3, 4, 5}}
    BY <2>1, Zenon
  <2> QED BY <1>8, <2>2, <2>3
<1>11. \E k \in Pairs : Pair(k)[1] = AT_NULL
  BY <1>7, <1>8
<1> QED BY <1>2, <1>3, <1>4, <1>6, <1>10, <1>11

(***************************************************************************)
(* Whatever the sizes and addresses, prepare_user_stack leaves a stack     *)
(* that a C library reads as argc, argv, envp and auxiliary vector, aligned*)
(* and inside the block that malloc granted to this run.                   *)
(***************************************************************************)
THEOREM StackIsUsable == Spec => []StackUsable
<1>1. LoaderInv => StackUsable
  <2> SUFFICES ASSUME LoaderInv, phase = "ready" PROVE StackUsable
    BY DEF StackUsable
  <2>1. /\ HP!HeapInv /\ blocks # <<>> /\ blocks[Len(blocks)] = StackBlock
        /\ stack = [sp |-> Top(user_stack) - 16, words |-> Words]
    BY DEF LoaderInv, RunHoldsStack
  <2>2. /\ stack.words = Words /\ stack.sp = Top(user_stack) - 16
        /\ Len(stack.words) = 16
    BY <2>1, WordsType
  <2>3. /\ Argc = 1 /\ Argv = <<ProgName>> /\ stack.words[Argc + 2] = 0
        /\ Env = <<>>
        /\ \E k \in Pairs : Pair(k)[1] = AT_NULL
        /\ {Pair(k) : k \in 1 .. AuxEnd - 1} =
             {<<AT_PHDR, user_phdrs>>, <<AT_PHENT, 56>>, <<AT_PHNUM, 2>>,
              <<AT_PAGESZ, 4096>>, <<AT_RANDOM, random_bytes>>}
    BY <2>2, ReadBack
  <2>4. /\ stack.sp % 2 = 0 /\ user_stack <= stack.sp
        /\ stack.sp + 16 <= user_stack + StackSize
    BY <2>1, <2>2, StackInBlock
  <2>5. LET block == blocks[Len(blocks)] IN
        /\ block.addr = user_stack
        /\ block.addr <= stack.sp
        /\ stack.sp + Len(stack.words) <= block.addr + block.asked
    <3>1. /\ blocks[Len(blocks)].addr = user_stack
          /\ blocks[Len(blocks)].asked = StackSize
      BY <2>1 DEF StackBlock
    <3> QED BY <2>2, <2>4, <3>1
  <2> QED BY <2>3, <2>4, <2>5 DEF StackUsable
<1> QED BY <1>1, LoaderInvariant, PTL

(***************************************************************************)
(* For every place and size of the image, also inside the heap: as long as *)
(* the heap's pointer has not passed the image's start, run calls the      *)
(* program it copied and has written into nobody's block.                  *)
(***************************************************************************)
THEOREM RunIsSafe == Spec => []SafeWhileClear
<1>1. LoaderInv => SafeWhileClear
  BY DEF LoaderInv, ImageHolds, SafeWhileClear, FreshImage, OthersUntouched
<1> QED BY <1>1, LoaderInvariant, PTL

(***************************************************************************)
(* A layout in which the heap's range and the image do not meet.           *)
(***************************************************************************)
ImageOutsideHeap == ImageStart + ImageArea <= HP!Start \/ HP!End <= ImageStart

LEMMA AlwaysClear ==
  ASSUME ImageOutsideHeap PROVE LoaderInv => ImageClear
<1> SUFFICES ASSUME LoaderInv PROVE ImageClear
  OBVIOUS
<1>1. /\ heap.start \in Nat /\ heap.end \in Nat /\ heap.current \in Nat
      /\ heap.current <= heap.end
  BY HeapFacts DEF LoaderInv
<1>2. CASE heap.align = 0
  <2>1. heap.current = 0
    BY <1>2 DEF LoaderInv, HP!HeapInv, HP!Off
  <2> QED BY <2>1, ConstantsAre DEF ImageClear
<1>3. CASE heap.align # 0
  <2>1. heap.start = HP!Start /\ heap.end = HP!End
    BY <1>3 DEF LoaderInv, HP!HeapInv
  <2> QED BY <1>1, <2>1, ConstantsAre DEF ImageClear, ImageOutsideHeap
<1> QED BY <1>2, <1>3

(***************************************************************************)
(* In such a layout the program that run calls is always the one it has    *)
(* copied, however often the command was given before, and neither         *)
(* mem_test's blocks nor the stacks of earlier runs change.                *)
(***************************************************************************)
THEOREM SafeOutsideHeap ==
  ASSUME ImageOutsideHeap PROVE Spec => [](FreshImage /\ OthersUntouched)
<1>1. LoaderInv => FreshImage /\ OthersUntouched
  BY AlwaysClear DEF LoaderInv, ImageHolds, FreshImage, OthersUntouched
<1> QED BY <1>1, LoaderInvariant, PTL

=============================================================================
