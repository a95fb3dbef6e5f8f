----------------------------- MODULE HeapProofs -----------------------------
(***************************************************************************)
(* Theorems about the allocator, for every layout of the memory, alignment *)
(* and width of an address: as long as its callers' requests do not wrap   *)
(* around (BoundedRequests), mem.c is the arena of module Arena.           *)
(***************************************************************************)
EXTENDS Heap, TLAPS

-----------------------------------------------------------------------------
(* Division with remainder.                                                *)

LEMMA Divided ==
  ASSUME NEW a \in Nat, NEW n \in Nat, n > 0
  PROVE  /\ a \div n \in Nat /\ a % n \in Nat /\ a % n < n
         /\ a = n * (a \div n) + (a % n)
         /\ a % n <= a
<1>1. /\ a \div n \in Nat /\ a % n \in Nat /\ a % n < n
      /\ a = n * (a \div n) + (a % n)
  BY Z3
<1>2. n * (a \div n) \in Nat
  BY <1>1, Z3
<1> QED BY <1>1, <1>2

LEMMA SmallRemainder ==
  ASSUME NEW a \in Nat, NEW n \in Nat, a < n PROVE a % n = a
  BY Z3

(* A multiple of n leaves nothing.                                         *)
LEMMA MultipleOf ==
  ASSUME NEW q \in Nat, NEW n \in Nat, n > 0 PROVE (n * q) % n = 0
<1> DEFINE a == n * q
           p == a \div n
           r == a % n
<1>1. a \in Nat
  BY Z3
<1>2. p \in Nat /\ r \in Nat /\ r < n /\ a = n * p + r
  BY <1>1, Divided
<1>3. \A k \in Nat : k >= 1 => n * k >= n
  BY Z3
<1>4. n * p \in Nat
  BY <1>2, Z3
<1>5. CASE q > p
  <2>1. n * (q - p) = n * q - n * p
    BY <1>2, Z3
  <2>2. n * (q - p) >= n
    BY <1>2, <1>3, <1>5
  <2> HIDE DEF p, r
  <2>3. n * q - n * p = r
    BY <1>1, <1>2, <1>4 
  <2> QED BY <1>1, <1>2, <1>4, <2>1, <2>2, <2>3
<1>6. CASE q < p
  <2>1. n * (p - q) = n * p - n * q
    BY <1>2, Z3
  <2>2. n * (p - q) >= n
    BY <1>2, <1>3, <1>6
  <2> HIDE DEF p, r
  <2>3. n * p - n * q <= 0
    BY <1>1, <1>2, <1>4
  <2> QED BY <1>1, <1>2, <1>4, <2>1, <2>2, <2>3
<1>7. CASE q = p
  <2> HIDE DEF p, r
  <2>1. n * q = n * p
    BY <1>7
  <2>2. r = 0
    BY <1>1, <1>2, <1>4, <2>1
  <2> QED BY <2>2 DEF r
<1> QED BY <1>2, <1>5, <1>6, <1>7

LEMMA RoundedDown ==
  ASSUME NEW a \in Nat, NEW n \in Nat, n > 0
  PROVE  /\ ALIGN_DOWN(a, n) \in Nat
         /\ ALIGN_DOWN(a, n) <= a /\ a < ALIGN_DOWN(a, n) + n
         /\ ALIGN_DOWN(a, n) % n = 0
<1>1. /\ a \div n \in Nat /\ a % n \in Nat /\ a % n < n /\ a % n <= a
      /\ a = n * (a \div n) + (a % n)
  BY Divided
<1>2. n * (a \div n) \in Nat
  BY <1>1, Z3
<1>3. ALIGN_DOWN(a, n) = n * (a \div n)
  BY <1>1, <1>2 DEF ALIGN_DOWN
<1>4. (n * (a \div n)) % n = 0
  BY <1>1, MultipleOf
<1> QED BY <1>1, <1>2, <1>3, <1>4

(* ALIGN_UP, where its sum does not wrap around.                           *)
LEMMA RoundedUp ==
  ASSUME NEW a \in Nat, NEW n \in Nat, n > 0, a + n <= W
  PROVE  /\ ALIGN_UP(a, n) \in Nat
         /\ a <= ALIGN_UP(a, n) /\ ALIGN_UP(a, n) < a + n
         /\ ALIGN_UP(a, n) % n = 0
<1>1. W \in Nat /\ a + n - 1 \in Nat /\ a + n - 1 < W
  BY HeapAssumption
<1>2. (a + n - 1) % W = a + n - 1
  BY <1>1, SmallRemainder
<1>3. ALIGN_UP(a, n) = ALIGN_DOWN(a + n - 1, n)
  BY <1>2 DEF ALIGN_UP
<1> DEFINE x == a + n - 1
           y == ALIGN_DOWN(x, n)
<1>4. y \in Nat /\ y <= x /\ x < y + n /\ y % n = 0
  BY <1>1, RoundedDown
<1>5. ALIGN_UP(a, n) = y
  BY <1>3
<1> HIDE DEF y
<1> QED BY <1>4, <1>5

(* Sums of multiples are multiples, and so are multiples of them.          *)
LEMMA MultipleSum ==
  ASSUME NEW a \in Nat, NEW b \in Nat, NEW n \in Nat, n > 0,
         a % n = 0, b % n = 0
  PROVE  (a + b) % n = 0
<1>1. a \div n \in Nat /\ a = n * (a \div n)
  <2>1. a \div n \in Nat /\ a = n * (a \div n) + (a % n)
    BY Divided
  <2>2. n * (a \div n) \in Nat
    BY <2>1, Z3
  <2> QED BY <2>1, <2>2
<1>2. b \div n \in Nat /\ b = n * (b \div n)
  <2>1. b \div n \in Nat /\ b = n * (b \div n) + (b % n)
    BY Divided
  <2>2. n * (b \div n) \in Nat
    BY <2>1, Z3
  <2> QED BY <2>1, <2>2
<1> DEFINE p == a \div n
           q == b \div n
<1> HIDE DEF p, q
<1>3. p \in Nat /\ q \in Nat /\ a = n * p /\ b = n * q
  BY <1>1, <1>2 DEF p, q
<1>4. n * (p + q) = n * p + n * q /\ p + q \in Nat
  BY <1>3, Z3
<1>5. (n * (p + q)) % n = 0
  BY <1>4, MultipleOf
<1> QED BY <1>3, <1>4, <1>5

LEMMA MultipleChain ==
  ASSUME NEW a \in Nat, NEW n \in Nat, NEW m \in Nat, n > 0, m > 0,
         a % m = 0, m % n = 0
  PROVE  a % n = 0
<1> DEFINE p == a \div m
           q == m \div n
<1>1. p \in Nat /\ a = m * p
  <2>1. p \in Nat /\ a = m * p + (a % m)
    BY Divided
  <2>2. m * p \in Nat
    BY <2>1, Z3
  <2> QED BY <2>1, <2>2
<1>2. q \in Nat /\ m = n * q
  <2>1. q \in Nat /\ m = n * q + (m % n)
    BY Divided
  <2>2. n * q \in Nat
    BY <2>1, Z3
  <2> QED BY <2>1, <2>2
<1> HIDE DEF p, q
<1>3. (n * q) * p = n * (q * p) /\ q * p \in Nat
  BY <1>1, <1>2, Z3
<1>4. (n * (q * p)) % n = 0
  BY <1>3, MultipleOf
<1>5. a = (n * q) * p
  BY <1>1, <1>2, Zenon
<1> QED BY <1>3, <1>4, <1>5
-----------------------------------------------------------------------------

(* The heap mem_init leaves.                                               *)
LEMMA Layout ==
  /\ Start \in Address /\ End \in Address /\ Start < End
  /\ End <= HeapLimit
  /\ Start % Align = 0
<1> DEFINE from == IF HeapStart < MinStart THEN MinStart ELSE HeapStart
<1>1. /\ from \in Nat /\ Page \in Nat /\ Page > 0 /\ HeapLimit \in Nat
      /\ from + Page <= HeapLimit - Page /\ HeapLimit + Page <= W
      /\ Align \in Nat /\ Align > 0 /\ Page % Align = 0 /\ W \in Nat
  BY HeapAssumption
<1> HIDE DEF from
<1>2. from + Page <= W
  BY <1>1
<1>3. /\ Start \in Nat /\ from <= Start /\ Start < from + Page
      /\ Start % Page = 0
  <2>1. Start = ALIGN_UP(from, Page)
    BY DEF Start, from
  <2> QED BY <1>1, <1>2, <2>1, RoundedUp
<1>4. End \in Nat /\ End <= HeapLimit /\ HeapLimit < End + Page
  BY <1>1, RoundedDown DEF End
<1>5. Start % Align = 0
  BY <1>1, <1>3, MultipleChain
<1> QED BY <1>1, <1>3, <1>4, <1>5 DEF Address

Off == [start |-> 0, end |-> 0, current |-> 0, total_size |-> 0,
        allocated |-> 0, align |-> 0]

(* What was granted lies between the start and the pointer.                *)
Stacked ==
  /\ \A i \in DOMAIN blocks :
       /\ heap.start <= blocks[i].addr
       /\ blocks[i].addr + blocks[i].asked <= heap.current
  /\ BlocksDisjoint

HeapInv ==
  /\ TypeOK
  /\ heap.align = 0 => heap = Off /\ blocks = <<>>
  /\ heap.align # 0 =>
       /\ heap.start = Start /\ heap.end = End
       /\ heap.total_size = End - Start
       /\ Start <= heap.current /\ heap.current <= End
       /\ heap.current % Align = 0
       /\ heap.allocated = heap.current - Start
  /\ Stacked

LEMMA InitHeapInv == ASSUME Init PROVE HeapInv
<1>1. heap = Off /\ blocks = <<>> /\ 0 \in Address
  BY HeapAssumption DEF Init, Off, Address
<1>2. TypeOK
  BY <1>1 DEF TypeOK, Off
<1>3. heap.align = 0 /\ Stacked
  BY <1>1 DEF Off, Stacked, BlocksDisjoint
<1> QED BY <1>1, <1>2, <1>3 DEF HeapInv

LEMMA MemInitKeeps == ASSUME MemInit PROVE HeapInv'
<1>1. /\ heap'.start = Start /\ heap'.end = End /\ heap'.current = Start
      /\ heap'.total_size = End - Start /\ heap'.allocated = 0
      /\ heap'.align = Align /\ blocks' = <<>>
  BY DEF MemInit
<1>2. /\ Start \in Nat /\ End \in Nat /\ HeapLimit \in Nat
      /\ Align \in Nat /\ Align > 0
  BY Layout, HeapAssumption DEF Address
<1>3. End - Start \in Address /\ 0 \in Address /\ Start - Start = 0
  BY Layout, <1>2 DEF Address
<1>4. TypeOK'
  BY <1>2, <1>3, Layout DEF TypeOK, MemInit
<1>5. Stacked'
  BY <1>1 DEF Stacked, BlocksDisjoint
<1> QED BY <1>1, <1>2, <1>3, <1>4, <1>5, Layout DEF HeapInv

(***************************************************************************)
(* A block that is granted: malloc(size) succeeds and the caller gets the  *)
(* bytes from addr on within the size that the pointer moves.              *)
(***************************************************************************)
LEMMA GrantKeeps ==
  ASSUME HeapInv, NEW size \in Nat, Bounded(size), Room(size), Take(size),
         NEW addr \in Nat, NEW asked \in Nat, NEW align \in Nat, align > 0,
         Grant(addr, asked, align),
         heap.current <= addr, addr + asked <= heap.current + size,
         addr % align = 0
  PROVE  HeapInv' /\ Promise!Grant
<1> DEFINE R == ALIGN_UP(size, Align)
           new == heap.current + R
           b == [addr |-> addr, asked |-> asked, align |-> align]
<1>1. /\ heap.align = Align /\ Align \in Nat /\ Align > 0
      /\ heap.start = Start /\ heap.end = End /\ heap.total_size = End - Start
      /\ Start <= heap.current /\ heap.current <= End
      /\ heap.allocated = heap.current - Start
      /\ heap.current \in Nat
  BY HeapAssumption DEF HeapInv, Room, TypeOK, Address
<1>2. /\ Start \in Nat /\ End \in Nat /\ End <= HeapLimit /\ HeapLimit \in Nat
      /\ W \in Nat /\ HeapLimit + size + Align <= W
  BY Layout, HeapAssumption DEF Address, Bounded
<1>3. R \in Nat /\ size <= R /\ R < size + Align
  <2>1. size + Align <= W
    BY <1>1, <1>2
  <2> QED BY <1>1, <2>1, RoundedUp
<1>3a. R % Align = 0 /\ heap.current % Align = 0
  <2>1. size + Align <= W
    BY <1>1, <1>2
  <2>2. heap.current % Align = 0
    BY <1>1 DEF HeapInv
  <2> QED BY <1>1, <2>1, <2>2, RoundedUp
<1> HIDE DEF R
<1>4. new \in Nat /\ new < W /\ new % W = new
  <2>1. new \in Nat /\ new < W
    BY <1>1, <1>2, <1>3
  <2> HIDE DEF new
  <2> QED BY <1>2, <2>1, SmallRemainder
<1>5. Raised(size) = new /\ new <= End
  <2>1. Raised(size) = new
    BY <1>1, <1>4 DEF Raised, R
  <2> QED BY <1>1, <2>1 DEF Room
<1>6. (heap.allocated + R) % W = new - Start
  <2>1. /\ heap.allocated + R = new - Start
        /\ new - Start \in Nat /\ new - Start < W
    BY <1>1, <1>2, <1>3, <1>4
  <2> HIDE DEF new
  <2> QED BY <1>2, <2>1, SmallRemainder
<1>7. heap' = [heap EXCEPT !.current = new, !.allocated = new - Start]
  BY <1>1, <1>5, <1>6, Zenon DEF Take, R
<1>8. /\ heap'.start = Start /\ heap'.end = End /\ heap'.current = new
      /\ heap'.total_size = End - Start /\ heap'.allocated = new - Start
      /\ heap'.align = Align
  BY <1>1, <1>7 DEF HeapInv, TypeOK
<1>9. new % Align = 0 /\ Start <= new
  <2>1. new % Align = 0
    BY <1>1, <1>3, <1>3a, MultipleSum
  <2> QED BY <1>1, <1>2, <1>3, <2>1
<1>10. b \in Block /\ blocks \in Seq(Block) /\ blocks' = Append(blocks, b)
  BY DEF Block, Grant, HeapInv, TypeOK
<1>11. TypeOK'
  <2>1. new \in Address /\ new - Start \in Address
    BY <1>2, <1>4, <1>5, <1>9 DEF Address
  <2>2. blocks' \in Seq(Block)
    BY <1>10
  <2> HIDE DEF new
  <2> QED BY <1>7, <2>1, <2>2 DEF HeapInv, TypeOK
<1>12. addr + asked <= new /\ Start <= addr
  BY <1>1, <1>2, <1>3
<1>13. \A i \in DOMAIN blocks :
        /\ blocks[i].addr \in Nat /\ blocks[i].asked \in Nat
        /\ Start <= blocks[i].addr
        /\ blocks[i].addr + blocks[i].asked <= heap.current
  <2>1. \A i \in DOMAIN blocks : blocks[i] \in Block
    BY <1>10
  <2> QED BY <1>1, <2>1 DEF HeapInv, Stacked, Block
<1> HIDE DEF new
<1>14. \A i \in DOMAIN blocks :
         blocks[i].addr + blocks[i].asked <= addr
  BY <1>1, <1>13
<1>15. /\ Len(blocks') = Len(blocks) + 1 /\ Len(blocks) \in Nat
       /\ DOMAIN blocks = 1 .. Len(blocks)
       /\ DOMAIN blocks' = 1 .. Len(blocks) + 1
       /\ blocks'[Len(blocks) + 1] = b
       /\ \A i \in DOMAIN blocks : blocks'[i] = blocks[i]
  BY <1>10
<1>16. b.addr = addr /\ b.asked = asked /\ b.align = align
  OBVIOUS
<1> HIDE DEF b
<1>17. Stacked'
  <2>1. \A i \in DOMAIN blocks' :
          /\ heap'.start <= blocks'[i].addr
          /\ blocks'[i].addr + blocks'[i].asked <= heap'.current
    <3>1. ASSUME NEW i \in DOMAIN blocks
          PROVE  /\ Start <= blocks'[i].addr
                 /\ blocks'[i].addr + blocks'[i].asked <= new
      <4>1. blocks[i].addr + blocks[i].asked <= heap.current
            /\ blocks[i].addr \in Nat /\ blocks[i].asked \in Nat
            /\ Start <= blocks[i].addr /\ blocks'[i] = blocks[i]
        BY <1>13, <1>15
      <4>2. heap.current <= new /\ new \in Nat
        BY <1>1, <1>3 DEF new
      <4> QED BY <1>1, <4>1, <4>2
    <3> QED BY <1>8, <1>12, <1>15, <1>16, <3>1
  <2>2. BlocksDisjoint'
    <3>1. SUFFICES ASSUME NEW i \in DOMAIN blocks', NEW j \in DOMAIN blocks',
                          i # j
                   PROVE  Disjoint(blocks'[i], blocks'[j])
      BY DEF BlocksDisjoint
    <3>2. CASE i \in DOMAIN blocks /\ j \in DOMAIN blocks
      BY <1>15, <3>1, <3>2 DEF HeapInv, Stacked, BlocksDisjoint
    <3>3. CASE i = Len(blocks) + 1
      BY <1>14, <1>15, <1>16, <3>1, <3>3 DEF Disjoint
    <3>4. CASE j = Len(blocks) + 1
      BY <1>14, <1>15, <1>16, <3>1, <3>4 DEF Disjoint
    <3> QED BY <1>15, <3>2, <3>3, <3>4
  <2> QED BY <2>1, <2>2 DEF Stacked
<1>18. HeapInv'
  BY <1>1, <1>5, <1>8, <1>9, <1>11, <1>17 DEF HeapInv
<1>19. Promise!Grant
  <2>1. b \in Promise!Block /\ blocks'[Len(blocks')] = b
    BY <1>10, <1>15 DEF Block, Promise!Block
  <2>2. Promise!InArena(b)
    BY <1>2, <1>4, <1>5, <1>12, <1>16 DEF Promise!InArena
  <2>3. \A i \in DOMAIN blocks : Promise!Disjoint(b, blocks[i])
    BY <1>14, <1>16 DEF Promise!Disjoint
  <2> QED BY <1>10, <1>15, <1>16, <2>1, <2>2, <2>3, Zenon DEF Promise!Grant
<1> QED BY <1>18, <1>19
LEMMA mallocKeeps ==
  ASSUME HeapInv, NEW size \in Nat, Bounded(size), malloc(size)
  PROVE  HeapInv' /\ Promise!Grant
<1>1. /\ heap.align = Align /\ Align \in Nat /\ Align > 0
      /\ heap.current \in Nat
  BY HeapAssumption DEF HeapInv, malloc, Room, TypeOK, Address
<1>2. heap.current % heap.align = 0
  BY <1>1 DEF HeapInv
<1>3. Room(size) /\ Take(size) /\ Grant(heap.current, size, heap.align)
  BY DEF malloc
<1> QED BY <1>1, <1>2, <1>3, GrantKeeps

(* The division finds every product that has wrapped around.               *)
LEMMA callocKeeps ==
  ASSUME HeapInv, NEW count \in Word, NEW size \in Word, calloc(count, size),
         Bounded(count * size) \/ count * size >= W
  PROVE  HeapInv' /\ Promise!Grant
<1> DEFINE product == count * size
           total == product % W
<1>1. /\ W \in Nat /\ count \in Nat /\ size \in Nat /\ HeapLimit \in Nat
      /\ Align \in Nat /\ Align > 0
  BY HeapAssumption DEF Word
<1>2. product \in Nat
  BY <1>1, Z3
<1>3. /\ Divu(total, count) = size
      /\ Room(total) /\ Take(total) /\ Grant(heap.current, product, heap.align)
  BY DEF calloc
<1> HIDE DEF product
<1>4. W > 0 /\ total \in Nat
  <2>1. W > 0
    BY HeapAssumption
  <2> QED BY <1>1, <1>2, <2>1, Divided
<1>5. total = product
  <2>1. CASE product >= W
    <3>1. count > 0
      <4>1. count = 0 => product = 0
        BY <1>1, Z3 DEF product
      <4> QED BY <1>1, <1>4, <2>1, <4>1
    <3>2. total \div count = size
      BY <1>1, <1>3, <3>1 DEF Divu
    <3>3. total = count * size + (total % count) /\ total % count \in Nat
      <4> HIDE DEF total
      <4> QED BY <1>1, <1>4, <3>1, <3>2, Divided
    <3>4. total < W
      <4> HIDE DEF total
      <4>1. total = product % W
        BY DEF total
      <4> QED BY <1>1, <1>2, <1>4, <4>1, Divided
    <3>5. total = product + (total % count)
      BY <3>3 DEF product
    <3> HIDE DEF total
    <3> QED BY <1>1, <1>2, <1>4, <2>1, <3>3, <3>4, <3>5
  <2>2. CASE product < W
    BY <1>1, <1>2, <2>2, SmallRemainder
  <2> QED BY <1>1, <1>2, <2>1, <2>2
<1> HIDE DEF total
<1>6. Bounded(total)
  <2>1. total < W
    <3>1. product % W < W
      BY <1>1, <1>2, <1>4, Divided
    <3> QED BY <3>1 DEF total
  <2>2. ~(product >= W)
    BY <1>1, <1>2, <1>5, <2>1
  <2> QED BY <1>5, <2>2 DEF product
<1>7. malloc(total)
  BY <1>3, <1>5 DEF malloc
<1> QED BY <1>4, <1>6, <1>7, mallocKeeps

LEMMA aligned_allocKeeps ==
  ASSUME HeapInv, NEW alignment \in Word, NEW size \in Word,
         aligned_alloc(alignment, size), Bounded(alignment + size)
  PROVE  HeapInv' /\ Promise!Grant
<1> DEFINE wide == size + alignment - 1
           addr == ALIGN_UP(heap.current, alignment)
<1>1. /\ W \in Nat /\ alignment \in Nat /\ size \in Nat /\ HeapLimit \in Nat
      /\ Align \in Nat /\ Align > 0
      /\ HeapLimit + (alignment + size) + Align <= W
      /\ alignment > 0
  BY HeapAssumption DEF Word, aligned_alloc, IsPowerOfTwo, Bounded
<1>2. wide \in Nat /\ wide < W /\ HeapLimit + wide + Align <= W
  BY <1>1
<1>3. wide % W = wide
  <2> HIDE DEF wide
  <2> QED BY <1>1, <1>2, SmallRemainder
<1>4. Room(wide) /\ Take(wide) /\ Grant(addr, size, alignment)
  BY <1>3 DEF aligned_alloc
<1>5. heap.current \in Nat /\ heap.current <= HeapLimit
  <2>1. heap.current \in Address
    BY DEF HeapInv, TypeOK
  <2> QED BY <1>1, <2>1 DEF Address
<1>6. /\ addr \in Nat /\ heap.current <= addr
      /\ addr < heap.current + alignment
      /\ addr % alignment = 0
  <2>1. heap.current + alignment <= W
    BY <1>1, <1>5
  <2> QED BY <1>1, <1>5, <2>1, RoundedUp
<1> HIDE DEF addr
<1>7. addr + size <= heap.current + wide
  <2>1. addr \in Nat /\ addr < heap.current + alignment
    BY <1>6
  <2> QED BY <1>1, <1>5, <2>1
<1>8. Bounded(wide)
  BY <1>2 DEF Bounded
<1> HIDE DEF wide
<1> QED BY <1>1, <1>2, <1>4, <1>6, <1>7, <1>8, GrantKeeps

-----------------------------------------------------------------------------

LEMMA HeapInvStep ==
  ASSUME BoundedRequests, HeapInv, [Next]_vars
  PROVE  HeapInv' /\ [Promise!Next]_blocks
<1>1. CASE UNCHANGED vars
  BY <1>1 DEF vars, HeapInv, TypeOK, Stacked, BlocksDisjoint
<1>2. CASE MemInit
  BY <1>2, MemInitKeeps DEF MemInit, Promise!Next, Promise!Reset
<1>3. CASE Malloc
  <2>1. PICK size \in Sizes : malloc(size)
    BY <1>3 DEF Malloc
  <2>2. size \in Nat /\ Bounded(size)
    BY HeapAssumption DEF BoundedRequests, Word
  <2> QED BY <2>1, <2>2, mallocKeeps DEF Promise!Next
<1>4. CASE Calloc
  <2>1. PICK a \in CallocArgs : calloc(a[1], a[2])
    BY <1>4 DEF Calloc
  <2>2. a[1] \in Word /\ a[2] \in Word
    BY HeapAssumption
  <2>3. Bounded(a[1] * a[2]) \/ a[1] * a[2] >= W
    BY DEF BoundedRequests
  <2> QED BY <2>1, <2>2, <2>3, callocKeeps DEF Promise!Next
<1>5. CASE AlignedAlloc
  <2>1. PICK a \in AlignedArgs : aligned_alloc(a[1], a[2])
    BY <1>5 DEF AlignedAlloc
  <2>2. a[1] \in Word /\ a[2] \in Word
    BY HeapAssumption
  <2>3. Bounded(a[1] + a[2])
    BY DEF BoundedRequests
  <2> QED BY <2>1, <2>2, <2>3, aligned_allocKeeps DEF Promise!Next
<1> QED BY <1>1, <1>2, <1>3, <1>4, <1>5 DEF Next

(***************************************************************************)
(* The inductive invariant behind the theorems below: a booted heap has    *)
(* the layout of mem_init, an aligned pointer that lies in it, statistics  *)
(* that follow the pointer, and its blocks below the pointer.              *)
(***************************************************************************)
THEOREM HeapInvariant == ASSUME BoundedRequests PROVE Spec => []HeapInv
<1>1. Init => HeapInv
  BY InitHeapInv
<1>2. HeapInv /\ [Next]_vars => HeapInv'
  BY HeapInvStep
<1> QED BY <1>1, <1>2, PTL DEF Spec

(***************************************************************************)
(* The struct heap stays within its types.                                 *)
(***************************************************************************)
THEOREM TypeCorrect == ASSUME BoundedRequests PROVE Spec => []TypeOK
<1>1. HeapInv => TypeOK
  BY DEF HeapInv
<1> QED BY <1>1, HeapInvariant, PTL

(***************************************************************************)
(* No two blocks of malloc, calloc and aligned_alloc share a byte.         *)
(***************************************************************************)
THEOREM NoByteTwice == ASSUME BoundedRequests PROVE Spec => []BlocksDisjoint
<1>1. HeapInv => BlocksDisjoint
  BY DEF HeapInv, Stacked
<1> QED BY <1>1, HeapInvariant, PTL

(***************************************************************************)
(* mem_is_heap_addr is true of every byte of every block, and the pointer  *)
(* never passes the end of the heap.                                       *)
(***************************************************************************)
THEOREM BlocksAreHeap == ASSUME BoundedRequests PROVE Spec => []BlocksInHeap
<1>1. ASSUME HeapInv PROVE BlocksInHeap
  <2>1. heap.current \in Nat /\ heap.start \in Nat /\ heap.end \in Nat
    BY <1>1, HeapAssumption DEF HeapInv, TypeOK, Address
  <2>2. \A i \in DOMAIN blocks :
          /\ blocks[i].addr \in Nat /\ blocks[i].asked \in Nat
          /\ heap.start <= blocks[i].addr
          /\ blocks[i].addr + blocks[i].asked <= heap.current
    <3>1. \A i \in DOMAIN blocks : blocks[i] \in Block
      BY <1>1 DEF HeapInv, TypeOK
    <3> QED BY <1>1, <3>1 DEF HeapInv, Stacked, Block
  <2>3. heap.current <= heap.end
    BY <1>1 DEF HeapInv, Off
  <2> QED BY <2>1, <2>2, <2>3 DEF BlocksInHeap, mem_is_heap_addr
<1> QED BY <1>1, HeapInvariant, PTL

(***************************************************************************)
(* mem_print_stats: what is allocated and what is free add up to the total.*)
(***************************************************************************)
THEOREM StatisticsAddUp == ASSUME BoundedRequests PROVE Spec => []Accounting
<1>1. ASSUME HeapInv PROVE Accounting
  <2>1. heap.current \in Nat /\ Start \in Nat /\ End \in Nat
    BY <1>1, Layout, HeapAssumption DEF HeapInv, TypeOK, Address
  <2>2. CASE heap.align = 0
    BY <1>1, <2>2 DEF HeapInv, Off, Accounting, mem_get_free_size
  <2>3. CASE heap.align # 0
    <3>1. /\ heap.start = Start /\ heap.end = End
          /\ heap.total_size = End - Start /\ heap.allocated = heap.current - Start
      BY <1>1, <2>3 DEF HeapInv
    <3> QED BY <2>1, <3>1 DEF Accounting, mem_get_free_size
  <2> QED BY <2>2, <2>3
<1> QED BY <1>1, HeapInvariant, PTL

(***************************************************************************)
(* The allocator is an arena: whatever malloc, calloc and aligned_alloc    *)
(* return is a new, aligned block of the heap, large enough for what the   *)
(* caller asked, until mem_init runs again.                                *)
(***************************************************************************)
THEOREM HeapIsArena == ASSUME BoundedRequests PROVE Spec => ImplementsArena
<1>1. Init => Promise!Init
  BY DEF Init, Promise!Init
<1>2. HeapInv /\ [Next]_vars => [Promise!Next]_blocks
  BY HeapInvStep
<1> QED
  BY <1>1, <1>2, HeapInvariant, PTL DEF Spec, ImplementsArena, Promise!Spec
=============================================================================
