---------------------------- MODULE CPoolProofs ----------------------------
(***************************************************************************)
(* Proofs about CPool, for every size of blocks, all sizes and alignments  *)
(* that are asked for, every depth of saves and any amount of memory.      *)
(*                                                                         *)
(* What has to be known besides the properties is what a restore relies    *)
(* on: an allocation that is older than a save lies below the saved        *)
(* position, and the list of large blocks was as long as the saved         *)
(* large_last when the save was made (SavedSmall, SavedLarge).             *)
(***************************************************************************)
EXTENDS CPool, SequenceTheorems, TLAPS

(* last is the end of the chain: __append_block cuts nothing off. *)
LastIsEnd == last = Len(blocks)

(* What is held was allocated inside the saves that are open. *)
HeldInSaves == \A a \in live : a.depth <= Len(snapshots) /\ a.from < a.to

(* What was held before a save lies below where the save was made. *)
Below(a, snap) == \/ a.block < snap.block
                  \/ a.block = snap.block /\ a.to <= snap.head

SavedSmall == \A k \in DOMAIN snapshots :
                 /\ snapshots[k].block \in DOMAIN blocks
                 /\ \A a \in SmallLive : a.depth < k => Below(a, snapshots[k])

(* The list of large blocks was as long as what was held before the save. *)
Older(k) == {a \in LargeLive : a.depth < k}

SavedLarge == \A k \in DOMAIN snapshots :
                 {a.from : a \in Older(k)} = 1 .. snapshots[k].large_last

PoolInv == /\ TypeOK /\ AllocationsDisjoint /\ EmptyAhead /\ LargeBlocksOwned
           /\ LastIsEnd /\ HeldInSaves /\ SavedSmall /\ SavedLarge

Snapshots == [head : Nat, full : BOOLEAN, block : Nat, last : Nat, large_last : Nat]
Allocations == [block : Nat, from : Nat, to : Nat, depth : Nat]

-----------------------------------------------------------------------------
LEMMA InitInv == Init => PoolInv
<1> SUFFICES ASSUME Init PROVE PoolInv
  OBVIOUS
<1> USE DEF Init
<1>1. blocks \in Seq(Blocks) /\ Len(blocks) = 1 /\ blocks # <<>> /\ blocks[1] = EmptyBlock
  BY DEF Blocks, EmptyBlock
<1>2. TypeOK
  BY <1>1 DEF TypeOK
<1>3. AllocationsDisjoint /\ LargeBlocksOwned /\ HeldInSaves
  BY DEF AllocationsDisjoint, LargeBlocksOwned, HeldInSaves, SmallLive, LargeLive
<1>4. EmptyAhead /\ LastIsEnd
  BY <1>1 DEF EmptyAhead, LastIsEnd
<1>5. SavedSmall /\ SavedLarge
  BY DEF SavedSmall, SavedLarge
<1> QED
  BY <1>2, <1>3, <1>4, <1>5 DEF PoolInv

LEMMA SeqFacts ==
    ASSUME NEW S, NEW s \in Seq(S)
    PROVE  /\ Len(s) \in Nat /\ DOMAIN s = 1 .. Len(s)
           /\ \A n \in 1 .. Len(s) : s[n] \in S
           /\ s # <<>> => Len(s) >= 1
BY EmptySeq, LenProperties, ElementOfSeq

LEMMA HeadsAreNumbers == \A b \in Blocks : b.head \in Nat
BY DEF Blocks

LEMMA PoolFacts ==
    ASSUME PoolInv
    PROVE  /\ blocks \in Seq(Blocks) /\ Len(blocks) \in Nat /\ Len(blocks) >= 1
           /\ DOMAIN blocks = 1 .. Len(blocks)
           /\ \A n \in 1 .. Len(blocks) : blocks[n] \in Blocks /\ blocks[n].head \in Nat
           /\ snapshots \in Seq(Snapshots) /\ Len(snapshots) \in Nat
           /\ DOMAIN snapshots = 1 .. Len(snapshots)
           /\ live \subseteq Allocations
           /\ TypeOK
<1>1. /\ TypeOK /\ blocks \in Seq(Blocks) /\ blocks # <<>> /\ snapshots \in Seq(Snapshots)
      /\ live \subseteq Allocations
  BY DEF PoolInv, TypeOK, Snapshots, Allocations
<1> QED
  BY <1>1, SeqFacts, HeadsAreNumbers

(* What __append_block makes of the chain: one empty block more. *)
LEMMA AppendedChain ==
    ASSUME PoolInv
    PROVE  /\ Appended \in Seq(Blocks) /\ Len(Appended) = Len(blocks) + 1
           /\ \A n \in 1 .. Len(blocks) : Appended[n] = blocks[n]
           /\ Appended[Len(blocks) + 1] = EmptyBlock
           /\ Appended # <<>>
<1>1. blocks \in Seq(Blocks) /\ last = Len(blocks) /\ Len(blocks) \in Nat
  BY DEF PoolInv, TypeOK, LastIsEnd
<1>2. SubSeq(blocks, 1, last) = blocks
  BY <1>1, SubSeqFull
<1>3. EmptyBlock \in Blocks
  BY DEF EmptyBlock, Blocks
<1> QED
  BY <1>1, <1>2, <1>3, AppendProperties DEF Appended

(* Blocks may be written to as long as none of the allocations and none of *)
(* the saved positions notices: the heads only go up. *)
LEMMA HeadsGoUp ==
    ASSUME PoolInv, blocks' \in Seq(Blocks), Len(blocks') >= Len(blocks),
           \A n \in 1 .. Len(blocks) : blocks'[n].head >= blocks[n].head,
           last' = Len(blocks'), current' \in 0 .. Len(blocks'), EmptyAhead',
           UNCHANGED <<large, large_last, snapshots, live>>
    PROVE  PoolInv'
<1>1. /\ TypeOK /\ blocks \in Seq(Blocks) /\ Len(blocks) \in Nat /\ Len(blocks) >= 1
      /\ DOMAIN blocks = 1 .. Len(blocks) /\ DOMAIN blocks' = 1 .. Len(blocks')
      /\ Len(blocks') \in Nat
      /\ \A n \in 1 .. Len(blocks) : blocks[n].head \in Nat /\ n \in DOMAIN blocks'
      /\ \A n \in 1 .. Len(blocks') : blocks'[n].head \in Nat
  <2>1. /\ Len(blocks') \in Nat /\ DOMAIN blocks' = 1 .. Len(blocks')
        /\ \A n \in 1 .. Len(blocks') : blocks'[n].head \in Nat
    BY SeqFacts, HeadsAreNumbers
  <2> QED
    BY <2>1, PoolFacts
<1>2. TypeOK'
  <2>1. blocks' # <<>> /\ Len(blocks') \in 1 .. Len(blocks')
    BY <1>1, EmptySeq
  <2> QED
    BY <1>1, <2>1 DEF TypeOK
<1>3. SmallLive' = SmallLive /\ LargeLive' = LargeLive /\ \A a \in SmallLive : a.to \in Nat
  BY <1>1 DEF SmallLive, LargeLive, TypeOK
<1>4. AllocationsDisjoint'
  <2>1. ASSUME NEW a \in SmallLive
        PROVE  a.block \in DOMAIN blocks' /\ a.to <= BlockSize /\ a.to <= blocks'[a.block].head
    <3>1. a.block \in 1 .. Len(blocks) /\ a.to <= BlockSize /\ a.to <= blocks[a.block].head
      BY <1>1 DEF PoolInv, AllocationsDisjoint
    <3> QED
      BY <1>1, <1>3, <3>1
  <2> QED
    BY <1>3, <2>1 DEF PoolInv, AllocationsDisjoint
<1>5. LargeBlocksOwned' /\ HeldInSaves' /\ LastIsEnd'
  BY <1>3 DEF PoolInv, LargeBlocksOwned, HeldInSaves, LastIsEnd
<1>6. SavedSmall' /\ SavedLarge'
  BY <1>1, <1>3 DEF PoolInv, SavedSmall, SavedLarge, Below, Older
<1> QED
  BY <1>2, <1>4, <1>5, <1>6 DEF PoolInv

-----------------------------------------------------------------------------
(* palloc: the allocation starts at the head of its block, above all that  *)
(* is held there. *)
LEMMA CarveInv ==
    ASSUME PoolInv, NEW chain \in Seq(Blocks), NEW b \in 1 .. Len(chain), NEW size \in Nat \ {0},
           Len(chain) >= Len(blocks),
           \A n \in 1 .. Len(blocks) : chain[n] = blocks[n],
           \A n \in 1 .. Len(chain) : n > b \/ n > Len(blocks) => chain[n] = EmptyBlock,
           chain[b].head + size <= BlockSize,
           last' = Len(chain), Carve(chain, b, size)
    PROVE  PoolInv'
<1> DEFINE h == chain[b].head
           x == Allocation(b, h, size)
<1>1. /\ TypeOK /\ blocks \in Seq(Blocks) /\ Len(blocks) \in Nat /\ Len(blocks) >= 1
      /\ DOMAIN blocks = 1 .. Len(blocks) /\ DOMAIN chain = 1 .. Len(chain)
      /\ Len(chain) \in Nat /\ h \in Nat
  BY PoolFacts, SeqFacts, HeadsAreNumbers
<1>2. /\ blocks' = [chain EXCEPT ![b] = [head |-> h + size,
                                         full |-> @.full \/ h + size = BlockSize]]
      /\ current' = IF h + size = BlockSize THEN Following(chain, b) ELSE b
      /\ live' = live \cup {x}
      /\ UNCHANGED <<large, large_last, snapshots>>
  BY DEF Carve
<1>3. blocks' \in Seq(Blocks) /\ Len(blocks') = Len(chain) /\ DOMAIN blocks' = 1 .. Len(chain)
  <2>1. [head |-> h + size, full |-> chain[b].full \/ h + size = BlockSize] \in Blocks
    BY <1>1 DEF Blocks
  <2> QED
    BY <1>1, <1>2, <2>1, ExceptSeq
<1>4. /\ blocks'[b].head = h + size
      /\ \A n \in 1 .. Len(chain) : n # b => blocks'[n] = chain[n]
  BY <1>1, <1>2
<1>5. /\ x.block = b /\ x.from = h /\ x.to = h + size /\ x.depth = Len(snapshots)
      /\ x \in Allocations /\ Len(snapshots) \in Nat
  BY <1>1 DEF Allocation, Allocations, TypeOK
<1> HIDE DEF h, x
<1>6. current' \in 0 .. Len(chain) /\ (current' # 0 => current' >= b)
  BY <1>1, <1>2 DEF Following
<1>7. TypeOK'
  <2>1. blocks' # <<>> /\ last' \in 1 .. Len(blocks')
    BY <1>1, <1>3, EmptySeq
  <2>2. live' \subseteq [block : Nat, from : Nat, to : Nat, depth : Nat]
    BY <1>1, <1>2, <1>5 DEF TypeOK, Allocations
  <2> QED
    BY <1>1, <1>2, <1>3, <1>6, <2>1, <2>2 DEF TypeOK
<1>8. SmallLive' = SmallLive \cup {x} /\ LargeLive' = LargeLive
  BY <1>1, <1>2, <1>5 DEF SmallLive, LargeLive
<1>9. ASSUME NEW a \in SmallLive
      PROVE  /\ a.block \in 1 .. Len(blocks) /\ a.to \in Nat /\ a.from \in Nat
             /\ a.to <= BlockSize /\ a.to <= chain[a.block].head
             /\ a.depth \in Nat /\ a.depth <= Len(snapshots)
             /\ a.block = b => a.to <= h
  BY <1>1 DEF PoolInv, AllocationsDisjoint, SmallLive, TypeOK, HeldInSaves, h
<1>10. AllocationsDisjoint'
  <2>1. ASSUME NEW a \in SmallLive'
        PROVE  a.block \in DOMAIN blocks' /\ a.to <= BlockSize /\ a.to <= blocks'[a.block].head
    <3>1. CASE a = x
      BY <1>1, <1>3, <1>4, <1>5, <3>1 DEF h
    <3>2. CASE a \in SmallLive
      <4>1. CASE a.block = b
        BY <1>1, <1>3, <1>4, <1>9, <3>2, <4>1
      <4>2. CASE a.block # b
        BY <1>1, <1>3, <1>4, <1>9, <3>2, <4>2
      <4> QED
        BY <4>1, <4>2
    <3> QED
      BY <1>8, <3>1, <3>2
  <2>2. ASSUME NEW a \in SmallLive', NEW c \in SmallLive', a # c, a.block = c.block
        PROVE  a.to <= c.from \/ c.to <= a.from
    <3>1. CASE a \in SmallLive /\ c \in SmallLive
      BY <2>2, <3>1 DEF PoolInv, AllocationsDisjoint
    <3>2. CASE a = x /\ c \in SmallLive
      BY <1>5, <1>9, <2>2, <3>2
    <3>3. CASE c = x /\ a \in SmallLive
      BY <1>5, <1>9, <2>2, <3>3
    <3> QED
      BY <1>8, <2>2, <3>1, <3>2, <3>3
  <2> QED
    BY <2>1, <2>2 DEF AllocationsDisjoint
<1>11. EmptyAhead'
  BY <1>1, <1>3, <1>4, <1>6 DEF EmptyAhead
<1>12. LargeBlocksOwned' /\ LastIsEnd'
  BY <1>2, <1>3, <1>8 DEF PoolInv, LargeBlocksOwned, LastIsEnd
<1>13. HeldInSaves'
  BY <1>1, <1>2, <1>5 DEF PoolInv, HeldInSaves
<1>14. SavedSmall'
  <2>1. ASSUME NEW k \in DOMAIN snapshots
        PROVE  /\ snapshots[k].block \in DOMAIN blocks'
               /\ \A a \in SmallLive' : a.depth < k => Below(a, snapshots[k])
    <3>1. k \in Nat /\ k <= Len(snapshots)
      BY PoolFacts
    <3>2. snapshots[k].block \in DOMAIN blocks'
      BY <1>1, <1>3 DEF PoolInv, SavedSmall
    <3> QED
      BY <1>5, <1>8, <3>1, <3>2 DEF PoolInv, SavedSmall
  <2> QED
    BY <1>2, <2>1 DEF SavedSmall
<1>15. SavedLarge'
  BY <1>2, <1>8 DEF PoolInv, SavedLarge, Older
<1> QED
  BY <1>7, <1>10, <1>11, <1>12, <1>13, <1>14, <1>15 DEF PoolInv

(* The three places that palloc takes it from. *)
LEMMA AllocInv ==
    ASSUME PoolInv, NEW size \in Sizes, AllocHere(size) \/ AllocNext(size) \/ AllocAppend(size)
    PROVE  PoolInv'
<1>1. /\ size \in Nat \ {0} /\ size <= BlockSize /\ BlockSize \in Nat
  BY PoolAssumption DEF AllocHere, AllocNext, AllocAppend
<1>2. /\ current \in 0 .. Len(blocks) /\ last = Len(blocks)
      /\ \A n \in 1 .. Len(blocks) : current # 0 /\ n > current => blocks[n] = EmptyBlock
  BY DEF PoolInv, TypeOK, LastIsEnd, EmptyAhead
<1>3. CASE AllocHere(size)
  <2>1. /\ Carve(blocks, current, size) /\ current # 0 /\ last' = Len(blocks)
        /\ blocks[current].head + size <= BlockSize
    BY <1>2, <1>3 DEF AllocHere, Fits
  <2>2. current \in 1 .. Len(blocks)
    BY <1>2, <2>1, PoolFacts
  <2> QED
    BY <1>1, <1>2, <2>1, <2>2, PoolFacts, CarveInv
<1>4. CASE AllocNext(size)
  <2>1. /\ Carve(blocks, current + 1, size) /\ current # 0 /\ current < Len(blocks)
        /\ last' = Len(blocks)
    BY <1>2, <1>4 DEF AllocNext, Following
  <2>2. current + 1 \in 1 .. Len(blocks) /\ current + 1 > current
    BY <1>2, <2>1, PoolFacts
  <2>3. blocks[current + 1].head + size <= BlockSize
    BY <1>1, <1>2, <2>1, <2>2 DEF EmptyBlock
  <2>4. \A n \in 1 .. Len(blocks) : n > current + 1 \/ n > Len(blocks) => blocks[n] = EmptyBlock
    BY <1>2, <2>1, PoolFacts
  <2> DEFINE b == current + 1
  <2> HIDE DEF b
  <2>5. /\ b \in 1 .. Len(blocks) /\ Carve(blocks, b, size) /\ blocks[b].head + size <= BlockSize
        /\ \A n \in 1 .. Len(blocks) : n > b \/ n > Len(blocks) => blocks[n] = EmptyBlock
    BY <2>1, <2>2, <2>3, <2>4 DEF b
  <2> QED
    BY <1>1, <2>1, <2>5, PoolFacts, CarveInv
<1>5. CASE AllocAppend(size)
  <2> DEFINE chain == Appended
             b == Len(blocks) + 1
  <2>1. Carve(chain, b, size) /\ last' = Len(blocks) + 1
    BY <1>2, <1>5 DEF AllocAppend
  <2>2. /\ chain \in Seq(Blocks) /\ Len(chain) = b /\ chain[b] = EmptyBlock
        /\ \A n \in 1 .. Len(blocks) : chain[n] = blocks[n]
    BY AppendedChain
  <2>3. /\ b \in 1 .. Len(chain) /\ Len(chain) >= Len(blocks) /\ last' = Len(chain)
        /\ \A n \in 1 .. Len(chain) : n > b \/ n > Len(blocks) => n = b
    BY <2>1, <2>2, PoolFacts
  <2>4. chain[b].head + size <= BlockSize
    BY <1>1, <2>2 DEF EmptyBlock
  <2> HIDE DEF chain, b
  <2> QED
    BY <1>1, <2>1, <2>2, <2>3, <2>4, CarveInv
<1> QED
  BY <1>3, <1>4, <1>5

(* A large block is appended to the list and to what is held. *)
LEMMA AllocLargeInv ==
    ASSUME PoolInv, NEW size \in Sizes, AllocLarge(size)
    PROVE  PoolInv'
<1> DEFINE l == large + 1
           x == Allocation(0, l, 1)
<1>1. /\ large \in Nat /\ large_last = large /\ {a.from : a \in LargeLive} = 1 .. large
  BY DEF PoolInv, TypeOK, LargeBlocksOwned
<1>2. /\ large' = l /\ large_last' = l /\ live' = live \cup {x}
      /\ UNCHANGED <<blocks, current, last, snapshots>>
  BY <1>1 DEF AllocLarge
<1>3. /\ x.block = 0 /\ x.from = l /\ x.to = l + 1 /\ x.depth = Len(snapshots)
      /\ x \in Allocations /\ l \in Nat /\ l = large + 1
  BY <1>1, PoolFacts DEF Allocation, Allocations
<1> HIDE DEF l, x
<1>4. SmallLive' = SmallLive /\ LargeLive' = LargeLive \cup {x}
  BY <1>2, <1>3 DEF SmallLive, LargeLive
<1>5. TypeOK'
  <2>1. live' \subseteq [block : Nat, from : Nat, to : Nat, depth : Nat]
    BY <1>2, <1>3, PoolFacts DEF Allocations
  <2>2. large' \in Nat /\ large_last' \in 0 .. large'
    BY <1>2, <1>3
  <2> QED
    BY <1>2, <2>1, <2>2, PoolFacts DEF TypeOK
<1>6. AllocationsDisjoint' /\ EmptyAhead' /\ LastIsEnd'
  BY <1>2, <1>4 DEF PoolInv, AllocationsDisjoint, EmptyAhead, LastIsEnd
<1>7. LargeBlocksOwned'
  <2>1. {a.from : a \in LargeLive'} = {a.from : a \in LargeLive} \cup {l}
    BY <1>3, <1>4
  <2>2. (1 .. large) \cup {l} = 1 .. l
    BY <1>1, <1>3
  <2> QED
    BY <1>1, <1>2, <2>1, <2>2 DEF LargeBlocksOwned
<1>8. HeldInSaves'
  BY <1>2, <1>3, PoolFacts DEF PoolInv, HeldInSaves
<1>9. SavedSmall'
  BY <1>2, <1>4 DEF PoolInv, SavedSmall
<1>10. SavedLarge'
  <2>1. ASSUME NEW k \in DOMAIN snapshots PROVE Older(k)' = Older(k)
    <3>1. ~(x.depth < k)
      BY <1>3, PoolFacts
    <3> QED
      BY <1>4, <3>1 DEF Older
  <2> QED
    BY <1>2, <2>1 DEF PoolInv, SavedLarge
<1> QED
  BY <1>5, <1>6, <1>7, <1>8, <1>9, <1>10 DEF PoolInv

-----------------------------------------------------------------------------
(* cpool_align never moves a head down. *)
LEMMA RoundUpGoesUp ==
    ASSUME NEW n \in Nat, NEW align \in Nat \ {0}
    PROVE  RoundUp(n, align) \in Nat /\ RoundUp(n, align) >= n
<1> DEFINE m == n + align - 1
           q == m \div align
           r == m % align
<1>1. m \in Nat
  OBVIOUS
<1> HIDE DEF m
<1>2. q \in Nat /\ r \in 0 .. align - 1 /\ m = align * q + r
  BY <1>1
<1> HIDE DEF q, r
<1>3. q * align \in Nat /\ q * align = align * q
  BY <1>2
<1>4. q * align = m - r
  BY <1>1, <1>2, <1>3
<1>5. RoundUp(n, align) = q * align
  BY DEF RoundUp, q, m
<1> QED
  BY <1>2, <1>3, <1>4, <1>5 DEF m

LEMMA AlignInv ==
    ASSUME PoolInv, NEW align \in Alignments, AlignHere(align) \/ AlignOver(align)
    PROVE  PoolInv'
<1> DEFINE h == RoundUp(blocks[current].head, align)
           c == current
<1>1. /\ c # 0 /\ c \in 1 .. Len(blocks) /\ last = Len(blocks)
      /\ \A n \in 1 .. Len(blocks) : n > c => blocks[n] = EmptyBlock
  <2>1. current # 0 /\ current \in 0 .. Len(blocks)
    BY DEF AlignHere, AlignOver, PoolInv, TypeOK
  <2> QED
    BY <2>1, PoolFacts DEF PoolInv, LastIsEnd, EmptyAhead
<1>2. h \in Nat /\ h >= blocks[c].head
  BY <1>1, PoolFacts, PoolAssumption, RoundUpGoesUp
<1>3. UNCHANGED <<large, large_last, snapshots, live>>
  BY DEF AlignHere, AlignOver
<1>4. CASE AlignHere(align)
  <2>1. blocks' = [blocks EXCEPT ![c].head = h] /\ current' = c /\ last' = Len(blocks)
    BY <1>1, <1>4 DEF AlignHere
  <2> HIDE DEF h, c
  <2> DEFINE x == [blocks[c] EXCEPT !.head = h]
  <2>2. x \in Blocks /\ x.head = h /\ blocks' = [blocks EXCEPT ![c] = x]
    BY <1>1, <1>2, <2>1, PoolFacts DEF Blocks
  <2> HIDE DEF x
  <2>3. /\ blocks' \in Seq(Blocks) /\ Len(blocks') = Len(blocks) /\ blocks'[c] = x
        /\ \A n \in 1 .. Len(blocks) : n # c => blocks'[n] = blocks[n]
    BY <1>1, <2>2, PoolFacts, ExceptSeq
  <2>4. \A n \in 1 .. Len(blocks) : blocks'[n].head >= blocks[n].head
    BY <1>2, <2>2, <2>3, PoolFacts
  <2>5. EmptyAhead'
    BY <1>1, <2>1, <2>3, PoolFacts DEF EmptyAhead
  <2>6. current' \in 0 .. Len(blocks') /\ last' = Len(blocks') /\ Len(blocks') >= Len(blocks)
    BY <1>1, <2>1, <2>3, PoolFacts
  <2> QED
    BY <1>3, <2>3, <2>4, <2>5, <2>6, HeadsGoUp
<1>5. CASE AlignOver(align)
  <2> DEFINE x == [head |-> h, full |-> TRUE]
  <2>1. x \in Blocks /\ x.head = h
    BY <1>2 DEF Blocks
  <2>2. CASE last < MaxBlocks
    <3> DEFINE chain == Appended
    <3>1. blocks' = [chain EXCEPT ![c] = x] /\ last' = Len(blocks) + 1 /\ current' = Len(blocks) + 1
      BY <1>1, <1>5, <2>2 DEF AlignOver
    <3>2. /\ chain \in Seq(Blocks) /\ Len(chain) = Len(blocks) + 1
          /\ \A n \in 1 .. Len(blocks) : chain[n] = blocks[n]
      BY AppendedChain
    <3> HIDE DEF chain, x, h, c
    <3>3. c \in 1 .. Len(chain)
      BY <1>1, <3>2, PoolFacts
    <3>4. /\ blocks' \in Seq(Blocks) /\ Len(blocks') = Len(chain) /\ blocks'[c] = x
          /\ \A n \in 1 .. Len(chain) : n # c => blocks'[n] = chain[n]
      BY <2>1, <3>1, <3>2, <3>3, ExceptSeq, SeqFacts
    <3>5. \A n \in 1 .. Len(blocks) : blocks'[n].head >= blocks[n].head
      BY <1>2, <2>1, <3>2, <3>4, PoolFacts
    <3>6. EmptyAhead'
      BY <3>1, <3>2, <3>4, PoolFacts DEF EmptyAhead
    <3>7. current' \in 0 .. Len(blocks') /\ last' = Len(blocks') /\ Len(blocks') >= Len(blocks)
      BY <3>1, <3>2, <3>4, PoolFacts
    <3> QED
      BY <1>3, <3>4, <3>5, <3>6, <3>7, HeadsGoUp
  <2>3. CASE ~(last < MaxBlocks)
    <3>1. blocks' = [blocks EXCEPT ![c] = x] /\ last' = Len(blocks) /\ current' = c
      BY <1>1, <1>5, <2>3 DEF AlignOver
    <3> HIDE DEF x, h, c
    <3>2. /\ blocks' \in Seq(Blocks) /\ Len(blocks') = Len(blocks) /\ blocks'[c] = x
          /\ \A n \in 1 .. Len(blocks) : n # c => blocks'[n] = blocks[n]
      BY <1>1, <2>1, <3>1, PoolFacts, ExceptSeq
    <3>3. \A n \in 1 .. Len(blocks) : blocks'[n].head >= blocks[n].head
      BY <1>2, <2>1, <3>2, PoolFacts
    <3>4. EmptyAhead'
      BY <1>1, <3>1, <3>2, PoolFacts DEF EmptyAhead
    <3>5. current' \in 0 .. Len(blocks') /\ last' = Len(blocks') /\ Len(blocks') >= Len(blocks)
      BY <1>1, <3>1, <3>2, PoolFacts
    <3> QED
      BY <1>3, <3>2, <3>3, <3>4, <3>5, HeadsGoUp
  <2> QED
    BY <2>2, <2>3
<1> QED
  BY <1>4, <1>5

LEMMA AlignFreshInv ==
    ASSUME PoolInv, AlignFresh
    PROVE  PoolInv'
<1>1. /\ blocks' = Appended /\ last' = Len(blocks) + 1 /\ current' = Len(blocks) + 1
      /\ UNCHANGED <<large, large_last, snapshots, live>>
  BY DEF AlignFresh, PoolInv, LastIsEnd
<1>2. /\ blocks' \in Seq(Blocks) /\ Len(blocks') = Len(blocks) + 1
      /\ \A n \in 1 .. Len(blocks) : blocks'[n] = blocks[n]
  BY <1>1, AppendedChain
<1>3. \A n \in 1 .. Len(blocks) : blocks'[n].head >= blocks[n].head
  BY <1>2, PoolFacts
<1>4. EmptyAhead'
  BY <1>1, <1>2, PoolFacts DEF EmptyAhead
<1>5. current' \in 0 .. Len(blocks') /\ last' = Len(blocks') /\ Len(blocks') >= Len(blocks)
  BY <1>1, <1>2, PoolFacts
<1> QED
  BY <1>1, <1>2, <1>3, <1>4, <1>5, HeadsGoUp

-----------------------------------------------------------------------------
(* cpool_save: everything that is held lies below the saved position. *)
LEMMA SaveInv ==
    ASSUME PoolInv, Save
    PROVE  PoolInv'
<1> DEFINE b == SavedBlock
           l == Len(snapshots) + 1
           snap == [head |-> blocks[b].head, full |-> blocks[b].full, block |-> b,
                    last |-> last, large_last |-> large_last]
<1>1. /\ snapshots' = Append(snapshots, snap)
      /\ UNCHANGED <<blocks, current, last, large, large_last, live>>
  BY DEF Save
<1>2. /\ current \in 0 .. Len(blocks) /\ last = Len(blocks) /\ last \in Nat
      /\ large_last = large /\ large \in Nat
      /\ \A n \in 1 .. Len(blocks) : current # 0 /\ n > current => blocks[n] = EmptyBlock
  BY PoolFacts DEF PoolInv, TypeOK, LastIsEnd, EmptyAhead, LargeBlocksOwned
<1>3. /\ b \in 1 .. Len(blocks)
      /\ \A n \in 1 .. Len(blocks) : n > b => blocks[n] = EmptyBlock
  BY <1>2, PoolFacts DEF SavedBlock
<1> HIDE DEF b
<1>4. snap \in Snapshots
  BY <1>2, <1>3, PoolFacts DEF Snapshots, Blocks
<1>5. snap.block = b /\ snap.head = blocks[b].head /\ snap.large_last = large
  BY <1>2
<1> HIDE DEF snap
<1>6. /\ snapshots' \in Seq(Snapshots) /\ Len(snapshots') = l
      /\ snapshots'[l] = snap
      /\ \A k \in 1 .. Len(snapshots) : snapshots'[k] = snapshots[k]
  BY <1>1, <1>4, PoolFacts, AppendProperties
<1>7. /\ l \in Nat /\ l > Len(snapshots) /\ DOMAIN snapshots' = 1 .. l
      /\ \A k \in 1 .. l : k = l \/ k \in 1 .. Len(snapshots)
  BY <1>6, PoolFacts, SeqFacts
<1> HIDE DEF l
<1>8. SmallLive' = SmallLive /\ LargeLive' = LargeLive
  BY <1>1 DEF SmallLive, LargeLive
<1>9. TypeOK'
  <2>1. snapshots' \in Seq([head : Nat, full : BOOLEAN, block : Nat, last : Nat, large_last : Nat])
    BY <1>6 DEF Snapshots
  <2> QED
    BY <1>1, <2>1, PoolFacts DEF TypeOK
<1>10. AllocationsDisjoint' /\ EmptyAhead' /\ LastIsEnd' /\ LargeBlocksOwned'
  BY <1>1, <1>8 DEF PoolInv, AllocationsDisjoint, EmptyAhead, LastIsEnd, LargeBlocksOwned
<1>11. \A a \in live : a.depth \in Nat /\ a.depth < l /\ a.depth <= l /\ a.from < a.to
                        /\ a.from \in Nat /\ a.to \in Nat
  BY <1>7, PoolFacts DEF PoolInv, HeldInSaves, Allocations
<1>12. HeldInSaves'
  BY <1>1, <1>6, <1>11 DEF HeldInSaves
<1>13. SavedSmall'
  <2>1. ASSUME NEW a \in SmallLive PROVE Below(a, snap)
    <3>1. /\ a.block \in 1 .. Len(blocks) /\ a.to <= blocks[a.block].head
          /\ a.from < a.to /\ a.from \in Nat /\ a.to \in Nat
      BY <1>11, PoolFacts DEF PoolInv, AllocationsDisjoint, SmallLive
    <3>2. ~(a.block > b)
      BY <1>3, <3>1 DEF EmptyBlock
    <3>3. CASE a.block = b
      BY <1>5, <3>1, <3>3 DEF Below
    <3>4. CASE a.block # b
      <4>1. a.block < b
        BY <1>3, <3>1, <3>2, <3>4, PoolFacts
      <4> QED
        BY <1>5, <4>1 DEF Below
    <3> QED
      BY <3>3, <3>4
  <2>2. ASSUME NEW k \in DOMAIN snapshots'
        PROVE  /\ snapshots'[k].block \in DOMAIN blocks
               /\ \A a \in SmallLive : a.depth < k => Below(a, snapshots'[k])
    <3>1. CASE k = l
      BY <1>3, <1>5, <1>6, <2>1, <3>1, PoolFacts
    <3>2. CASE k \in 1 .. Len(snapshots)
      BY <1>6, <3>2, PoolFacts DEF PoolInv, SavedSmall
    <3> QED
      BY <1>7, <3>1, <3>2
  <2> QED
    BY <1>1, <1>8, <2>2 DEF SavedSmall
<1>14. SavedLarge'
  <2>1. Older(l) = LargeLive
    BY <1>11 DEF Older, LargeLive
  <2>2. {a.from : a \in Older(l)} = 1 .. snap.large_last
    BY <1>5, <2>1 DEF PoolInv, LargeBlocksOwned
  <2>3. ASSUME NEW k \in DOMAIN snapshots'
        PROVE  {a.from : a \in Older(k)} = 1 .. snapshots'[k].large_last
    <3>1. CASE k = l
      BY <1>6, <2>2, <3>1
    <3>2. CASE k \in 1 .. Len(snapshots)
      BY <1>6, <3>2, PoolFacts DEF PoolInv, SavedLarge
    <3> QED
      BY <1>7, <3>1, <3>2
  <2>4. \A k : Older(k)' = Older(k)
    BY <1>8 DEF Older
  <2> QED
    BY <2>3, <2>4 DEF SavedLarge
<1> QED
  BY <1>9, <1>10, <1>12, <1>13, <1>14 DEF PoolInv

(* cpool_restore: what is still held lies below the saved position, and    *)
(* the large blocks that are kept are those that are still held. *)
LEMMA RestoreInv ==
    ASSUME PoolInv, Restore
    PROVE  PoolInv'
<1> DEFINE l == Len(snapshots)
           snap == snapshots[l]
           b == snap.block
<1>1. /\ snapshots # <<>>
      /\ snapshots' = SubSeq(snapshots, 1, l - 1)
      /\ blocks' = Rewound(b, snap) /\ current' = b /\ last' = Len(blocks)
      /\ large' = snap.large_last /\ large_last' = snap.large_last
      /\ live' = {a \in live : a.depth < l}
  BY DEF Restore, ChainEnd, LargeKept
<1>2. l \in Nat /\ l >= 1 /\ l \in DOMAIN snapshots /\ snap \in Snapshots
  BY <1>1, PoolFacts, SeqFacts
<1>3. /\ b \in 1 .. Len(blocks) /\ snap.head \in Nat /\ snap.large_last \in Nat
      /\ [head |-> snap.head, full |-> snap.full] \in Blocks
      /\ \A a \in SmallLive : a.depth < l => Below(a, snap)
      /\ {a.from : a \in Older(l)} = 1 .. snap.large_last
  <2>1. /\ snap.head \in Nat /\ snap.large_last \in Nat
        /\ [head |-> snap.head, full |-> snap.full] \in Blocks
    BY <1>2 DEF Snapshots, Blocks
  <2> QED
    BY <1>2, <2>1, PoolFacts DEF PoolInv, SavedSmall, SavedLarge
<1>4. /\ snapshots' \in Seq(Snapshots) /\ Len(snapshots') = l - 1
      /\ \A k \in 1 .. l - 1 : snapshots'[k] = snapshots[k]
  <2> DEFINE m == l - 1
  <2>1. m \in Int /\ 1 \in Int /\ m >= 0 /\ \A k \in 1 .. m : snapshots[k] \in Snapshots
    BY <1>2, PoolFacts, SeqFacts
  <2> HIDE DEF m
  <2>2. /\ SubSeq(snapshots, 1, m) \in Seq(Snapshots)
        /\ Len(SubSeq(snapshots, 1, m)) = IF 1 <= m THEN m - 1 + 1 ELSE 0
        /\ \A k \in 1 .. m - 1 + 1 : SubSeq(snapshots, 1, m)[k] = snapshots[1 + k - 1]
    BY <2>1, SubSeqProperties
  <2>3. Len(SubSeq(snapshots, 1, m)) = m
    BY <2>1, <2>2
  <2>4. ASSUME NEW k \in 1 .. m PROVE SubSeq(snapshots, 1, m)[k] = snapshots[k]
    <3>1. k \in 1 .. m - 1 + 1 /\ 1 + k - 1 = k
      BY <2>1
    <3> QED
      BY <2>2, <3>1
  <2> QED
    BY <1>1, <2>2, <2>3, <2>4 DEF m
<1>5. /\ DOMAIN snapshots' = 1 .. l - 1
      /\ \A k \in 1 .. l - 1 : k \in DOMAIN snapshots /\ k < l /\ k \in Nat
  BY <1>2, <1>4, PoolFacts, SeqFacts
<1> HIDE DEF l, snap, b
<1>6. /\ blocks' \in Seq(Blocks) /\ Len(blocks') = Len(blocks) /\ DOMAIN blocks' = 1 .. Len(blocks)
      /\ \A n \in 1 .. Len(blocks) : /\ n < b => blocks'[n] = blocks[n]
                                     /\ n > b => blocks'[n] = EmptyBlock
      /\ blocks'[b].head = snap.head
  <2>1. EmptyBlock \in Blocks
    BY DEF EmptyBlock, Blocks
  <2>2. blocks' = [n \in 1 .. Len(blocks) |->
                      CASE n < b -> blocks[n]
                        [] n = b -> [head |-> snap.head, full |-> snap.full]
                        [] n > b -> EmptyBlock]
    BY <1>1 DEF Rewound
  <2>3. \A n \in 1 .. Len(blocks) : /\ n < b => blocks'[n] = blocks[n]
                                    /\ n = b => blocks'[n] = [head |-> snap.head, full |-> snap.full]
                                    /\ n > b => blocks'[n] = EmptyBlock
    BY <1>3, <2>2, PoolFacts
  <2>4. ASSUME NEW n \in 1 .. Len(blocks) PROVE blocks'[n] \in Blocks
    <3>1. n < b \/ n = b \/ n > b
      BY <1>3, PoolFacts
    <3> QED
      BY <1>3, <2>1, <2>3, <3>1, PoolFacts
  <2>5. DOMAIN blocks' = 1 .. Len(blocks) /\ blocks' = [n \in 1 .. Len(blocks) |-> blocks'[n]]
    <3> DEFINE e(n) == CASE n < b -> blocks[n]
                         [] n = b -> [head |-> snap.head, full |-> snap.full]
                         [] n > b -> EmptyBlock
    <3>1. blocks' = [n \in 1 .. Len(blocks) |-> e(n)]
      BY <2>2
    <3> HIDE DEF e
    <3> QED
      BY <3>1
  <2>6. blocks' \in Seq(Blocks) /\ Len(blocks') = Len(blocks)
    BY <2>4, <2>5, PoolFacts
  <2>7. blocks'[b] = [head |-> snap.head, full |-> snap.full]
    BY <1>3, <2>3
  <2>8. blocks'[b].head = snap.head
    BY <2>7
  <2> QED
    BY <2>3, <2>5, <2>6, <2>8
<1>7. /\ SmallLive' = {a \in SmallLive : a.depth < l}
      /\ LargeLive' = Older(l)
  BY <1>1 DEF SmallLive, LargeLive, Older
<1>8. \A a \in live : a.depth \in Nat /\ a.to \in Nat
  BY PoolFacts DEF Allocations
<1>9. TypeOK'
  <2>1. blocks' # <<>> /\ current' \in 0 .. Len(blocks') /\ last' \in 1 .. Len(blocks')
    BY <1>1, <1>3, <1>6, PoolFacts, EmptySeq
  <2>2. large' \in Nat /\ large_last' \in 0 .. large'
    BY <1>1, <1>3
  <2>3. snapshots' \in Seq([head : Nat, full : BOOLEAN, block : Nat, last : Nat, large_last : Nat])
    BY <1>4 DEF Snapshots
  <2>4. live' \subseteq [block : Nat, from : Nat, to : Nat, depth : Nat]
    BY <1>1, PoolFacts DEF Allocations
  <2> QED
    BY <1>6, <2>1, <2>2, <2>3, <2>4 DEF TypeOK
<1>10. AllocationsDisjoint'
  <2>1. ASSUME NEW a \in SmallLive'
        PROVE  a.block \in DOMAIN blocks' /\ a.to <= BlockSize /\ a.to <= blocks'[a.block].head
    <3>1. /\ a \in SmallLive /\ Below(a, snap) /\ a.block \in 1 .. Len(blocks)
          /\ a.to <= BlockSize /\ a.to <= blocks[a.block].head
      BY <1>3, <1>7, PoolFacts DEF PoolInv, AllocationsDisjoint
    <3>2. \/ a.block < b
          \/ a.block = b /\ a.to <= snap.head
      BY <3>1 DEF Below, b
    <3>3. CASE a.block < b
      BY <1>6, <3>1, <3>3
    <3>4. CASE a.block = b /\ a.to <= snap.head
      BY <1>6, <3>1, <3>4
    <3> QED
      BY <3>2, <3>3, <3>4
  <2> QED
    BY <1>7, <2>1 DEF PoolInv, AllocationsDisjoint
<1>11. EmptyAhead' /\ LastIsEnd'
  BY <1>1, <1>3, <1>6, PoolFacts DEF EmptyAhead, LastIsEnd
<1>12. LargeBlocksOwned'
  BY <1>1, <1>3, <1>7 DEF LargeBlocksOwned
<1>13. HeldInSaves'
  BY <1>1, <1>2, <1>4, <1>8 DEF PoolInv, HeldInSaves
<1>14. SavedSmall'
  BY <1>4, <1>5, <1>6, <1>7, PoolFacts DEF PoolInv, SavedSmall
<1>15. SavedLarge'
  <2>1. ASSUME NEW k \in 1 .. l - 1 PROVE Older(k)' = Older(k)
    <3>1. \A a \in live : a.depth < k => a.depth < l
      BY <1>2, <1>5, <1>8
    <3> QED
      BY <1>7, <3>1 DEF Older, LargeLive
  <2> QED
    BY <1>4, <1>5, <2>1 DEF PoolInv, SavedLarge
<1> QED
  BY <1>9, <1>10, <1>11, <1>12, <1>13, <1>14, <1>15 DEF PoolInv

LEMMA ResetInv ==
    ASSUME PoolInv, Reset
    PROVE  PoolInv' /\ Len(blocks') = Len(blocks)
<1>1. /\ blocks' = [n \in 1 .. Len(blocks) |-> EmptyBlock]
      /\ current' = 1 /\ last' = Len(blocks) /\ large' = 0 /\ large_last' = 0
      /\ snapshots' = <<>> /\ live' = {}
  BY DEF Reset
<1>2. EmptyBlock \in Blocks
  BY DEF EmptyBlock, Blocks
<1>3. blocks' \in Seq(Blocks) /\ Len(blocks') = Len(blocks)
  BY <1>1, <1>2, PoolFacts
<1>4. TypeOK'
  <2>1. blocks' # <<>> /\ current' \in 0 .. Len(blocks') /\ last' \in 1 .. Len(blocks')
    BY <1>1, <1>3, PoolFacts, EmptySeq
  <2> QED
    BY <1>1, <1>3, <2>1 DEF TypeOK
<1>5. EmptyAhead' /\ LastIsEnd'
  BY <1>1, <1>3 DEF EmptyAhead, LastIsEnd
<1>6. SmallLive' = {} /\ LargeLive' = {}
  BY <1>1 DEF SmallLive, LargeLive
<1>7. AllocationsDisjoint' /\ LargeBlocksOwned' /\ HeldInSaves'
  BY <1>1, <1>6 DEF AllocationsDisjoint, LargeBlocksOwned, HeldInSaves
<1>8. SavedSmall' /\ SavedLarge'
  BY <1>1 DEF SavedSmall, SavedLarge
<1> QED
  BY <1>3, <1>4, <1>5, <1>7, <1>8 DEF PoolInv

-----------------------------------------------------------------------------
LEMMA NextInv == PoolInv /\ [Next]_vars => PoolInv'
<1> SUFFICES ASSUME PoolInv, [Next]_vars PROVE PoolInv'
  OBVIOUS
<1>1. CASE UNCHANGED vars
  <2>1. UNCHANGED <<blocks, current, last, large, large_last, snapshots, live>>
    BY <1>1 DEF vars, poolVars
  <2>2. EmptyAhead'
    BY <2>1 DEF PoolInv, EmptyAhead
  <2>3. current \in 0 .. Len(blocks) /\ last = Len(blocks)
    BY DEF PoolInv, TypeOK, LastIsEnd
  <2> QED
    BY <2>1, <2>2, <2>3, PoolFacts, HeadsGoUp
<1> QED
  BY <1>1, AllocInv, AllocLargeInv, AlignInv, AlignFreshInv, SaveInv, RestoreInv, ResetInv
    DEF Next

(* The invariant, and with it the properties, for every use of the pool. *)
THEOREM PoolInvariant == Spec => []PoolInv
BY InitInv, NextInv, PTL DEF Spec

(* The chain, the positions in it and the snapshots keep their types. *)
THEOREM PoolTypes == Spec => []TypeOK
<1>1. PoolInv => TypeOK
  BY DEF PoolInv
<1> QED
  BY <1>1, PoolInvariant, PTL

(* palloc never hands out bytes that somebody holds, or bytes outside of a *)
(* block, whatever was saved, restored, reset and aligned before. *)
THEOREM HeldBytesDisjoint == Spec => []AllocationsDisjoint
<1>1. PoolInv => AllocationsDisjoint
  BY DEF PoolInv
<1> QED
  BY <1>1, PoolInvariant, PTL

(* cpool_restore frees the large blocks that were allocated since the save *)
(* and no others. *)
THEOREM LargeBlocksKept == Spec => []LargeBlocksOwned
<1>1. PoolInv => LargeBlocksOwned
  BY DEF PoolInv
<1> QED
  BY <1>1, PoolInvariant, PTL

(* The block that palloc moves on to without looking is empty. *)
THEOREM NextBlockEmpty == Spec => []EmptyAhead
<1>1. PoolInv => EmptyAhead
  BY DEF PoolInv
<1> QED
  BY <1>1, PoolInvariant, PTL

(* No step of the pool drops a block off the chain. *)
THEOREM NoBlockDropped == Spec => ChainKept
<1>1. PoolInv /\ [Next]_vars => [Len(blocks') >= Len(blocks)]_vars
  <2> SUFFICES ASSUME PoolInv, Next PROVE Len(blocks') >= Len(blocks)
    OBVIOUS
  <2>1. Len(blocks) \in Nat /\ blocks \in Seq(Blocks) /\ DOMAIN blocks = 1 .. Len(blocks)
    BY PoolFacts
  <2>2. /\ Appended \in Seq(Blocks) /\ Len(Appended) = Len(blocks) + 1
        /\ DOMAIN Appended = 1 .. Len(Appended)
    BY AppendedChain, SeqFacts
  <2>3. ASSUME NEW chain \in Seq(Blocks), NEW b, NEW y PROVE Len([chain EXCEPT ![b] = y]) = Len(chain)
    BY LenProperties
  <2>4. ASSUME NEW size \in Sizes, AllocHere(size) \/ AllocNext(size) \/ AllocAppend(size)
        PROVE  Len(blocks') >= Len(blocks)
    BY <2>1, <2>2, <2>3, <2>4 DEF AllocHere, AllocNext, AllocAppend, Carve
  <2>5. ASSUME NEW align \in Alignments, AlignHere(align) \/ AlignOver(align)
        PROVE  Len(blocks') >= Len(blocks)
    BY <2>1, <2>2, <2>3, <2>5 DEF AlignHere, AlignOver
  <2>6. CASE Restore
    <3>1. Len([n \in 1 .. Len(blocks) |-> blocks'[n]]) = Len(blocks)
      BY <2>1
    <3> QED
      BY <2>1, <2>6, <3>1 DEF Restore, Rewound
  <2>7. CASE AlignFresh
    BY <2>1, <2>2, <2>7 DEF AlignFresh
  <2>8. CASE Save \/ \E size \in Sizes : AllocLarge(size)
    BY <2>1, <2>8 DEF Save, AllocLarge
  <2>9. CASE Reset
    BY <2>1, <2>9, ResetInv
  <2> QED
    BY <2>4, <2>5, <2>6, <2>7, <2>8, <2>9 DEF Next
<1> QED
  BY <1>1, PoolInvariant, PTL DEF Spec, ChainKept
=============================================================================
