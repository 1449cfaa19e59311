------------------------------- MODULE CPool -------------------------------
(***************************************************************************)
(* The memory pool of include/cpool.h, as one thread uses its own.         *)
(*                                                                         *)
(* Small allocations are cut off a chain of blocks, of which current is    *)
(* the one in use; allocations larger than a block are kept in a list of   *)
(* their own.  cpool_save and cpool_restore bracket the allocations of a   *)
(* request (workers.c:27,54) or of a line of a file (config.c, routing.c): *)
(* restoring gives back what was allocated since the matching save.        *)
(*                                                                         *)
(* Pointers are positions: a block is its place in the chain, a large      *)
(* block its place in the list, 0 is NULL.  live is not in the program: it *)
(* is what the callers hold, each allocation with the number of saves that *)
(* were open when it was made.                                             *)
(***************************************************************************)
EXTENDS Integers, Sequences

CONSTANTS BlockSize,     \* block_size: 4096 in main, 1024 in a worker
          Sizes,         \* the sizes that are asked for
          Alignments,    \* the arguments of cpool_align: powers of two
          MaxSaveDepth,  \* CPOOL_MAX_SAVE_DEPTH: 8
          MaxBlocks,     \* malloc gives this many blocks at most ...
          MaxLarge       \* ... and this many large blocks

ASSUME PoolAssumption ==
    /\ BlockSize \in Nat \ {0}
    /\ Sizes \subseteq Nat \ {0}
    /\ Alignments \subseteq Nat \ {0}
    /\ MaxSaveDepth \in Nat
    /\ MaxBlocks \in Nat \ {0}
    /\ MaxLarge \in Nat

VARIABLES blocks,     \* the chain from root on: head and full of each block
          current,    \* the block in use
          last,       \* where __append_block appends
          large,      \* the length of the list of large blocks
          large_last, \* where __alloc_large_block appends
          snapshots,  \* the open saves, innermost last
          live        \* the allocations that the callers hold

poolVars == <<blocks, current, last, large, large_last, snapshots>>
vars == <<poolVars, live>>

EmptyBlock == [head |-> 0, full |-> FALSE]

(* cpool_init. *)
Init == /\ blocks = <<EmptyBlock>>
        /\ current = 1
        /\ last = 1
        /\ large = 0
        /\ large_last = 0
        /\ snapshots = <<>>
        /\ live = {}

-----------------------------------------------------------------------------
(* Mutated forms: each is an operation below with one mistake in it, kept  *)
(* to show that the properties can tell the difference.  No specification  *)
(* uses them.                                                              *)

(* cpool_restore resets no block behind the restored one. *)
RewoundOne(b, snap) == [blocks EXCEPT ![b] = [head |-> snap.head, full |-> snap.full]]

(* cpool_restore without its last loop. *)
TailForgotten(from) == from

(* cpool_restore that forgets large_last. *)
LargeForgotten(snap) == large_last

(* cpool_save that falls back on root. *)
SavedBlockRoot == IF current # 0 THEN current ELSE 1

(* The block behind the end of the chain is not NULL. *)
FollowingPast(chain, b) == b + 1

-----------------------------------------------------------------------------
(* The block behind b, if the chain goes on. *)
Following(chain, b) == IF b < Len(chain) THEN b + 1 ELSE 0

(* __append_block: behind last, cutting off what was behind it. *)
Appended == Append(SubSeq(blocks, 1, last), EmptyBlock)

Allocation(b, from, size) ==
    [block |-> b, from |-> from, to |-> from + size, depth |-> Len(snapshots)]

Fits(size) == current # 0 /\ blocks[current].head + size <= BlockSize

(* palloc, once it has settled on block b of the chain. *)
Carve(chain, b, size) ==
    LET end == chain[b].head + size
    IN  /\ blocks' = [chain EXCEPT ![b] = [head |-> end,
                                           full |-> @.full \/ end = BlockSize]]
        /\ current' = IF end = BlockSize THEN Following(chain, b) ELSE b
        /\ live' = live \cup {Allocation(b, chain[b].head, size)}
        /\ UNCHANGED <<large, large_last, snapshots>>

(* palloc in the block in use, ... *)
AllocHere(size) == /\ size <= BlockSize
                   /\ Fits(size)
                   /\ Carve(blocks, current, size)
                   /\ UNCHANGED last

(* ... in the one behind it, left over from before a restore, ... *)
AllocNext(size) == /\ size <= BlockSize
                   /\ ~Fits(size)
                   /\ current # 0
                   /\ Following(blocks, current) # 0
                   /\ Carve(blocks, Following(blocks, current), size)
                   /\ UNCHANGED last

(* ... or in a new one.  When malloc fails palloc changes nothing. *)
AllocAppend(size) == /\ size <= BlockSize
                     /\ ~Fits(size)
                     /\ current # 0 => Following(blocks, current) = 0
                     /\ last < MaxBlocks
                     /\ Carve(Appended, last + 1, size)
                     /\ last' = last + 1

(* __alloc_large_block. *)
AllocLarge(size) == /\ size > BlockSize
                    /\ large_last < MaxLarge
                    /\ large' = large_last + 1
                    /\ large_last' = large_last + 1
                    /\ live' = live \cup {Allocation(0, large_last + 1, 1)}
                    /\ UNCHANGED <<blocks, current, last, snapshots>>

-----------------------------------------------------------------------------
RoundUp(n, align) == ((n + align - 1) \div align) * align

(* cpool_align, when there is a block in use and it stays in it, ... *)
AlignHere(align) ==
    LET h == RoundUp(blocks[current].head, align)
    IN  /\ current # 0
        /\ h < BlockSize
        /\ blocks' = [blocks EXCEPT ![current].head = h]
        /\ UNCHANGED <<current, last, large, large_last, snapshots, live>>

(* ... when that fills the block up, and a new one is appended even if the *)
(* chain goes on, ... *)
AlignOver(align) ==
    LET h == RoundUp(blocks[current].head, align)
    IN  /\ current # 0
        /\ h >= BlockSize
        /\ blocks' = IF last < MaxBlocks
                     THEN [Appended EXCEPT ![current] = [head |-> h, full |-> TRUE]]
                     ELSE [blocks EXCEPT ![current] = [head |-> h, full |-> TRUE]]
        /\ last' = IF last < MaxBlocks THEN last + 1 ELSE last
        /\ current' = IF last < MaxBlocks THEN last + 1 ELSE current
        /\ UNCHANGED <<large, large_last, snapshots, live>>

(* ... and when there is no block in use. *)
AlignFresh == /\ current = 0
              /\ last < MaxBlocks
              /\ blocks' = Appended
              /\ last' = last + 1
              /\ current' = last + 1
              /\ UNCHANGED <<large, large_last, snapshots, live>>

-----------------------------------------------------------------------------
(* The block whose head and full a snapshot keeps. *)
SavedBlock == IF current # 0 THEN current ELSE last

(* cpool_save. *)
Save == /\ Len(snapshots) < MaxSaveDepth
        /\ snapshots' = Append(snapshots,
                               [head |-> blocks[SavedBlock].head,
                                full |-> blocks[SavedBlock].full,
                                block |-> SavedBlock,
                                last |-> last,
                                large_last |-> large_last])
        /\ UNCHANGED <<blocks, current, last, large, large_last, live>>

(* The chain after a restore: block b as it was saved, empty behind it. *)
Rewound(b, snap) == [n \in 1 .. Len(blocks) |->
                        CASE n < b -> blocks[n]
                          [] n = b -> [head |-> snap.head, full |-> snap.full]
                          [] n > b -> EmptyBlock]

(* last is found again by walking from the saved last to the end. *)
ChainEnd(from) == Len(blocks)

LargeKept(snap) == snap.large_last

(* cpool_restore: the caller gives up what it allocated since the save. *)
Restore == LET snap == snapshots[Len(snapshots)]
           IN  /\ snapshots # <<>>
               /\ snapshots' = SubSeq(snapshots, 1, Len(snapshots) - 1)
               /\ blocks' = Rewound(snap.block, snap)
               /\ current' = snap.block
               /\ last' = ChainEnd(snap.last)
               /\ large' = snap.large_last
               /\ large_last' = LargeKept(snap)
               /\ live' = {a \in live : a.depth < Len(snapshots)}

(* cpool_reset: the caller gives up everything. *)
Reset == /\ blocks' = [n \in 1 .. Len(blocks) |-> EmptyBlock]
         /\ current' = 1
         /\ last' = Len(blocks)
         /\ large' = 0
         /\ large_last' = 0
         /\ snapshots' = <<>>
         /\ live' = {}

-----------------------------------------------------------------------------
Next == \/ \E size \in Sizes : \/ AllocHere(size)
                               \/ AllocNext(size)
                               \/ AllocAppend(size)
                               \/ AllocLarge(size)
        \/ \E align \in Alignments : AlignHere(align) \/ AlignOver(align)
        \/ AlignFresh
        \/ Save
        \/ Restore
        \/ Reset

Spec == Init /\ [][Next]_vars

-----------------------------------------------------------------------------
(* Properties.                                                             *)

Blocks == [head : Nat, full : BOOLEAN]

(* The chain, the positions in it and the snapshots have the types of      *)
(* struct __cpool.                                                         *)
TypeOK == /\ blocks \in Seq(Blocks) /\ blocks # <<>>
          /\ current \in 0 .. Len(blocks)
          /\ last \in 1 .. Len(blocks)
          /\ large \in Nat
          /\ large_last \in 0 .. large
          /\ snapshots \in Seq([head : Nat, full : BOOLEAN, block : Nat,
                                last : Nat, large_last : Nat])
          /\ live \subseteq [block : Nat, from : Nat, to : Nat, depth : Nat]

SmallLive == {a \in live : a.block # 0}
LargeLive == {a \in live : a.block = 0}

(* What the callers hold is inside its block, below its head, and no two   *)
(* of them overlap, whatever was saved, restored and aligned in between.   *)
AllocationsDisjoint ==
    /\ \A a \in SmallLive : /\ a.block \in DOMAIN blocks
                            /\ a.to <= BlockSize
                            /\ a.to <= blocks[a.block].head
    /\ \A a, b \in SmallLive :
          a # b /\ a.block = b.block => a.to <= b.from \/ b.to <= a.from

(* The list of large blocks holds what the callers hold: none is freed too *)
(* early, and none is left behind.                                         *)
LargeBlocksOwned == /\ {a.from : a \in LargeLive} = 1 .. large
                    /\ large_last = large

(* palloc moves on to the block behind the current one without looking at  *)
(* its head (cpool.h:175-180): the blocks behind are empty.                *)
EmptyAhead == \A n \in 1 .. Len(blocks) :
                 (current # 0 /\ n > current) => blocks[n] = EmptyBlock

(* No block drops off the chain: each is there for cpool_uninit to free.   *)
ChainKept == [][Len(blocks') >= Len(blocks)]_vars
=============================================================================
