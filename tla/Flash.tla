------------------------------- MODULE Flash -------------------------------
(***************************************************************************)
(* flash/flash_manager.c on flash/block/blocks/mtd: erase, write and read  *)
(* of a flash whose partitions (mtd devices) are arrays of erase blocks,   *)
(* some bad when they leave the factory, some going bad in use.  One call  *)
(* runs at a time (mutex_lock); a step is what a loop does to one page or  *)
(* block.  Addresses and lengths are counted in pages.                     *)
(*                                                                         *)
(* The data written is 1, 2, .. length: a page holds the place its content *)
(* has in the buffer of the last write, Old for anything else written, or  *)
(* Erased.  Left out: failures of libmtd while init opens the         *)
(* devices, init and deinit during a call, results beyond 2^31 (which the  *)
(* int retval of mtd_block_* cuts off).                                    *)
(***************************************************************************)
EXTENDS Integers, Sequences, FiniteSets, FiniteSetsExt

CONSTANTS
  EbSize,       (* pages of an erase block                                 *)
  Partitions,   (* the sizes of the partitions in blocks, a sequence       *)
  Ranges,       (* bound: the ranges calls are made with, <<offset, length>>*)
  MaxBad        (* bound: bad blocks                                       *)

ASSUME FlashAssumption ==
  /\ EbSize \in Nat \ {0} /\ MaxBad \in Nat /\ Ranges \subseteq Nat \X (Nat \ {0})
  /\ Partitions \in Seq(Nat \ {0}) /\ Partitions # <<>>

Part == 1 .. Len(Partitions)
EbCnt(p) == Partitions[p]
Size(p) == EbCnt(p) * EbSize

(* Where a partition ends, and with it where the next begins.              *)
Ends ==
  LET ends[n \in 0 .. Len(Partitions)] == IF n = 0 THEN 0 ELSE ends[n - 1] + Size(n)
  IN  ends
Start(p) == Ends[p - 1]
Capacity == Ends[Len(Partitions)]
Eb(o) == o \div EbSize
Erased == 0
Old == -1

VARIABLES
  initCalled, blkMgr,    (* init_called; is blk_mgr set?                   *)
  blockLock,             (* mtd_block_lock is held: from init to exit      *)
  opened,                (* the partitions whose fd is not 0               *)
  nand,                  (* NAND or NOR?                                   *)
  bad, flashPage,        (* the device: bad blocks, contents               *)
  call,                  (* the call that runs, or "none"                  *)
  part, from, length,    (* its partition, first page and length           *)
  off, rest,             (* the cursor in the partition and what is left   *)
  blockstart,            (* the block found good when entered, or -1       *)
  got,                   (* the buffer read into                           *)
  result,                (* the last call and what it returned             *)
  erasedNow,             (* the blocks the last erase erased               *)
  wrote,                 (* the range of the last write, until the flash   *)
                         (* changes again                                  *)
  fresh, lossless        (* was every page of it programmed when erased;   *)
                         (* did no block go bad on the way?                *)

deviceVars == <<bad, flashPage>>
callVars == <<part, from, length>>
openVars == <<initCalled, blkMgr, blockLock, nand>>
ghostVars == <<erasedNow, wrote, fresh, lossless>>
flashVars == <<openVars, opened, deviceVars, call, callVars, off, rest, blockstart,
               got, result, ghostVars>>

Idle == call = "none"

-----------------------------------------------------------------------------
(* flash_init: a second call ruins what the first one made.  The first     *)
(* waits for mtd_block_lock, which only mtd_block_exit gives back.         *)
InitFlash ==
  /\ Idle
  /\ \/ /\ initCalled > 0
        /\ blkMgr' = FALSE
        /\ UNCHANGED <<initCalled, blockLock, opened>>
     \/ /\ initCalled = 0
        /\ ~blockLock
        /\ blockLock' = TRUE /\ blkMgr' = TRUE /\ opened' = Part /\ initCalled' = 1
  /\ UNCHANGED <<nand, deviceVars, call, callVars, off, rest, blockstart, got, result, ghostVars>>

(* flash_deinit: mtd_manager_destroy does nothing without a manager. *)
DeinitFlash ==
  /\ Idle
  /\ initCalled > 0
  /\ initCalled' = initCalled - 1
  /\ blkMgr' = FALSE
  /\ IF blkMgr THEN blockLock' = FALSE /\ opened' = {} ELSE UNCHANGED <<blockLock, opened>>
  /\ UNCHANGED <<nand, deviceVars, call, callVars, off, rest, blockstart, got, result, ghostVars>>

NoResult == [call |-> "none", ok |-> TRUE]

(* What earlier writes left is old when the flash is to be changed again. *)
Forget ==
  /\ flashPage' = [p \in Part |-> [i \in DOMAIN flashPage[p] |->
                     IF flashPage[p][i] = Erased THEN Erased ELSE Old]]
  /\ wrote' = <<>>

(* mtd_get_dev_info_by_offset *)
PartOf(o) == CHOOSE p \in Part : Start(p) <= o /\ o < Ends[p]

(* A call begins: the assertions of flash_manager.c (blk_mgr is            *)
(* dereferenced: without it the program dies) and set_params.              *)
Begin(o, n) ==
  /\ Idle
  /\ initCalled > 0 /\ blkMgr
  /\ o + n <= Capacity
  /\ part' = PartOf(o) /\ from' = o /\ length' = n
  /\ result' = NoResult /\ got' = <<>> /\ erasedNow' = {}
  /\ UNCHANGED <<openVars, bad>>

(* A call returns; one that fails at the device closes the fd (closeall).  *)
Return(ok) ==
  /\ call' = "none"
  /\ result' = [call |-> call, ok |-> ok]
  /\ off' = 0 /\ rest' = 0 /\ blockstart' = -1
  /\ UNCHANGED <<openVars, callVars, deviceVars, got>>
Closeall ==
  /\ Return(FALSE)
  /\ opened' = opened \ {part}
  /\ UNCHANGED ghostVars

(* Erasing and writing beyond the end of the partition is refused.         *)
Fits(o, n) == o + n <= Ends[PartOf(o)]
Refuse(o, n) ==
  /\ Begin(o, n)
  /\ ~Fits(o, n)
  /\ opened' = opened \ {PartOf(o)}
  /\ UNCHANGED <<flashPage, call, off, rest, blockstart, wrote, fresh, lossless>>

(* mtd_is_bad, mtd_mark_bad *)
IsBad == nand /\ Eb(off) \in bad[part]
MarkBad == bad' = [bad EXCEPT ![part] = @ \cup {Eb(off)}]
MayGoBad == nand /\ FoldSet(LAMBDA p, n : n + Cardinality(bad[p]), 0, Part) < MaxBad
NextBlock == off' = (Eb(off) + 1) * EbSize

(* The loops run while something is left and the partition has not ended.  *)
Running(c) == call = c /\ rest > 0 /\ off < Size(part)
Going(c) == Running(c) /\ part \in opened
SameCall == UNCHANGED <<openVars, opened, callVars>>

(* Any access may fail with another error than EIO; on fd 0, which is no   *)
(* mtd device, every one does.                                             *)
AccessFails == \E c \in {"erase", "write", "read"} : Running(c) /\ Closeall

-----------------------------------------------------------------------------
(* mtd_basic_erase *)

BeginErase(o, n) ==
  /\ Begin(o, n)
  /\ Fits(o, n)
  /\ LET rel == o - Start(PartOf(o))
     IN  /\ off' = Eb(rel) * EbSize
         /\ rest' = Eb(rel + n + EbSize - 1) * EbSize - off'
  /\ call' = "erase"
  /\ Forget /\ fresh' = FALSE /\ lossless' = FALSE
  /\ UNCHANGED <<opened, blockstart>>

(* Mutant: a bad block counts as erased. *)
EraseSkipCounts ==
  /\ Going("erase") /\ IsBad
  /\ rest' = rest - EbSize
  /\ NextBlock
  /\ SameCall /\ UNCHANGED <<deviceVars, call, blockstart, got, result, ghostVars>>

(* A bad block is passed: what is left is erased behind it. *)
EraseSkip ==
  /\ Going("erase") /\ IsBad
  /\ NextBlock
  /\ SameCall /\ UNCHANGED <<deviceVars, call, rest, blockstart, got, result, ghostVars>>

EraseBlock ==
  /\ Going("erase") /\ ~IsBad
  /\ flashPage' = [flashPage EXCEPT ![part] =
                     [o \in DOMAIN @ |-> IF Eb(o) = Eb(off) THEN Erased ELSE @[o]]]
  /\ erasedNow' = erasedNow \cup {Eb(off)}
  /\ rest' = rest - EbSize
  /\ NextBlock
  /\ SameCall /\ UNCHANGED <<bad, call, blockstart, got, result, wrote, fresh, lossless>>

(* EIO: the block has gone bad. *)
EraseEIO ==
  /\ Going("erase") /\ ~IsBad /\ MayGoBad
  /\ MarkBad
  /\ NextBlock
  /\ SameCall /\ UNCHANGED <<flashPage, call, rest, blockstart, got, result, ghostVars>>

(* The sum of the blocks erased and passed is the distance gone, which     *)
(* at the end of the partition is never less than what was asked: the      *)
(* call has succeeded however many blocks are left.                        *)
EraseEnds ==
  /\ call = "erase" /\ ~Running("erase")
  /\ Return(Start(part) + off >= from + length)
  /\ UNCHANGED <<opened, ghostVars>>

-----------------------------------------------------------------------------
(* mtd_basic_write *)

BeginWrite(o, n) ==
  /\ Begin(o, n)
  /\ Fits(o, n)
  /\ off' = o - Start(PartOf(o)) /\ rest' = n /\ blockstart' = -1
  /\ call' = "write"
  /\ Forget /\ fresh' = TRUE /\ lossless' = TRUE
  /\ UNCHANGED opened

(* A block is entered; behind a bad one the partition may end.             *)
Entering == blockstart # Eb(off)
Enter(c) ==
  /\ Going(c) /\ Entering
  /\ \/ /\ ~IsBad
        /\ blockstart' = Eb(off)
        /\ UNCHANGED <<off, call, result, opened>>
     \/ /\ IsBad
        /\ NextBlock
        /\ off' < Size(part)
        /\ UNCHANGED <<blockstart, call, result, opened>>
  /\ UNCHANGED <<openVars, callVars, deviceVars, rest, got, ghostVars>>
Overflow(c) ==
  /\ Going(c) /\ Entering /\ IsBad
  /\ (Eb(off) + 1) * EbSize >= Size(part)
  /\ Closeall

(* A page is programmed with the next of the buffer.                       *)
WritePage ==
  /\ Going("write") /\ ~Entering
  /\ LET erased == flashPage[part][off] = Erased
     IN  /\ flashPage' = [flashPage EXCEPT ![part][off] =
                            IF erased THEN length - rest + 1 ELSE Old]
         /\ fresh' = (fresh /\ erased)
  /\ off' = off + 1 /\ rest' = rest - 1
  /\ SameCall /\ UNCHANGED <<bad, call, blockstart, got, result, erasedNow, wrote, lossless>>

(* EIO: the block is erased if that still works (nobody will read it) and  *)
(* marked bad, and the write goes on in the next one with the rest.  On a  *)
(* NOR flash this is the end of the call.                                  *)
WriteEIO ==
  /\ Going("write") /\ ~Entering /\ MayGoBad
  /\ MarkBad
  /\ NextBlock
  /\ lossless' = FALSE
  /\ SameCall
  /\ UNCHANGED <<flashPage, call, rest, blockstart, got, result, erasedNow, wrote, fresh>>

(* The loop has ended, at the end of the partition too. *)
WriteEnds ==
  /\ call = "write" /\ ~Running("write")
  /\ Return(TRUE)
  /\ wrote' = <<from, length>>
  /\ UNCHANGED <<opened, erasedNow, fresh, lossless>>

-----------------------------------------------------------------------------
(* mtd_basic_read *)

BeginRead(o, n) ==
  /\ Begin(o, n)
  /\ off' = o - Start(PartOf(o)) /\ rest' = n /\ blockstart' = -1
  /\ call' = "read"
  /\ UNCHANGED <<opened, flashPage, wrote, fresh, lossless>>

(* Mutant: the rest is read at once. *)
ReadBlockOn ==
  /\ Going("read") /\ ~Entering
  /\ LET n == Min({rest, Size(part) - off})
     IN  /\ got' = got \o [i \in 1 .. n |-> flashPage[part][off + i - 1]]
         /\ off' = off + n /\ rest' = rest - n
  /\ SameCall /\ UNCHANGED <<deviceVars, call, blockstart, result, ghostVars>>

(* As much as there is in the block. *)
ReadBlock ==
  /\ Going("read") /\ ~Entering
  /\ LET n == Min({rest, (Eb(off) + 1) * EbSize - off})
     IN  /\ got' = got \o [i \in 1 .. n |-> flashPage[part][off + i - 1]]
         /\ off' = off + n /\ rest' = rest - n
  /\ SameCall /\ UNCHANGED <<deviceVars, call, blockstart, result, ghostVars>>

ReadEnds ==
  /\ call = "read" /\ ~Running("read")
  /\ Return(Start(part) + off >= from + length)
  /\ UNCHANGED <<opened, ghostVars>>

-----------------------------------------------------------------------------
FlashInit ==
  /\ initCalled = 0 /\ blkMgr = FALSE /\ blockLock = FALSE /\ opened = {}
  /\ nand \in BOOLEAN
  /\ bad \in [Part -> SUBSET (0 .. Capacity \div EbSize - 1)]
  /\ \A p \in Part : bad[p] \subseteq 0 .. EbCnt(p) - 1 /\ (~nand => bad[p] = {})
  /\ FoldSet(LAMBDA p, n : n + Cardinality(bad[p]), 0, Part) <= MaxBad
  /\ flashPage = [p \in Part |-> [o \in 0 .. Size(p) - 1 |-> Old]]
  /\ call = "none" /\ part = 1 /\ from = 0 /\ length = 0 /\ off = 0 /\ rest = 0
  /\ blockstart = -1 /\ got = <<>> /\ result = NoResult
  /\ erasedNow = {} /\ wrote = <<>> /\ fresh = FALSE /\ lossless = FALSE

(* What the loop of the running call does next. *)
FlashStep ==
  \/ AccessFails
  \/ EraseSkip \/ EraseBlock \/ EraseEIO \/ EraseEnds
  \/ \E c \in {"write", "read"} : Enter(c) \/ Overflow(c)
  \/ WritePage \/ WriteEIO \/ WriteEnds
  \/ ReadBlock \/ ReadEnds

FlashNext ==
  \/ InitFlash \/ DeinitFlash
  \/ \E r \in Ranges :
       \/ BeginErase(r[1], r[2]) \/ BeginWrite(r[1], r[2]) \/ BeginRead(r[1], r[2])
       \/ Refuse(r[1], r[2])
  \/ FlashStep

FlashSpec == FlashInit /\ [][FlashNext]_flashVars
-----------------------------------------------------------------------------
(* Properties *)

FlashTypeOK ==
  /\ initCalled \in 0 .. 1 /\ blkMgr \in BOOLEAN /\ blockLock \in BOOLEAN
  /\ opened \subseteq Part /\ part \in Part
  /\ \A p \in Part : bad[p] \subseteq 0 .. EbCnt(p) - 1
  /\ call \in {"none", "erase", "write", "read"}
  /\ from \in 0 .. Capacity - 1 /\ length \in 0 .. Capacity
  /\ off \in 0 .. Size(part) /\ rest \in 0 .. Size(part) \cup 0 .. length
  /\ blockstart \in -1 .. EbCnt(part) - 1

Succeeded(c) == Idle /\ result = [call |-> c, ok |-> TRUE]

(* A read of the range written last finds the data in the order of the     *)
(* buffer, when the pages were erased before and no block was lost under   *)
(* way, whatever blocks both had to pass; and if some of it is missing at  *)
(* the end, a bad block is the reason.                                     *)
ReadsBack ==
  Succeeded("read") /\ wrote = <<from, length>> /\ fresh /\ lossless =>
    /\ got = [i \in 1 .. Len(got) |-> i]
    /\ Len(got) < length => \E b \in bad[part] : b >= Eb(from - Start(part))

(* A successful erase has erased, from the block it was asked to begin     *)
(* with, as many good blocks as were asked, or all there are, and none     *)
(* other: those that bad blocks push out lie behind the range asked for.   *)
ErasesExactly ==
  Succeeded("erase") =>
    LET first == Eb(from - Start(part))
        asked == Eb(from - Start(part) + length + EbSize - 1) - first
        good  == first .. EbCnt(part) - 1 \ bad[part]
    IN  /\ erasedNow \subseteq good
        /\ \A b \in good \ erasedNow, e \in erasedNow : e < b
        /\ Cardinality(erasedNow) = Min({asked, Cardinality(good)})

(* flash_manager.h: write returns "the number of bytes written".  What a   *)
(* write that succeeded left in good blocks is the whole buffer.           *)
Kept == {flashPage[part][o] : o \in {i \in 0 .. Size(part) - 1 : Eb(i) \notin bad[part]}}
WritesAsReported ==
  Succeeded("write") /\ fresh => 1 .. length \subseteq Kept

=============================================================================
