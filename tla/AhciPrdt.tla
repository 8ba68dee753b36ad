------------------------------- MODULE AhciPrdt -------------------------------
(***************************************************************************)
(* The data of one AHCI command (bhyve/pci_ahci.c): the guest's memory is   *)
(* described by a table of physical regions, the block interface takes at   *)
(* most BLOCKIF_IOV_MAX of them in a request, and a command that needs more *)
(* is carried out in several, each continuing where the one before ended.   *)
(* PIO data (IDENTIFY, READ LOG) is copied in one go by write_prdt, the     *)
(* list of a TRIM by read_prdt.                                             *)
(*                                                                         *)
(* A byte of the guest's memory is a pair of a region and an offset in it.  *)
(* The lock of the block interface is left out: a build that keeps its      *)
(* assertion stops when the callback submits the second part (AhciPort),    *)
(* with what has been moved by then.                                        *)
(***************************************************************************)
EXTENDS Integers, SequencesExt

CONSTANTS
    IovMax,     \* BLOCKIF_IOV_MAX
    SectSz,     \* blockif_sectsz
    Sizes,      \* sizes of the regions, (dbc & DBCMASK) + 1
    MaxPrdtl,   \* bound on the regions of a table
    MaxSects    \* bound on the sectors of a command

ASSUME AhciPrdtAssumption ==
    /\ IovMax \in Nat \ {0} /\ SectSz \in Nat \ {0}
    /\ Sizes \subseteq Nat \ {0}
    /\ MaxPrdtl \in Nat /\ MaxSects \in Nat

VARIABLES
    prdt,    \* where the regions of the table end, put end to end
    op,      \* a read or write, PIO data, or the list of a TRIM
    len,     \* aior->len, or the size of the buffer that is copied
    stage,      \* issue: in ahci_handle_rw; busy: with the block interface
    done,    \* aior->done
    more,    \* aior->more
    offset,  \* br_offset, from the command's first sector
    iov,     \* br_iov
    prdbc,   \* hdr->prdbc
    moved    \* history: which byte of the data was copied to or from where

prdtVars == <<prdt, op, len, stage, done, more, offset, iov, prdbc, moved>>

Smaller(a, b) == IF a < b THEN a ELSE b
Larger(a, b) == IF a < b THEN b ELSE a
Piece(i, off, n) == [region |-> i, off |-> off, len |-> n]

(* What the first k of the numbers f add up to.                             *)
Sums(f) == LET sum[k \in 0 .. Len(f)] == IF k = 0 THEN 0 ELSE sum[k - 1] + f[k] IN sum

LengthUpTo(pieces, n) == Sums([j \in DOMAIN pieces |-> pieces[j].len])[n]
LengthOf(pieces) == LengthUpTo(pieces, Len(pieces))

(* The pieces in order hold the data from at on: its bytes, and where.      *)
Copy(at, pieces) ==
    UNION {LET p == pieces[j]
           IN {<<at + LengthUpTo(pieces, j - 1) + k, <<p.region, p.off + k>>>> :
                 k \in 0 .. p.len - 1} :
           j \in DOMAIN pieces}

(* Where region i begins, and the size of the whole table.                  *)
Begin(i) == IF i = 1 THEN 0 ELSE prdt[i - 1]
Total == IF prdt = <<>> THEN 0 ELSE Last(prdt)

(* The command as the guest has built it.                                   *)
PrdtInit ==
    /\ \E sizes \in SeqOf(Sizes, MaxPrdtl) :
          prdt = [i \in DOMAIN sizes |-> Sums(sizes)[i]]
    /\ op \in {"rw", "pio", "list"}
    /\ len \in {SectSz * n : n \in 1 .. MaxSects}
    /\ stage = "issue"
    /\ done = 0 /\ more = FALSE /\ offset = 0 /\ iov = <<>>
    /\ prdbc = 0 /\ moved = {}

-----------------------------------------------------------------------------
PieceOfIgnoresSkip(i, from) ==   \* mutant: dba is not advanced by skip
    Piece(i, 0, Smaller(prdt[i], len) - Larger(Begin(i), from))

(* What is left of region i between done and len.                           *)
PieceOf(i, from) ==
    Piece(i, Larger(from - Begin(i), 0), Smaller(prdt[i], len) - Larger(Begin(i), from))

(* The loop of ahci_build_iov: the regions that are not done with, as many  *)
(* as fit in the iovec or as the command needs.  The loop ends behind the   *)
(* last one it takes.                                                       *)
Gather(from) ==
    LET left == {i \in DOMAIN prdt : prdt[i] > from /\ Begin(i) < len}
        first == Min(left \cup {Len(prdt) + 1})
    IN [j \in {k \in 1 .. IovMax : first + k - 1 \in left} |-> PieceOf(first + j - 1, from)]

LoopEnd(pieces) == IF pieces = <<>> THEN Len(prdt) ELSE Last(pieces).region

(* The last extra bytes are taken off the iovec, from its end: whole pieces *)
(* as long as they are not longer, then a part of one.                      *)
TrimTail(pieces, extra) ==
    LET behind(j) == LengthOf(pieces) - LengthUpTo(pieces, j)
        kept == {j \in DOMAIN pieces : behind(j - 1) > extra}
    IN [j \in kept |-> IF behind(j) >= extra THEN pieces[j]
                       ELSE [pieces[j] EXCEPT !.len = @ - (extra - behind(j))]]

(* A request limited by the length of the iovec is rounded down to sectors. *)
Extra(pieces) == IF Len(pieces) = IovMax THEN LengthOf(pieces) % SectSz ELSE 0

MoreByLength(upto, pieces) == upto < len   \* mutant: the table's end is ignored

More(upto, pieces) == upto < len /\ LoopEnd(pieces) < Len(prdt)

(* ahci_handle_rw for the part from done on, with ahci_build_iov and its    *)
(* assert(todo > 0).                                                        *)
AhciHandleRw ==
    /\ op = "rw" /\ stage = "issue"
    /\ \E pieces \in {Gather(done)} :
       LET todo == LengthOf(pieces) - Extra(pieces) IN
          IF Len(pieces) = IovMax /\ todo = 0
            THEN stage' = "halted" /\ UNCHANGED <<done, more, offset, iov>>
            ELSE /\ stage' = "busy"
                 /\ offset' = done
                 /\ iov' = TrimTail(pieces, Extra(pieces))
                 /\ done' = done + todo
                 /\ more' = More(done + todo, pieces)
    /\ UNCHANGED <<prdt, op, len, prdbc, moved>>

(* blockif_proc and the callback ata_ioreq_cb.                              *)
AtaIoreqCb(err) ==
    /\ stage = "busy"
    /\ stage' = IF err THEN "failed" ELSE IF more THEN "issue" ELSE "ended"
    /\ IF err THEN UNCHANGED <<prdbc, moved>>   \* EROFS
       ELSE prdbc' = done /\ moved' = moved \cup Copy(offset, iov)
    /\ UNCHANGED <<prdt, op, len, done, more, offset, iov>>

(* The regions, up to where len bytes are used up.                          *)
Leading ==
    [i \in {k \in DOMAIN prdt : Begin(k) < len} |->
        Piece(i, 0, Smaller(prdt[i], len) - Begin(i))]

(* write_prdt, and the end of the command.                                  *)
WritePrdt ==
    /\ op = "pio" /\ stage = "issue"
    /\ moved' = Copy(0, Leading)
    /\ prdbc' = LengthOf(Leading)
    /\ stage' = "ended"
    /\ UNCHANGED <<prdt, op, len, done, more, offset, iov>>

(* read_prdt: PRDBC is left alone.                                          *)
ReadPrdt ==
    /\ op = "list" /\ stage = "issue"
    /\ moved' = Copy(0, Leading)
    /\ stage' = "ended"
    /\ UNCHANGED <<prdt, op, len, done, more, offset, iov, prdbc>>

Over == stage \in {"ended", "failed", "halted"} /\ UNCHANGED prdtVars

PrdtNext == AhciHandleRw \/ (\E err \in BOOLEAN : AtaIoreqCb(err)) \/ WritePrdt \/ ReadPrdt \/ Over

(* The code runs on: it is called from the command's issue and from the     *)
(* block interface's callbacks, which come for every request (BlockIf).     *)
PrdtSpec == PrdtInit /\ [][PrdtNext]_prdtVars /\ WF_prdtVars(PrdtNext)

-----------------------------------------------------------------------------
PrdtTypeOK ==
    /\ prdt \in Seq(Nat) /\ op \in {"rw", "pio", "list"} /\ len \in Nat
    /\ stage \in {"issue", "busy", "ended", "failed", "halted"}
    /\ {done, offset, prdbc} \subseteq 0 .. len /\ more \in BOOLEAN
    /\ Len(iov) <= IovMax

(* The reference: the regions put end to end.                               *)
Table ==
    UNION {{<<n, <<i, n - Begin(i)>>>> : n \in Begin(i) .. prdt[i] - 1} : i \in DOMAIN prdt}

(* Byte n of the command's data goes to or comes from byte n of the table,  *)
(* in whatever parts it is carried out, none twice and none left out, and   *)
(* PRDBC counts them, but for a TRIM.  Where one part ends inside a region, *)
(* between regions or in the middle of a sector that has to be given back,  *)
(* the next one begins, on a sector's boundary.                             *)
InPlace ==
    /\ moved = {m \in Table : m[1] < IF op = "list" /\ stage = "ended" THEN len ELSE prdbc}
    /\ stage = "issue" => done = prdbc /\ done % SectSz = 0

(* Every region has a size, so that no two of them hold the same byte.      *)
Growing ==
    \A i \in DOMAIN prdt : prdt[i] > 0 /\ \A j \in i + 1 .. Len(prdt) : prdt[i] < prdt[j]

(* Where a command stands between two parts, and what of the data a part in *)
(* flight moves: whole sectors if there is more to come, and otherwise the  *)
(* rest of the command or of the table.                                     *)
Parts ==
    /\ len % SectSz = 0
    /\ stage = "issue" => done < len /\ done <= Total
    /\ stage = "busy" =>
         /\ op = "rw" /\ offset = prdbc /\ offset <= done /\ done <= Total
         /\ Copy(offset, iov) = {m \in Table : offset <= m[1] /\ m[1] < done}
         /\ IF more THEN done % SectSz = 0 /\ done < len
            ELSE IF Total >= len THEN done = len ELSE done \in {Total, Total - (Total % SectSz)}

(* A command that ends well has moved all of its data, or as much as the    *)
(* table has room for but for a last, incomplete sector.                    *)
EndsFull ==
    stage = "ended" /\ op # "list" =>
        IF Total >= len THEN prdbc = len ELSE prdbc \in {Total, Total - (Total % SectSz)}

(* assert(todo > 0) can fail, and only for a table in which IovMax - 1      *)
(* regions in a row hold less than a sector.                                *)
StopsOnTinyRegions ==
    stage = "halted" =>
        \E i \in 1 .. Len(prdt) - IovMax + 1 :
            prdt[i + IovMax - 1] - prdt[i] < SectSz

(* All of it: the data is in its place, all of it at the end, and only tiny *)
(* regions stop the program.                                                *)
PrdtInv == PrdtTypeOK /\ Growing /\ Parts /\ InPlace /\ EndsFull /\ StopsOnTinyRegions

(* Every part makes progress, so that the command ends: in a build in which *)
(* the callback may submit the next part.                                   *)
TransferEnds == <>(stage \in {"ended", "failed", "halted"})
===============================================================================
