------------------------------- MODULE BlockIf --------------------------------
(***************************************************************************)
(* The block interface (bhyve/block_if.c): a fixed pool of request         *)
(* elements, a pending and a busy queue, and the drain loop blockif_thr,    *)
(* which here is no thread but a call the main loop makes.  bc_mtx is the   *)
(* shim of bhyve/pthread.c: a flag whose lock and unlock only assert.       *)
(*                                                                         *)
(* The client is an AHCI port: it owns blockif_queuesz requests, submits    *)
(* one while it is not outstanding, and may submit again from the           *)
(* completion callback, the very request being completed included.          *)
(***************************************************************************)
EXTENDS Integers, SequencesExt

CONSTANTS
    MAXREQ,    \* BLOCKIF_MAXREQ, elements in the pool
    Ops,       \* the operations the client uses, a subset of BlockOp
    Offsets,   \* values of br_offset
    Lens,      \* total lengths of br_iov
    OFF_MAX,   \* be_block of a flush: no request starts there
    Builds     \* the builds followed: TRUE one that keeps assert(), FALSE not

BlockOp == {"READ", "WRITE", "FLUSH", "DELETE"}

ASSUME BlockIfAssumption ==
    /\ MAXREQ \in Nat \ {0}
    /\ Ops \subseteq BlockOp
    /\ Offsets \subseteq Nat
    /\ Lens \subseteq Nat
    /\ OFF_MAX \in Nat
    /\ Builds \subseteq BOOLEAN

QueueszWholePool == MAXREQ   \* mutant: the client may fill the pool

(* The requests of the client: pci_ahci_ioreq_init allocates queuesz.       *)
blockif_queuesz == MAXREQ - 1
Reqs == 1 .. blockif_queuesz

VARIABLES
    pendq, busyq,  \* bc_pendq and bc_busyq, sequences of elements
    nfree,         \* length of bc_freeq
    mtx,           \* bc_mtx.lock
    pc,            \* where the device model is, see TypeOK
    outstanding,   \* client: requests whose callback is still to come
    ret,           \* what the client's last call returned
    asserts        \* whether this build keeps assert()

vars == <<pendq, busyq, nfree, mtx, pc, outstanding, ret, asserts>>

(* struct blockif_elem: be_req with its br_offset, be_op, be_block, be_status *)
Elem == [req : Reqs, op : BlockOp, off : Nat, block : Nat,
         st : {"PEND", "BLOCK", "BUSY", "DONE"}]

TypeOK ==
    /\ pendq \in Seq(Elem)
    /\ busyq \in Seq(Elem)
    /\ nfree \in Nat
    /\ mtx \in {0, 1}
    /\ pc \in {"idle",      \* outside blockif_thr: register accesses run
               "drain",     \* at the head of blockif_thr's loop
               "proc",      \* an element was dequeued
               "callback",  \* inside br_callback
               "halted"}    \* an assertion has failed
    /\ outstanding \in SUBSET Reqs
    /\ ret \in {"0", "E2BIG", "EINVAL", "EBUSY"}
    /\ asserts \in BOOLEAN

(* blockif_open *)
Init ==
    /\ pendq = <<>> /\ busyq = <<>>
    /\ nfree = MAXREQ
    /\ mtx = 0
    /\ pc = "idle"
    /\ outstanding = {}
    /\ ret = "0"
    /\ asserts \in Builds

-----------------------------------------------------------------------------
(* pthread_mutex_lock of the shim: the caller proceeds only if the lock is  *)
(* free or the assertion is not compiled in.                                *)
CanLock == mtx = 0 \/ ~ asserts

Halt ==
    /\ pc' = "halted"
    /\ UNCHANGED <<pendq, busyq, nfree, mtx, outstanding, ret, asserts>>

(* be_block: where a sequential successor of the request would start.       *)
BeBlock(op, off, len) == IF op = "FLUSH" THEN OFF_MAX ELSE off + len

(* blockif_enqueue: a request that starts where an unfinished one ends is   *)
(* BLOCKed until that one completes.                                        *)
Enqueue(r, op, off, len) ==
    LET blocked == \/ \E i \in DOMAIN pendq : pendq[i].block = off
                   \/ \E i \in DOMAIN busyq : busyq[i].block = off
    IN /\ nfree' = nfree - 1
       /\ pendq' = Append(pendq,
                          [req |-> r, op |-> op, off |-> off,
                           block |-> BeBlock(op, off, len),
                           st |-> IF blocked THEN "BLOCK" ELSE "PEND"])

(* blockif_request, reached through blockif_read, _write, _flush, _delete.  *)
(* Called from the completion callback it finds the lock that blockif_thr   *)
(* holds, and a build that keeps assert() stops there.                      *)
Request(r, op, off, len) ==
    /\ pc \in {"idle", "callback"}
    /\ r \notin outstanding
    /\ IF ~ CanLock
         THEN Halt
         ELSE /\ IF nfree > 0
                   THEN /\ Enqueue(r, op, off, len)
                        /\ outstanding' = outstanding \cup {r}
                        /\ ret' = "0"
                   ELSE /\ ret' = "E2BIG"
                        /\ UNCHANGED <<nfree, pendq, outstanding>>
              /\ mtx' = 0
              /\ UNCHANGED <<busyq, pc, asserts>>

UnblockNothing(q, block) == q   \* mutant: successors stay BLOCKed

(* What blockif_complete does to those who wait for an element: each        *)
(* request that starts at its end becomes PEND.                             *)
Unblock(q, block) ==
    [i \in DOMAIN q |-> IF q[i].off = block THEN [q[i] EXCEPT !.st = "PEND"]
                                            ELSE q[i]]

-----------------------------------------------------------------------------
(* blockif_thr: lock, then dequeue, process and complete until nothing is   *)
(* PEND.  It runs outside of dm_request's critical section, but nothing an  *)
(* interrupt handler does touches the block interface.                      *)
ThrEnter ==
    /\ pc = "idle"
    /\ IF ~ CanLock
         THEN Halt
         ELSE /\ mtx' = 1
              /\ pc' = "drain"
              /\ UNCHANGED <<pendq, busyq, nfree, outstanding, ret, asserts>>

DequeueNewest(i) ==   \* mutant: takes the last PEND element
    pendq[i].st = "PEND" /\ \A j \in i + 1 .. Len(pendq) : pendq[j].st # "PEND"

(* A pending element that blockif_dequeue may take: the first one PEND.     *)
FirstPend(i) == pendq[i].st = "PEND" /\ \A j \in 1 .. i - 1 : pendq[j].st # "PEND"

DequeueKeepsLink ==   \* mutant: the element stays on bc_pendq
    /\ pc = "drain"
    /\ busyq = <<>>
    /\ \E i \in DOMAIN pendq :
         /\ FirstPend(i)
         /\ busyq' = Append(busyq, [pendq[i] EXCEPT !.st = "BUSY"])
    /\ pc' = "proc"
    /\ UNCHANGED <<pendq, nfree, mtx, outstanding, ret, asserts>>

Dequeue ==
    /\ pc = "drain"
    /\ \E i \in DOMAIN pendq :
         /\ FirstPend(i)
         /\ pendq' = RemoveAt(pendq, i)
         /\ busyq' = Append(busyq, [pendq[i] EXCEPT !.st = "BUSY"])
    /\ pc' = "proc"
    /\ UNCHANGED <<nfree, mtx, outstanding, ret, asserts>>

(* blockif_proc transfers the data, marks the element DONE and calls back.  *)
Proc ==
    /\ pc = "proc"
    /\ busyq' = [busyq EXCEPT ![Len(busyq)].st = "DONE"]
    /\ outstanding' = outstanding \ {busyq[Len(busyq)].req}
    /\ pc' = "callback"
    /\ UNCHANGED <<pendq, nfree, mtx, ret, asserts>>

(* The callback has returned: blockif_complete.                             *)
Complete ==
    /\ pc = "callback"
    /\ pendq' = Unblock(pendq, busyq[Len(busyq)].block)
    /\ busyq' = Front(busyq)
    /\ nfree' = nfree + 1
    /\ pc' = "drain"
    /\ UNCHANGED <<mtx, outstanding, ret, asserts>>

(* Nothing is PEND: blockif_thr unlocks and returns.                        *)
ThrReturn ==
    /\ pc = "drain"
    /\ \A i \in DOMAIN pendq : pendq[i].st # "PEND"
    /\ IF asserts /\ mtx = 0
         THEN Halt
         ELSE /\ mtx' = 0
              /\ pc' = "idle"
              /\ UNCHANGED <<pendq, busyq, nfree, outstanding, ret, asserts>>

CancelForgetsSuccessors(r) ==   \* mutant: unlinks the element and nothing else
    /\ \E i \in DOMAIN pendq :
         /\ pendq[i].req = r
         /\ pendq' = RemoveAt(pendq, i)
    /\ nfree' = nfree + 1
    /\ outstanding' = outstanding \ {r}
    /\ ret' = "0"
    /\ UNCHANGED <<busyq, mtx, pc, asserts>>

(* blockif_cancel under the lock: a request on bc_pendq is completed        *)
(* without a callback; one on bc_busyq is waited for (the loop on BST_BUSY) *)
(* and EBUSY returned; any other is EINVAL.                                 *)
Unlink(r) ==
    /\ IF \E i \in DOMAIN pendq : pendq[i].req = r
         THEN /\ \E i \in DOMAIN pendq :
                   /\ pendq[i].req = r
                   /\ \A j \in 1 .. i - 1 : pendq[j].req # r
                   /\ pendq' = Unblock(RemoveAt(pendq, i), pendq[i].block)
              /\ nfree' = nfree + 1
              /\ outstanding' = outstanding \ {r}
              /\ ret' = "0"
         ELSE /\ ret' = IF \E i \in DOMAIN busyq : busyq[i].req = r
                          THEN "EBUSY" ELSE "EINVAL"
              /\ UNCHANGED <<pendq, nfree, outstanding>>
    /\ UNCHANGED <<busyq, mtx, pc, asserts>>

(* blockif_cancel, called by ahci_port_stop for an outstanding request.     *)
Cancel(r) ==
    /\ pc = "idle"
    /\ r \in outstanding
    /\ IF CanLock THEN Unlink(r) ELSE Halt

(* After a failed assertion nothing runs any more.                          *)
Halted == pc = "halted" /\ UNCHANGED vars

-----------------------------------------------------------------------------
Thr == ThrEnter \/ Dequeue \/ Proc \/ Complete \/ ThrReturn

Next ==
    \/ \E r \in Reqs, op \in Ops, off \in Offsets, len \in Lens :
         Request(r, op, off, len)
    \/ \E r \in Reqs : Cancel(r)
    \/ ThrEnter
    \/ Dequeue
    \/ Proc
    \/ Complete
    \/ ThrReturn
    \/ Halted

Spec == Init /\ [][Next]_vars

(* dm_loop calls blockif_thr again and again, and runs it to its end.  No   *)
(* client has to submit or to cancel anything.                              *)
FairSpec == Spec /\ WF_vars(Thr)

-----------------------------------------------------------------------------
(* A BLOCKed element waits for one that is still queued in front of it or   *)
(* is being served; nothing waits for an element that is gone.              *)
BlockedHasBlocker ==
    \A i \in DOMAIN pendq : pendq[i].st = "BLOCK" =>
        \/ \E j \in 1 .. i - 1 : pendq[j].block = pendq[i].off
        \/ \E j \in DOMAIN busyq : busyq[j].block = pendq[i].off

(* The drain loop never returns with work left: it stops only when bc_pendq *)
(* is empty, so no request waits for the next register access.              *)
DrainsEverything ==
    pc = "drain" /\ (\A i \in DOMAIN pendq : pendq[i].st # "PEND") => pendq = <<>>

(* The free, pending and busy elements are the pool: none leaks.            *)
PoolConserved == nfree + Len(pendq) + Len(busyq) = MAXREQ

(* The requests the client waits for are the ones that are queued or in     *)
(* service, each once: a callback is neither lost nor made twice.           *)
ExactlyOneCallback ==
    /\ \A i, j \in DOMAIN pendq : pendq[i].req = pendq[j].req => i = j
    /\ outstanding = {pendq[i].req : i \in DOMAIN pendq}
                       \cup {busyq[i].req : i \in {k \in DOMAIN busyq :
                                                       busyq[k].st = "BUSY"}}

(* A client that keeps to blockif_queuesz is never refused (the AHCI code   *)
(* asserts err == 0), even though it resubmits a request whose element is   *)
(* not free yet; and a cancellation always finds the request, so the wait   *)
(* loop of blockif_cancel, which could not end here, is never entered.      *)
CallsSucceed == ret = "0"

(* Pending elements are PEND or BLOCKed, and one element at most is busy,   *)
(* while blockif_thr works on it.                                           *)
PendStatus == \A i \in DOMAIN pendq : pendq[i].st \in {"PEND", "BLOCK"}

BusyShape ==
    /\ pc \in {"idle", "drain"} => busyq = <<>>
    /\ pc \in {"proc", "callback"} => Len(busyq) = 1

(* Between calls bc_mtx is free; a build that keeps assert() holds it from  *)
(* the head of blockif_thr to its end, and can only ever stop while the     *)
(* element in service is being completed, at a submission of its callback.  *)
LockShape ==
    /\ pc = "idle" => mtx = 0
    /\ asserts /\ pc \in {"drain", "proc", "callback"} => mtx = 1
    /\ pc = "halted" => asserts /\ Len(busyq) = 1

(* The inductive invariant of the two queues and the lock: every element is *)
(* in the pool, pending or busy, and each BLOCKed one has something to wait *)
(* for, after every submission, cancellation and step of blockif_thr.       *)
IInv ==
    /\ TypeOK
    /\ PendStatus
    /\ BusyShape
    /\ BlockedHasBlocker
    /\ PoolConserved
    /\ LockShape

(* The block interface is a first-in first-out server.                      *)
Mapped(q) == [i \in DOMAIN q |-> [req |-> q[i].req, op |-> q[i].op, off |-> q[i].off]]

Abs == INSTANCE BlockIfAbs WITH
           Requests <- [req : Reqs, op : Ops, off : Offsets],
           queue <- Mapped(pendq),
           serving <- Mapped(busyq)

(* Every step is a step of the FIFO server: service is in submission order, *)
(* one at a time, although blockif_dequeue searches for a PEND element.     *)
ImplementsFifo == Abs!Spec

(* Every request ends: it is served, or cancelled, or the program has       *)
(* stopped at the assertion of LockIsFree.  A build without assertions      *)
(* serves it whatever the callbacks submit meanwhile.                       *)
EveryRequestEnds ==
    \A r \in Reqs : r \in outstanding ~> (r \notin outstanding \/ pc = "halted")

(* Whoever takes the lock of the block interface finds it free, as the      *)
(* assertion of pthread_mutex_lock says.  It does not: blockif_thr holds it *)
(* over the callback, and a callback that submits takes it again.           *)
LockIsFree == pc # "halted"
===============================================================================
