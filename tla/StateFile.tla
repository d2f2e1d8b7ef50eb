------------------------------ MODULE StateFile ------------------------------
(***************************************************************************)
(* The state file (srvutils.c): the filter ring is mapped into memory with *)
(* the pointers it is made of, so every start has to move them from the    *)
(* address of the last mapping to that of the new one.  The mapping is     *)
(* shared: whatever was stored when the process dies is what the next one  *)
(* finds, and every store of a pointer is a step.                          *)
(*                                                                         *)
(* A pointer is kept as its distance from where its target lies relative   *)
(* to the start of the file: it is right when that is the address of the   *)
(* mapping.                                                                *)
(***************************************************************************)
EXTENDS Integers, Sequences, FiniteSets

CONSTANTS
    Sizes,   \* values number_buffers may have
    Bases    \* addresses mmap() may return

ASSUME StateFileAssumption ==
    /\ Sizes \subseteq Nat \ {0} /\ Sizes # {} /\ IsFiniteSet(Sizes)
    /\ Bases \subseteq Nat \ {0}

VARIABLES
    file,    \* the state file
    num,     \* number_buffers of the running process, 0 if there is none
    base,    \* the address of its mapping
    offset,  \* walk_mmap_info(): how far the pointers move
    doing,   \* "init", "walk", "ready", or "none" when nothing is mapped
    stores,  \* pointers it has still to store
    cut      \* not in the program: a process died in the middle of that

statefile == <<file, num, base, offset, doing, stores, cut>>

MaxSize == CHOOSE n \in Sizes : \A m \in Sizes : m <= n
Missing == -1   \* size of a file that is not there
Short   == 0    \* size of a file that is not complete

Ptr(kind, i) == <<kind, i>>
Filters(n)   == 0..(n - 1)
Ptrs(n)      == {Ptr(kind, 0) : kind \in {"group", "filter_group", "aggregate", "aggregate_bits"}}
                    \cup {Ptr(kind, i) : kind \in {"filter", "bits"}, i \in Filters(n)}

(* Where the target of a pointer lies in a file for n filters. *)
Place(p, n) ==
    CASE p[1] = "group" -> 1
      [] p[1] = "filter_group" -> 2
      [] p[1] = "aggregate" -> 2 + n
      [] p[1] = "filter" -> 3 + n + p[2]
      [] p[1] = "aggregate_bits" -> 3 + 2 * n
      [] p[1] = "bits" -> 4 + 2 * n + p[2]

(* A pointer that is zero in the file. *)
Zero(p, n) == 0 - Place(p, n)

(* The pointer through which a pointer is reached, itself for the one that *)
(* is in the header at the start of the file.                              *)
Holder(p) ==
    CASE p[1] \in {"group", "aggregate"} -> p
      [] p[1] = "filter_group" -> Ptr("group", 0)
      [] p[1] = "aggregate_bits" -> Ptr("aggregate", 0)
      [] p[1] = "filter" -> Ptr("filter_group", 0)
      [] p[1] = "bits" -> Ptr("filter", p[2])

NoFile == [size |-> Missing, magic |-> FALSE, group_size |-> 0,
           ptr |-> [p \in Ptrs(MaxSize) |-> 0]]

StateFileTypeOK ==
    /\ file \in [size : Sizes \cup {Missing, Short}, magic : BOOLEAN,
                group_size : Sizes \cup {0}, ptr : [Ptrs(MaxSize) -> Int]]
    /\ num \in Sizes \cup {0}
    /\ base \in Bases \cup {0}
    /\ offset \in Int
    /\ doing \in {"none", "init", "walk", "ready"}
    /\ stores \in Seq(Ptrs(MaxSize))
    /\ doing \in {"init", "walk"} <=> stores # <<>>
    /\ cut \in BOOLEAN

StateFileInit ==
    /\ file = NoFile
    /\ num = 0
    /\ base = 0
    /\ offset = 0
    /\ doing = "none"
    /\ stores = <<>>
    /\ cut = FALSE

----------------------------------------------------------------------------
(* create_statefile() writes zeros up to the size that fits the            *)
(* configuration; if it dies, the file stays short.  It refuses to touch a *)
(* file that exists.                                                       *)
create_statefile(n) ==
    /\ file.size = Missing
    /\ \E size \in {n, Short} :
          file' = [NoFile EXCEPT !.size = size, !.ptr = [p \in DOMAIN @ |-> Zero(p, n)]]
    /\ cut' = FALSE
    /\ UNCHANGED <<num, base, offset, doing, stores>>

(* The administrator removes it. *)
RemoveStatefile ==
    /\ file.size # Missing
    /\ file' = NoFile
    /\ cut' = FALSE
    /\ UNCHANGED <<num, base, offset, doing, stores>>

InitOrder(n) ==
    << Ptr("group", 0), Ptr("filter_group", 0), Ptr("aggregate", 0) >>
        \o [i \in 1..n |-> Ptr("filter", i - 1)]
        \o << Ptr("aggregate_bits", 0) >>
        \o [i \in 1..n |-> Ptr("bits", i - 1)]

WalkOrderShort(n) ==
    << Ptr("group", 0), Ptr("aggregate", 0), Ptr("aggregate_bits", 0), Ptr("filter_group", 0) >>
        \o [i \in 1..n |-> Ptr("filter", i - 1)]

WalkOrder(n) ==
    << Ptr("group", 0), Ptr("aggregate", 0), Ptr("aggregate_bits", 0), Ptr("filter_group", 0) >>
        \o [i \in 1..(2 * n) |-> Ptr(IF i % 2 = 1 THEN "filter" ELSE "bits", (i - 1) \div 2)]

(* build_bloom_ring() up to the first pointer: a file of another size is   *)
(* refused, the magic string decides between relocation and a new ring,    *)
(* and is itself the first thing a new ring gets.                          *)
Fits(n) == file.size = n

MapFile(n, b) ==
    /\ Fits(n)
    /\ num' = n
    /\ base' = b
    /\ offset' = b - file.ptr[Ptr("group", 0)]
    /\ file' = [file EXCEPT !.magic = TRUE]
    /\ doing' = IF file.magic THEN "walk" ELSE "init"
    /\ stores' = IF file.magic THEN WalkOrder(file.group_size) ELSE InitOrder(n)
    /\ UNCHANGED cut

Stored ==
    /\ stores' = Tail(stores)
    /\ doing' = IF Len(stores) = 1 THEN "ready" ELSE doing

(* A store of the initialisation; group_size is set with the group. *)
StoreNew ==
    /\ doing = "init"
    /\ file' = [file EXCEPT !.ptr[Head(stores)] = base,
                            !.group_size = IF Head(stores)[1] = "group" THEN num ELSE @]
    /\ Stored
    /\ UNCHANGED <<num, base, offset, cut>>

Reached(p) == Holder(p) = p \/ file.ptr[Holder(p)] = base

(* CHANGE_ADDRESS in walk_mmap_info().  Through a pointer that is wrong    *)
(* itself the store goes astray; the process may survive that.             *)
CHANGE_ADDRESS ==
    /\ doing = "walk"
    /\ \/ /\ Reached(Head(stores))
          /\ file' = [file EXCEPT !.ptr[Head(stores)] = @ + offset]
       \/ /\ ~Reached(Head(stores))
          /\ UNCHANGED file
    /\ Stored
    /\ UNCHANGED <<num, base, offset, cut>>

(* The process ends.  What it leaves is neither the old ring nor the new   *)
(* one if it had begun to initialise it, or to move it somewhere else.     *)
Unmap ==
    /\ num' = 0 /\ base' = 0 /\ offset' = 0
    /\ doing' = "none"
    /\ stores' = <<>>
    /\ cut' = \/ cut
              \/ doing = "init"
              \/ /\ doing = "walk"
                 /\ offset # 0
                 /\ Len(stores) < Len(WalkOrder(file.group_size))
    /\ UNCHANGED file

(* Every pointer of the mapped ring points into the mapping. *)
Whole ==
    /\ file.group_size = num
    /\ \A p \in Ptrs(num) : file.ptr[p] = base
=============================================================================
