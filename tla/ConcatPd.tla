------------------------------ MODULE ConcatPd ------------------------------
(***************************************************************************)
(* The reference concat implementation, src/src/cpu/ref_concat.hpp.        *)
(*                                                                         *)
(* A concat primitive descriptor (pd_t) owns one reorder primitive         *)
(* descriptor per input, held as raw pointers in reorder_pds_.  Its init() *)
(* resolves, for every input, the first reorder implementation of the      *)
(* engine's list that accepts (src_md(i) -> src_image_md(i)).  The copy    *)
(* constructor deep-clones those pointers, operator= clears and clones,    *)
(* the destructor deletes them.  A ref_concat_t primitive creates one      *)
(* reorder primitive from each of them and executes them in input order,   *)
(* each writing its input's image (a disjoint sub-region) of the shared    *)
(* destination.                                                            *)
(*                                                                         *)
(* Reorder pds live on a heap of cells RIds; a cell is "live", "deleted"   *)
(* (freed, a pointer to it dangles) or "free" (never handed out).  A       *)
(* delete of a cell that is not live, and a read through a pointer to a    *)
(* cell that is not live, are undefined behaviour: they are recorded in    *)
(* fault and the program goes on with the heap as the allocator left it.   *)
(***************************************************************************)
EXTENDS Naturals, Sequences, FiniteSets

CONSTANTS
    N,          \* n_: number of concat inputs
    Impls,      \* reorder implementations of the engine
    ImplOrder,  \* get_reorder_implementation_list(): Impls in registration order
    Pds,        \* concat pd_t objects the client may hold
    Prims,      \* ref_concat_t primitives the client may hold
    MaxCells,   \* heap cells available for reorder pds
    NoData,     \* content of a destination region nobody wrote
    WithAssign  \* whether the client ever assigns one pd_t to another

Inputs == 1..N
RIds == 1..MaxCells
Faults == {"none", "double_free", "use_after_free"}

ASSUME N \in Nat \ {0}
ASSUME ImplOrder \in Seq(Impls) /\ Len(ImplOrder) = Cardinality(Impls)
ASSUME NoData \notin Inputs
ASSUME WithAssign \in BOOLEAN

VARIABLES
    viable,       \* op desc: viable[i] = reorder impls accepting input i
    baseOk,       \* op desc: cpu_concat_pd_t::init() succeeds
    pdState,      \* concat pd object: "unused" | "live"
    reorderPds,   \* pd_t::reorder_pds_ (a std::vector of raw pointers)
    heap,         \* heap cell state: "free" | "live" | "deleted"
    cell,         \* contents of a cell: the reorder pd it holds
    primState,    \* ref_concat_t object: "unused" | "live"
    reorders,     \* ref_concat_t::reorders_: the reorder pd each was made from
    dst,          \* destination: region i -> input whose data it holds
    fault,        \* first undefined behaviour met, or "none"
    assigned      \* history: operator= has run between two distinct pds

vars == <<viable, baseOk, pdState, reorderPds, heap, cell, primState,
          reorders, dst, fault, assigned>>

RPd == [impl : Impls, input : Inputs]

-----------------------------------------------------------------------------
(* Heap helpers.                                                           *)

\* Cells some pd_t still points at, live or dangling.
Referenced == UNION {{reorderPds[c][k] : k \in 1..Len(reorderPds[c])} : c \in Pds}

\* The allocator hands out a cell nobody points at; the lowest is taken.
Allocatable == {r \in RIds : heap[r] # "live" /\ r \notin Referenced}

\* The k lowest allocatable cells, as a sequence.
RECURSIVE LowestCells(_, _)
LowestCells(S, k) ==
    IF k = 0 THEN <<>>
    ELSE LET m == CHOOSE x \in S : \A y \in S : x <= y
         IN <<m>> \o LowestCells(S \ {m}, k - 1)

\* delete of every pointer of seq: a cell that is not live is a double free.
DeleteFault(h, seq) ==
    IF \E k \in 1..Len(seq) : h[seq[k]] # "live" THEN "double_free" ELSE "none"

\* A read through every pointer of seq: a dangling one is a use after free.
ReadFault(h, seq) ==
    IF \E k \in 1..Len(seq) : h[seq[k]] # "live" THEN "use_after_free" ELSE "none"

\* The first undefined behaviour is the one kept.
Record(f, new) == IF f = "none" THEN new ELSE f

\* Cells ids set to state st.
Mark(h, ids, st) == [r \in RIds |-> IF \E k \in 1..Len(ids) : ids[k] = r THEN st ELSE h[r]]

\* Cells ids hold the reorder pds rs (a sequence of records).
Fill(ids, rs) == [r \in RIds |-> IF \E k \in 1..Len(ids) : ids[k] = r
                                 THEN rs[CHOOSE k \in 1..Len(ids) : ids[k] = r]
                                 ELSE cell[r]]

-----------------------------------------------------------------------------
(* pd_t::init(): for each input, the first implementation of the list      *)
(* whose reorder pd creation succeeds is pushed and the inner loop breaks; *)
(* an input no implementation accepts pushes nothing.                      *)

FirstViable(i) ==
    {ImplOrder[k] : k \in {j \in 1..Len(ImplOrder) :
                               /\ ImplOrder[j] \in viable[i]
                               /\ \A j2 \in 1..(j - 1) : ImplOrder[j2] \notin viable[i]}}

\* Variant: the inner loop without its break pushes every accepting impl.
ResolveReordersNoBreak ==
    LET RECURSIVE Loop(_)
        Loop(i) == IF i > N THEN <<>>
                   ELSE [k \in 1..Cardinality(viable[i]) |->
                           [impl |-> ImplOrder[CHOOSE j \in 1..Len(ImplOrder) :
                                        /\ ImplOrder[j] \in viable[i]
                                        /\ Cardinality({j2 \in 1..j : ImplOrder[j2] \in viable[i]}) = k],
                            input |-> i]] \o Loop(i + 1)
    IN Loop(1)

ResolveReorders ==
    LET ok == {i \in Inputs : viable[i] # {}}
        RECURSIVE Loop(_)
        Loop(i) == IF i > N THEN <<>>
                   ELSE (IF i \in ok
                         THEN <<[impl |-> CHOOSE x \in FirstViable(i) : TRUE,
                                 input |-> i]>>
                         ELSE <<>>) \o Loop(i + 1)
    IN Loop(1)

\* ok = reorder_pds_.size() == n_
InitOk(rs) == Len(rs) = N

\* Variant: on unimplemented, init() deletes what it pushed and the
\* destructor the framework runs deletes it again.
CreatePdDoubleCleanup(c) ==
    /\ pdState[c] = "unused"
    /\ IF baseOk
       THEN LET rs  == ResolveReorders
                ids == LowestCells(Allocatable, Len(rs))
            IN /\ Cardinality(Allocatable) >= Len(rs)
               /\ IF InitOk(rs)
                  THEN /\ heap' = Mark(heap, ids, "live")
                       /\ cell' = Fill(ids, rs)
                       /\ pdState' = [pdState EXCEPT ![c] = "live"]
                       /\ reorderPds' = [reorderPds EXCEPT ![c] = ids]
                       /\ UNCHANGED fault
                  ELSE /\ heap' = Mark(heap, ids, "deleted")
                       /\ cell' = Fill(ids, rs)
                       /\ fault' = Record(fault, DeleteFault(Mark(heap, ids, "deleted"), ids))
                       /\ UNCHANGED <<pdState, reorderPds>>
       ELSE UNCHANGED <<heap, cell, pdState, reorderPds, fault>>
    /\ UNCHANGED <<assigned, viable, baseOk, primState, reorders, dst>>

(* Creating a pd: construct and init().  On unimplemented the creating     *)
(* framework deletes the pd, whose destructor frees what init() pushed.    *)
CreatePd(c) ==
    /\ pdState[c] = "unused"
    /\ IF baseOk
       THEN LET rs  == ResolveReorders
                ids == LowestCells(Allocatable, Len(rs))
            IN /\ Cardinality(Allocatable) >= Len(rs)
               /\ IF InitOk(rs)
                  THEN /\ heap' = Mark(heap, ids, "live")
                       /\ cell' = Fill(ids, rs)
                       /\ pdState' = [pdState EXCEPT ![c] = "live"]
                       /\ reorderPds' = [reorderPds EXCEPT ![c] = ids]
                  ELSE /\ heap' = Mark(heap, ids, "deleted")
                       /\ cell' = Fill(ids, rs)
                       /\ UNCHANGED <<pdState, reorderPds>>
       ELSE UNCHANGED <<heap, cell, pdState, reorderPds>>
    /\ UNCHANGED <<assigned, viable, baseOk, primState, reorders, dst, fault>>

\* clone_reorder_pds(rhs): push a deep clone of every pointer of rhs.
CloneOf(src) == [k \in 1..Len(src) |-> cell[src[k]]]

\* Variant: a shallow copy that shares rhs's pointers.
ClonePdShallow(c, d) ==
    /\ pdState[c] = "live" /\ pdState[d] = "unused"
    /\ reorderPds' = [reorderPds EXCEPT ![d] = reorderPds[c]]
    /\ pdState' = [pdState EXCEPT ![d] = "live"]
    /\ UNCHANGED <<assigned, viable, baseOk, heap, cell, primState, reorders, dst, fault>>

(* Copy constructor pd_t(const pd_t &rhs), used by clone(): a new pd whose *)
(* reorder_pds_ are clones of rhs's.                                       *)
ClonePd(c, d) ==
    /\ pdState[c] = "live" /\ pdState[d] = "unused"
    /\ LET src == reorderPds[c]
           ids == LowestCells(Allocatable, Len(src))
       IN /\ Cardinality(Allocatable) >= Len(src)
          /\ heap' = Mark(heap, ids, "live")
          /\ cell' = Fill(ids, CloneOf(src))
          /\ reorderPds' = [reorderPds EXCEPT ![d] = ids]
          /\ fault' = Record(fault, ReadFault(heap, src))
    /\ pdState' = [pdState EXCEPT ![d] = "live"]
    /\ UNCHANGED <<assigned, viable, baseOk, primState, reorders, dst>>

(* operator=(rhs): self-assignment returns at once (a stuttering step);    *)
(* otherwise clear() deletes every pointer of reorder_pds_ and the clones  *)
(* of rhs's pointers are pushed after them.                                *)
AssignPd(c, rhs) ==
    /\ WithAssign
    /\ c # rhs
    /\ pdState[c] = "live" /\ pdState[rhs] = "live"
    /\ LET old     == reorderPds[c]
           src     == reorderPds[rhs]
           cleared == Mark(heap, old, "deleted")
           free    == {r \in RIds : cleared[r] # "live" /\ r \notin Referenced}
           ids     == LowestCells(free, Len(src))
       IN /\ Cardinality(free) >= Len(src)
          /\ heap' = Mark(cleared, ids, "live")
          /\ cell' = Fill(ids, CloneOf(src))
          \* clear() deletes but never empties the vector: old stays in it
          /\ reorderPds' = [reorderPds EXCEPT ![c] = old \o ids]
          /\ fault' = Record(Record(fault, DeleteFault(heap, old)),
                             ReadFault(cleared, src))
    /\ assigned' = TRUE
    /\ UNCHANGED <<viable, baseOk, pdState, primState, reorders, dst>>

\* Variant: a destructor that does not call clear().
DestroyPdLeak(c) ==
    /\ pdState[c] = "live"
    /\ pdState' = [pdState EXCEPT ![c] = "unused"]
    /\ reorderPds' = [reorderPds EXCEPT ![c] = <<>>]
    /\ UNCHANGED <<assigned, viable, baseOk, heap, cell, primState, reorders, dst, fault>>

(* Destructor ~pd_t(): clear() deletes every pointer of reorder_pds_.     *)
DestroyPd(c) ==
    /\ pdState[c] = "live"
    /\ heap' = Mark(heap, reorderPds[c], "deleted")
    /\ fault' = Record(fault, DeleteFault(heap, reorderPds[c]))
    /\ pdState' = [pdState EXCEPT ![c] = "unused"]
    /\ reorderPds' = [reorderPds EXCEPT ![c] = <<>>]
    /\ UNCHANGED <<assigned, viable, baseOk, cell, primState, reorders, dst>>

(* ref_concat_t(apd): reorders_[i] is created from pd()->reorder_pds_[i]   *)
(* for i < n_inputs().                                                     *)
CreatePrimitive(c, p) ==
    /\ pdState[c] = "live" /\ primState[p] = "unused"
    /\ LET used == SubSeq(reorderPds[c], 1, N)
       IN /\ reorders' = [reorders EXCEPT ![p] = [i \in Inputs |-> cell[used[i]]]]
          /\ fault' = Record(fault, ReadFault(heap, used))
    /\ primState' = [primState EXCEPT ![p] = "live"]
    /\ UNCHANGED <<assigned, viable, baseOk, pdState, reorderPds, heap, cell, dst>>

(* ~ref_concat_t(): deletes the reorder primitives.                        *)
DestroyPrimitive(p) ==
    /\ primState[p] = "live"
    /\ primState' = [primState EXCEPT ![p] = "unused"]
    /\ UNCHANGED <<assigned, viable, baseOk, pdState, reorderPds, heap, cell, reorders,
                   dst, fault>>

\* Variant: reorders_[i] is bound to argument MULTIPLE_SRC + (i + 1) mod n.
ExecuteShiftedArg(p) ==
    /\ primState[p] = "live"
    /\ dst' = [j \in Inputs |->
                 IF \E i \in Inputs : reorders[p][i].input = j
                 THEN ((CHOOSE i \in Inputs : reorders[p][i].input = j) % N) + 1
                 ELSE dst[j]]
    /\ UNCHANGED <<assigned, viable, baseOk, pdState, reorderPds, heap, cell, primState,
                   reorders, fault>>

\* Variant: reorders_[i] is bound to argument MULTIPLE_SRC + i - 1.
ExecuteArgMinusOne(p) ==
    /\ primState[p] = "live"
    /\ dst' = [j \in Inputs |->
                 IF \E i \in Inputs : reorders[p][i].input = j
                 THEN (CHOOSE i \in Inputs : reorders[p][i].input = j) - 1
                 ELSE dst[j]]
    /\ UNCHANGED <<assigned, viable, baseOk, pdState, reorderPds, heap, cell, primState,
                   reorders, fault>>

(* execute(ctx): reorders_[i] runs with SRC = MULTIPLE_SRC + i and the     *)
(* shared DST; it copies input i into the destination region its pd was   *)
(* resolved for.  The reorders run one after another in input order.       *)
Execute(p) ==
    /\ primState[p] = "live"
    /\ dst' = [j \in Inputs |->
                 IF \E i \in Inputs : reorders[p][i].input = j
                 THEN CHOOSE i \in Inputs :
                         /\ reorders[p][i].input = j
                         /\ \A i2 \in Inputs : reorders[p][i2].input = j => i2 <= i
                 ELSE dst[j]]
    /\ UNCHANGED <<assigned, viable, baseOk, pdState, reorderPds, heap, cell, primState,
                   reorders, fault>>

-----------------------------------------------------------------------------
Init ==
    /\ viable \in [Inputs -> SUBSET Impls]
    /\ baseOk \in BOOLEAN
    /\ pdState = [c \in Pds |-> "unused"]
    /\ reorderPds = [c \in Pds |-> <<>>]
    /\ heap = [r \in RIds |-> "free"]
    /\ cell = [r \in RIds |-> [impl |-> ImplOrder[1], input |-> 1]]
    /\ primState = [p \in Prims |-> "unused"]
    /\ reorders = [p \in Prims |-> [i \in Inputs |-> [impl |-> ImplOrder[1], input |-> i]]]
    /\ dst = [j \in Inputs |-> NoData]
    /\ fault = "none"
    /\ assigned = FALSE

Next ==
    \/ \E c \in Pds : CreatePd(c)
    \/ \E c, d \in Pds : ClonePd(c, d)
    \/ \E c, rhs \in Pds : AssignPd(c, rhs)
    \/ \E c \in Pds : DestroyPd(c)
    \/ \E c \in Pds, p \in Prims : CreatePrimitive(c, p)
    \/ \E p \in Prims : DestroyPrimitive(p)
    \/ \E p \in Prims : Execute(p)

Spec == Init /\ [][Next]_vars

-----------------------------------------------------------------------------
(* Properties.                                                             *)

TypeOK ==
    /\ viable \in [Inputs -> SUBSET Impls]
    /\ baseOk \in BOOLEAN
    /\ pdState \in [Pds -> {"unused", "live"}]
    /\ reorderPds \in [Pds -> Seq(RIds)]
    /\ heap \in [RIds -> {"free", "live", "deleted"}]
    /\ cell \in [RIds -> RPd]
    /\ primState \in [Prims -> {"unused", "live"}]
    /\ reorders \in [Prims -> [Inputs -> RPd]]
    /\ dst \in [Inputs -> Inputs \cup {NoData}]
    /\ fault \in Faults
    /\ assigned \in BOOLEAN

(* No reorder pd is ever deleted twice or read after it was deleted, over  *)
(* any sequence of pd_t creation, cloning, assignment and destruction and  *)
(* ref_concat_t creation: the raw-pointer ownership of reorder_pds_ is     *)
(* memory safe.                                                            *)
NoMemoryFault == fault = "none"

(* Every double free or use after free of a reorder pd comes after an     *)
(* operator= between two distinct pds: pd creation with its failure path, *)
(* cloning, destruction and ref_concat_t creation, in any interleaving,   *)
(* are memory safe on their own.                                          *)
FaultNeedsAssign == fault # "none" => assigned

(* Every live reorder pd is owned by exactly one pointer of one live       *)
(* concat pd: the copy constructor and operator= deep-clone, so two pds    *)
(* never share a reorder pd, and none is leaked when its pd is destroyed. *)
ExclusiveOwnership ==
    \A r \in RIds : heap[r] = "live" =>
        Cardinality({<<c, k>> \in Pds \X (1..MaxCells) :
                        /\ pdState[c] = "live"
                        /\ k <= Len(reorderPds[c])
                        /\ reorderPds[c][k] = r}) = 1

(* Concat fidelity (spec section 8): after any execution, each region of  *)
(* the destination holds nothing or the data of the input it is the image *)
(* of, never another input's.                                              *)
ConcatFidelity == \A j \in Inputs : dst[j] \in {NoData, j}

(* Registration order is the sole tie-break (spec 4.4): the reorder pd a  *)
(* live concat pd uses for input i is the first implementation of the     *)
(* list that accepts input i.                                              *)
ResolvedByPriority ==
    \A c \in Pds : pdState[c] = "live" =>
        \A i \in Inputs :
            /\ cell[reorderPds[c][i]].input = i
            /\ cell[reorderPds[c][i]].impl \in FirstViable(i)

=============================================================================
