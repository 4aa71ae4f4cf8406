-------------------------------- MODULE Parr --------------------------------
(***************************************************************************)
(* The growing pointer array of utils/parr.c that holds the sockets of the *)
(* process and the binds and connections of a socket.  The index insert    *)
(* returns is the handle the application keeps.                            *)
(*                                                                         *)
(* Memory is a function over all indices ever used: slots realloc adds, or *)
(* takes away, hold any value of Uninit.  The shrink loop of clear reads   *)
(* below last, which may lie beyond the capacity, so it takes one step per *)
(* turn.  The walk that fsock_sock_conn_parr_term makes over the array,    *)
(* clearing each element it comes to, is modelled with its index.          *)
(***************************************************************************)
EXTENDS Integers, FiniteSets

CONSTANTS Elements,         \* the pointers stored
          EMPTY,            \* FSOCK_PARR_EMPTY
          NULLPTR,          \* the null pointer, fsock_parr_end
          Uninit,           \* what unwritten memory may look like
          Increment,        \* self->increment, 10 in every fsock_parr_init
          MaxCapacity       \* bound: the largest capacity

ASSUME ParrAssumption ==
    /\ EMPTY \notin Elements /\ NULLPTR \notin Elements /\ EMPTY # NULLPTR
    /\ Uninit # {}
    /\ Increment \in Nat /\ Increment > 1 /\ MaxCapacity \in Nat

Slots == 0..(MaxCapacity - 1)

VARIABLES elems, last, capacity,    \* the fields of struct fsock_parr
          shrinking,                \* inside the loop of fsock_parr_clear
          failed,                   \* an assertion failed
          at,                       \* history: the handle of each live element
          tidy,                     \* history: since the array was last empty, no
                                    \* hole was filled and no block given back
          iter                      \* the walk of a terminating owner: off, at an
                                    \* index, clearing there, or ended

parrVars == <<elems, last, capacity, shrinking, failed, at, tidy, iter>>

NoHandle == -1
NoWalk == [pc |-> "off", i |-> NoHandle, tidy |-> FALSE]
Live == {e \in Elements : at[e] # NoHandle}

ParrTypeOK ==
    /\ elems \in [Slots -> Elements \cup Uninit \cup {EMPTY}]
    /\ last \in 0..MaxCapacity /\ capacity \in 0..MaxCapacity
    /\ shrinking \in BOOLEAN /\ failed \in BOOLEAN /\ tidy \in BOOLEAN
    /\ at \in [Elements -> Slots \cup {NoHandle}]
    /\ iter \in [pc : {"off", "at", "clear", "end"}, i : Slots \cup {NoHandle},
                 tidy : BOOLEAN]

\* Memory after a realloc to cap slots: what lies within both sizes stays, the
\* rest that can be read below cap or end holds anything, and what nobody can
\* read is left out of account.
Realloc(cap, end) ==
    LET kept  == {i \in Slots : i < cap /\ i < capacity}
        fresh == {i \in Slots : i < cap \/ i < end} \ kept
    IN {[i \in Slots |-> IF i \in kept THEN elems[i] ELSE IF i \in fresh THEN u[i] ELSE EMPTY] :
           u \in [fresh -> Uninit]}

ParrInit ==
    /\ elems = [i \in Slots |-> EMPTY]
    /\ last = 0 /\ capacity = 0
    /\ shrinking = FALSE /\ failed = FALSE /\ tidy = TRUE
    /\ at = [e \in Elements |-> NoHandle]
    /\ iter = NoWalk

-----------------------------------------------------------------------------
\* fsock_parr_size
Size == IF capacity = 0 THEN 0 ELSE Cardinality({i \in 0..(last - 1) : elems[i] # EMPTY})

\* The index insert stores to: the first hole below last, else last.
StoreIndex(m) ==
    CHOOSE i \in 0..last : /\ i = last \/ m[i] = EMPTY
                           /\ \A j \in 0..(i - 1) : m[j] # EMPTY

\* The slot before the end is already the signal to grow.
MustGrow == capacity = 0 \/ last = capacity - 1

Insert(e) ==
    /\ ~failed /\ ~shrinking /\ iter.pc = "off" /\ e \notin Live
    /\ IF capacity # 0 /\ last >= capacity
       THEN failed' = TRUE /\ UNCHANGED <<elems, last, capacity, at, tidy>>
       ELSE LET cap == IF MustGrow THEN capacity + Increment ELSE capacity
            IN /\ cap <= MaxCapacity
               /\ \E m \in (IF MustGrow THEN Realloc(cap, last) ELSE {elems}) :
                     /\ elems' = [i \in Slots |-> IF i = StoreIndex(m) THEN e ELSE m[i]]
                     /\ at' = [at EXCEPT ![e] = StoreIndex(m)]
                     /\ tidy' = (tidy /\ StoreIndex(m) = last)
               /\ capacity' = cap
               /\ last' = last + 1
               /\ UNCHANGED failed
    /\ UNCHANGED <<shrinking, iter>>

\* What a cleared slot holds.
ClearedNull == 0                                        \* NULL, not the marker

Cleared == EMPTY

\* fsock_parr_clear of a handle in use, up to its loop.
Clear(e) ==
    /\ ~failed /\ ~shrinking /\ iter.pc = "off" /\ e \in Live
    /\ elems' = [elems EXCEPT ![at[e]] = Cleared]
    /\ at' = [at EXCEPT ![e] = NoHandle]
    /\ shrinking' = TRUE
    /\ UNCHANGED <<last, capacity, failed, tidy, iter>>

\* fsock_parr_can_shrink: nothing is stored in the topmost increment.
ShrinksAnyway == last <= capacity - 1                   \* slots not looked at

CanShrink == \A i \in (capacity - Increment)..(last - 1) : elems[i] = EMPTY

\* The capacity after giving one increment back.
NotSmaller == capacity                                  \* the field is not updated

Smaller == capacity - Increment

\* One turn of the loop: stop, start afresh, or give one increment back.
Shrink ==
    /\ ~failed /\ shrinking
    /\ shrinking' = (CanShrink /\ capacity # Increment)
    /\ IF ~CanShrink THEN UNCHANGED <<elems, last, capacity, failed, tidy>>
       ELSE IF capacity = Increment
       THEN /\ failed' = (Size # 0)
            /\ last' = 0 /\ capacity' = 0 /\ tidy' = TRUE
            /\ elems' \in Realloc(0, 0)
       ELSE /\ capacity' = Smaller
            /\ elems' \in Realloc(Smaller, last)
            /\ tidy' = FALSE
            /\ UNCHANGED <<last, failed>>
    /\ UNCHANGED <<at, iter>>

-----------------------------------------------------------------------------
(* fsock_sock_conn_parr_term and fsock_sock_bind_parr_term.                *)

\* The first index from i on that is not EMPTY, or NoHandle.
NextUsed(i) ==
    LET used == {j \in i..(last - 1) : elems[j] # EMPTY}
    IN IF used = {} THEN NoHandle ELSE CHOOSE j \in used : \A k \in used : j <= k

\* A null element ends the walk like the end of the array.
At(i, t) == [pc |-> IF i = NoHandle THEN "end" ELSE IF elems[i] = NULLPTR THEN "end" ELSE "at",
             i |-> i, tidy |-> t]

\* fsock_parr_begin
TermBegin ==
    /\ ~failed /\ ~shrinking /\ iter.pc = "off"
    /\ iter' = At(IF last = 0 \/ capacity = 0 THEN NoHandle ELSE NextUsed(0), tidy)
    /\ UNCHANGED <<elems, last, capacity, shrinking, failed, at, tidy>>

\* The body terminates the element and clears its index; what is no pointer is
\* followed all the same.
TermClear ==
    /\ ~failed /\ ~shrinking /\ iter.pc = "at"
    /\ failed' = (elems[iter.i] \notin Live)
    /\ elems' = [elems EXCEPT ![iter.i] = Cleared]
    /\ at' = [e \in Elements |-> IF e = elems[iter.i] THEN NoHandle ELSE at[e]]
    /\ shrinking' = TRUE
    /\ iter' = [iter EXCEPT !.pc = "clear"]
    /\ UNCHANGED <<last, capacity, tidy>>

\* fsock_parr_next, on the array the clear has left.
Rescan(i) == IF last = 0 \/ i = last - 2 THEN NoHandle ELSE NextUsed(i + 1)    \* off by one

NextIndex(i) == IF last = 0 \/ i = last - 1 THEN NoHandle ELSE NextUsed(i + 1)

TermNext ==
    /\ ~failed /\ ~shrinking /\ iter.pc = "clear"
    /\ iter' = At(NextIndex(iter.i), iter.tidy)
    /\ UNCHANGED <<elems, last, capacity, shrinking, failed, at, tidy>>

\* fsock_parr_term; its assertion aborts, or the owner is freed and a new one
\* starts.
Term ==
    /\ ~failed /\ ~shrinking /\ iter.pc = "end"
    /\ IF Size # 0
       THEN failed' = TRUE /\ UNCHANGED <<elems, last, capacity, at, tidy, iter>>
       ELSE /\ elems' \in Realloc(0, 0)
            /\ last' = 0 /\ capacity' = 0 /\ tidy' = TRUE
            /\ at' = [e \in Elements |-> NoHandle]
            /\ iter' = NoWalk
            /\ UNCHANGED failed
    /\ UNCHANGED shrinking

TermStep == TermClear \/ TermNext \/ Term

ParrNext == \/ \E e \in Elements : Insert(e) \/ Clear(e)
            \/ Shrink
            \/ TermBegin \/ TermStep

ParrFairness == WF_parrVars(Shrink) /\ WF_parrVars(TermStep)

ParrSpec == ParrInit /\ [][ParrNext]_parrVars /\ ParrFairness

-----------------------------------------------------------------------------
(***************************************************************************)
(* Properties.                                                             *)
(***************************************************************************)

\* A handle is valid until it is cleared: growth, reuse of holes, and shrinking
\* with a last beyond the capacity never move, overwrite or free its slot.
HandlesValid == \A e \in Live : at[e] < capacity /\ at[e] < last /\ elems[at[e]] = e

\* The loop of fsock_parr_clear ends, and so does the walk that clears the
\* array while it moves along it.
LoopsEnd == (shrinking \/ iter.pc # "off") ~> (failed \/ (~shrinking /\ iter.pc = "off"))

\* The assertions of insert (parr.c:63) and term (parr.c:39) hold, and size is
\* exact, as long as no hole was filled and no block was given back since the
\* array was empty; filling a hole moves last past slots nobody wrote, and
\* giving a block back leaves last beyond the capacity.
SizeExactIfTidy == tidy => ~failed /\ Size = Cardinality(Live)

\* A walk begun on a tidy array terminates every element before it ends or
\* aborts, although every clear may give back the block it walks or start the
\* array afresh.  Behind the last element it may still read slots of a block it
\* gave back itself, since last stays beyond the capacity: then it follows what
\* it finds there, or the assertion of fsock_parr_term fails.
WalkLeavesNone == iter.tidy => (failed \/ iter.pc = "end" => Live = {})
=============================================================================
