------------------------------ MODULE VivaldiNode ------------------------------
(***************************************************************************)
(* The samples of a Vivaldi node (vivaldinode.c).  Each ping is recorded   *)
(* as a sample in the node's memory; the samples that moved the node's     *)
(* coordinate are also kept in two windows, with which later ones are      *)
(* judged.  The three lists share the samples, which count the lists that  *)
(* hold them and are freed by the last one.                                *)
(*                                                                         *)
(* Coordinates and errors are real numbers; what they decide is left open, *)
(* so a check has every answer that the code can give.                     *)
(***************************************************************************)
EXTENDS Integers, Sequences

CONSTANTS
  Address,         \* where the samples of one node may lie
  Malloc(_),       \* of the free addresses, those malloc() may return
  MemorySize,      \* VivMemorySize
  Bootstrap,       \* VivUnprotectedBootstrapCount
  ErrorWindow,     \* VivProtectErrorWindow
  CentroidWindow   \* VivProtectCentroidWindow

ASSUME MallocAssumption == \A free \in SUBSET Address : Malloc(free) \subseteq free

ASSUME WindowAssumption ==
  /\ MemorySize \in Nat /\ Bootstrap \in Nat \ {0, 1}
  /\ ErrorWindow \in Nat \ {0} /\ CentroidWindow \in Nat \ {0}
  /\ ErrorWindow <= MemorySize \/ ErrorWindow <= Bootstrap

List == {"memory", "error", "centroid"}

Limit ==
  [name \in List |->
     CASE name = "memory"   -> IF MemorySize > Bootstrap THEN MemorySize ELSE Bootstrap
       [] name = "error"    -> ErrorWindow
       [] name = "centroid" -> CentroidWindow]

\* list: the three lists, newest sample first; refct means something for the
\* allocated samples only and is 0 for the others.
Store == [list : [List -> Seq(Address)], allocated : SUBSET Address,
          refct : [Address -> Int]]

EmptyStore ==
  [list |-> [name \in List |-> <<>>], allocated |-> {},
   refct |-> [a \in Address |-> 0]]

Holds(l, a) == \E i \in 1..Len(l) : l[i] = a
-----------------------------------------------------------------------------
\* viv_sample_init(): a new sample, held by nobody yet.
viv_sample_init(s, a) ==
  [s EXCEPT !.allocated = @ \cup {a}, !.refct[a] = 0]

viv_sample_free(s, a) ==
  IF s.refct[a] - 1 > 0 THEN [s EXCEPT !.refct[a] = @ - 1]
  ELSE [s EXCEPT !.allocated = @ \ {a}, !.refct[a] = 0]

\* Mutant of PopLast: only the count that reaches one less frees.
PopLastLate(s, name) ==
  LET old == s.list[name][Len(s.list[name])]
      popped == [s EXCEPT !.list[name] = SubSeq(@, 1, Len(@) - 1),
                          !.refct[old] = @ - 1]
  IN  IF popped.refct[old] < 0 THEN viv_sample_free(popped, old) ELSE popped

\* smartlist_pop_last_sample().
PopLast(s, name) ==
  LET old == s.list[name][Len(s.list[name])]
      popped == [s EXCEPT !.list[name] = SubSeq(@, 1, Len(@) - 1),
                          !.refct[old] = @ - 1]
  IN  IF popped.refct[old] <= 0 THEN viv_sample_free(popped, old) ELSE popped

\* smartlist_insert_sample() at the front.
Push(s, name, a) == [s EXCEPT !.list[name] = <<a>> \o @, !.refct[a] = @ + 1]

\* Mutant of Insert: the oldest goes one too late.
InsertBeyond(s, name, a) ==
  LET pushed == Push(s, name, a)
  IN  IF Len(pushed.list[name]) > Limit[name] + 1 THEN PopLast(pushed, name) ELSE pushed

\* A sample is put in front and the oldest beyond the limit dropped: one at most,
\* since every insertion does so.
Insert(s, name, a) ==
  LET pushed == Push(s, name, a)
  IN  IF Len(pushed.list[name]) > Limit[name] THEN PopLast(pushed, name) ELSE pushed
-----------------------------------------------------------------------------
\* viv_record_ping_sample(), the sample lying at a.
viv_record_ping_sample(s, a) == Insert(viv_sample_init(s, a), "memory", a)

\* viv_prot_update_buffers().
viv_prot_update_buffers(s, a) == Insert(Insert(s, "error", a), "centroid", a)

Bootstrapping(s) == Len(s.list["memory"]) < Bootstrap

\* Mutant of Verdicts: the checks are never off.
VerdictsAlways(s) == BOOLEAN

\* What viv_prot_centroid_check() and viv_prot_error_check() may say: they are
\* off at first, later a worse centroid or error may be rejected at random.
Verdicts(s) == IF Bootstrapping(s) THEN {TRUE} ELSE BOOLEAN

\* viv_update() of a sample with a positive latency: what the node may hold then.
viv_update(s, a) ==
  {IF centroid_ok /\ error_ok THEN viv_prot_update_buffers(s, a) ELSE s :
     centroid_ok \in Verdicts(s), error_ok \in Verdicts(s)}
-----------------------------------------------------------------------------
(* What holds of a store.                                                  *)

One(holds) == IF holds THEN 1 ELSE 0

\* The lists stay within their limits and hold no sample twice.
Bounded(s) ==
  \A name \in List :
    /\ Len(s.list[name]) <= Limit[name]
    /\ \A i, j \in 1..Len(s.list[name]) :
         s.list[name][i] = s.list[name][j] => i = j

\* The count of a sample is the number of lists that hold it, and it is allocated
\* exactly while that is not zero: none is used after it was freed, freed twice, or
\* lost.
Counted(s) ==
  \A a \in Address :
    /\ a \in s.allocated <=> \E name \in List : Holds(s.list[name], a)
    /\ a \in s.allocated =>
         s.refct[a] = One(Holds(s.list["memory"], a))
                    + One(Holds(s.list["error"], a))
                    + One(Holds(s.list["centroid"], a))
=============================================================================
