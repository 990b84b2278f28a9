-------------------------------- MODULE Lists --------------------------------
(***************************************************************************)
(* The circular lists of headers/listx.h, behind a sentinel, and the       *)
(* process queues that phase1/pcb.c makes of them.  A memory m has next    *)
(* and prev by list_head, and p_prio by PCB; what else it has, no operator *)
(* here touches.  An operator on m is a call: m with the writes of that    *)
(* call.                                                                   *)
(***************************************************************************)
EXTENDS Integers, SequencesExt, FiniteSetsExt

CONSTANTS
  MaxProc,      \* MAXPROC: no list holds more PCBs, or descriptors
  None          \* NULL, or a pointer that has not been set

ASSUME TableAssumption == MaxProc \in Nat \ {0}

(* The link of a PCB in a queue; container_of is the second component.     *)
p_list(p) == <<"p_list", p>>
Owner(l)  == l[2]
-----------------------------------------------------------------------------
(* headers/listx.h                                                         *)

INIT_LIST_HEAD(m, l) == [m EXCEPT !.next[l] = l, !.prev[l] = l]

(* __list_add and __list_del.                                              *)
Join(m, new, prv, nxt) ==
  [m EXCEPT !.prev[nxt] = new, !.next[new] = nxt,
            !.prev[new] = prv, !.next[prv] = new]
Cut(m, prv, nxt) == [m EXCEPT !.prev[nxt] = prv, !.next[prv] = nxt]

list_add(m, new, head)      == Join(m, new, head, m.next[head])
list_add_tail(m, new, head) == Join(m, new, m.prev[head], head)
list_delDangling(m, l) == Cut(m, m.prev[l], m.next[l])   \* mutant: l keeps its pointers
list_del(m, l) == INIT_LIST_HEAD(Cut(m, m.prev[l], m.next[l]), l)
list_empty(m, head) == m.next[head] = head

(* The iterator of list_for_each after n steps; it stays at the head.      *)
Iterator(m, head) ==
  LET next == [m.next EXCEPT ![head] = head]
      pos[n \in Nat] == IF n = 0 THEN m.next[head] ELSE next[pos[n - 1]]
  IN  pos

(* What list_for_each visits, in order.  A list with more than MaxProc     *)
(* items is broken, and may have no end: it is cut off.                    *)
Visits(m, head) == {n \in 0..MaxProc : Iterator(m, head)[n] # head}

ItemsOf(m, head) ==
  [i \in 1..Cardinality(Visits(m, head)) |-> Owner(Iterator(m, head)[i - 1])]

(* The first item that satisfies Test, None without one.                   *)
First(s, Test(_)) ==
  LET hits == {i \in DOMAIN s : Test(s[i])}
  IN  IF hits = {} THEN None ELSE s[Min(hits)]
-----------------------------------------------------------------------------
(* The queues of phase1/pcb.c.                                             *)

(* Mutant: behind the first item of the same priority.                     *)
InsertBeforeEquals(m, head, p) ==
  LET lower == First(ItemsOf(m, head), LAMBDA q : m.p_prio[q] <= m.p_prio[p])
  IN  IF lower # None THEN list_add(m, p_list(p), m.prev[p_list(lower)])
                      ELSE list_add_tail(m, p_list(p), head)

insertProcQ(m, head, p) ==
  LET lower == First(ItemsOf(m, head), LAMBDA q : m.p_prio[q] < m.p_prio[p])
  IN  IF lower # None THEN list_add(m, p_list(p), m.prev[p_list(lower)])
                      ELSE list_add_tail(m, p_list(p), head)

headProcQ(m, head)   == IF list_empty(m, head) THEN None ELSE Owner(m.next[head])
removeProcQ(m, head) == IF list_empty(m, head) THEN m
                        ELSE list_del(m, m.next[head])
outProcQ(m, head, p) == IF Contains(ItemsOf(m, head), p)
                        THEN list_del(m, p_list(p)) ELSE m
-----------------------------------------------------------------------------
(* Sound memories and lists.                                               *)

(* A link points to links, or has not been set.                            *)
Memory(m) ==
  /\ m = [x \in DOMAIN m |-> m[x]] /\ {"next", "prev"} \subseteq DOMAIN m
  /\ \A x \in {"next", "prev"} : m[x] \in [DOMAIN m.next -> DOMAIN m.next \cup {None}]

(* Every pointer that is set has its converse.                             *)
Paired(m) ==
  \A l \in DOMAIN m.next : m.next[l] # None =>
    m.prev[l] # None /\ m.prev[m.next[l]] = l /\ m.next[m.prev[l]] = l

Sound(m) == Memory(m) /\ None \notin DOMAIN m.next /\ Paired(m)

(* On no list: never set, or left alone by list_del.                       *)
Loose(m, l) == \/ m.next[l] = l
               \/ m.next[l] = None /\ m.prev[l] = None

(* The n-th link of the circle h, s[1], s[2], ..., h.                      *)
Nth(h, s, n) == IF n \in 1..Len(s) THEN s[n] ELSE h

(* h is the sentinel of a list whose links are those of s in order.        *)
IsList(m, h, s) ==
  /\ h \in DOMAIN m.next /\ s \in Seq(DOMAIN m.next \ {h}) /\ IsInjective(s)
  /\ \A i \in 0..Len(s) : /\ m.next[Nth(h, s, i)] = Nth(h, s, i + 1)
                          /\ m.prev[Nth(h, s, i + 1)] = Nth(h, s, i)

(* The links of a kind that belong to the items q; queues are of p_list.   *)
Chain(kind, q)   == [i \in 1..Len(q) |-> <<kind, q[i]>>]
IsQueue(m, h, q) == IsList(m, h, Chain("p_list", q))
=============================================================================
