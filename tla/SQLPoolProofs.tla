----------------------------- MODULE SQLPoolProofs -----------------------------
(***************************************************************************)
(* Proofs about the two halves of cSQLPool, for any number of threads,     *)
(* connections, requests and failures.  Of the pool of connections: the    *)
(* pointers of the two lists, what hangs on them, the counters kept beside *)
(* them, and that it implements ConnectionSets.  Of the thread pool, from  *)
(* Types on: that no request is in two places, that a queued one has a     *)
(* worker on its way to it, and that a stalled pool stays stalled.         *)
(***************************************************************************)
EXTENDS ConnectionPool, ThreadPool, FiniteSetTheorems, TLAPS

USE NullAssumption

-----------------------------------------------------------------------------
(* A doubly linked list with the links n and p: first is the first element *)
(* of the elements S, and following n from it comes to all of them.        *)
Reaches(first, S, n) ==
  \A U \in SUBSET S :
    first \in U /\ (\A c \in U : n[c] \in U \cup {Null}) => U = S

Doubly(S, n, p) ==
  \A c \in S : /\ n[c] \in S \cup {Null}
               /\ p[c] \in S \cup {Null}
               /\ n[c] # Null => p[n[c]] = c
               /\ p[c] # Null => n[p[c]] = c

Starts(first, S, p) ==
  /\ first = Null <=> S = {}
  /\ S # {} => first \in S
  /\ \A c \in S : p[c] = Null <=> c = first

ListOf(first, S, n, p) ==
  S \subseteq Conns /\ Starts(first, S, p) /\ Doubly(S, n, p) /\ Reaches(first, S, n)

Links == [Conns -> Pointers]

(* Only the links of its elements matter to a list.                        *)
LEMMA ListFrame ==
  ASSUME NEW first, NEW S, NEW n, NEW p, NEW n2, NEW p2, ListOf(first, S, n, p),
         \A c \in S : n2[c] = n[c] /\ p2[c] = p[c]
  PROVE  ListOf(first, S, n2, p2)
<1>1. Starts(first, S, p2)
  BY DEF ListOf, Starts
<1>2. Doubly(S, n2, p2)
  BY DEF ListOf, Doubly
<1>3. Reaches(first, S, n2)
  BY DEF ListOf, Reaches
<1> QED
  BY <1>1, <1>2, <1>3 DEF ListOf

(* AttachPool puts a connection without links in front.                    *)
LEMMA Attach ==
  ASSUME NEW pool, NEW S, NEW n \in Links, NEW p \in Links, ListOf(pool, S, n, p),
         NEW c \in Conns \ S, n[c] = Null, p[c] = Null
  PROVE  /\ ListOf(c, S \cup {c}, AttachNext(n, pool, c), AttachPrev(p, pool, c))
         /\ AttachNext(n, pool, c) \in Links
         /\ AttachPrev(p, pool, c) \in Links
         /\ \A x \in Conns \ (S \cup {c}) :
              AttachNext(n, pool, c)[x] = n[x] /\ AttachPrev(p, pool, c)[x] = p[x]
<1> DEFINE n2 == AttachNext(n, pool, c)
           p2 == AttachPrev(p, pool, c)
           T  == S \cup {c}
<1>1. CASE pool = Null
  <2>1. S = {} /\ n2 = n /\ p2 = p /\ T = {c}
    BY <1>1 DEF ListOf, Starts, AttachNext, AttachPrev
  <2>2. ListOf(c, T, n, p)
    BY <2>1 DEF ListOf, Starts, Doubly, Reaches
  <2> QED
    BY <2>1, <2>2
<1>2. CASE pool # Null
  <2>1. pool \in S /\ S \subseteq Conns /\ p[pool] = Null /\ pool # c
    BY <1>2 DEF ListOf, Starts
  <2>2. /\ n2 \in Links /\ p2 \in Links
        /\ n2[c] = pool /\ p2[pool] = c /\ p2[c] = Null
        /\ \A x \in Conns : x # c => n2[x] = n[x]
        /\ \A x \in Conns : x # c /\ x # pool => p2[x] = p[x]
    BY <1>2, <2>1 DEF AttachNext, AttachPrev, Links, Pointers
  <2> HIDE DEF n2, p2
  <2>3. Starts(c, T, p2)
    BY <2>1, <2>2 DEF ListOf, Starts
  <2>4. Doubly(T, n2, p2)
    <3>1. ASSUME NEW x \in S
          PROVE  /\ n2[x] \in T \cup {Null} /\ p2[x] \in T \cup {Null}
                 /\ n2[x] # Null => p2[n2[x]] = x
                 /\ p2[x] # Null => n2[p2[x]] = x
      <4>1. x # c /\ n2[x] = n[x] /\ n[x] \in S \cup {Null} /\ p[x] \in S \cup {Null}
        BY <2>1, <2>2 DEF ListOf, Doubly
      <4>2. n[x] # Null => p[n[x]] = x /\ n[x] # pool
        BY <2>1, <4>1 DEF ListOf, Doubly
      <4>3. x # pool => p2[x] = p[x]
        BY <2>1, <2>2, <4>1
      <4>4. p[x] # Null => n[p[x]] = x /\ p[x] # c
        BY <4>1 DEF ListOf, Doubly
      <4> QED
        BY <2>1, <2>2, <4>1, <4>2, <4>3, <4>4
    <3> QED
      BY <2>1, <2>2, <3>1 DEF Doubly
  <2>5. Reaches(c, T, n2)
    <3> SUFFICES ASSUME NEW U \in SUBSET T, c \in U,
                        \A x \in U : n2[x] \in U \cup {Null}
                 PROVE  U = T
      BY DEF Reaches
    <3>1. pool \in U \ {c}
      BY <2>1, <2>2
    <3>2. \A x \in U \ {c} : n[x] \in (U \ {c}) \cup {Null}
      BY <2>1, <2>2 DEF ListOf, Doubly
    <3>3. U \ {c} = S
      BY <3>1, <3>2 DEF ListOf, Reaches
    <3> QED
      BY <3>3
  <2> QED
    BY <2>1, <2>2, <2>3, <2>4, <2>5 DEF ListOf, n2, p2
<1> QED
  BY <1>1, <1>2

(* DetachPool takes one connection out, wherever it is, and leaves it      *)
(* without links; the others stay one list.                                *)
LEMMA Detach ==
  ASSUME NEW pool, NEW S, NEW n \in Links, NEW p \in Links, ListOf(pool, S, n, p),
         NEW c \in S
  PROVE  /\ ListOf(DetachPool(pool, n, p, c), S \ {c}, DetachNext(n, p, c), DetachPrev(n, p, c))
         /\ DetachNext(n, p, c) \in Links
         /\ DetachPrev(n, p, c) \in Links
         /\ DetachNext(n, p, c)[c] = Null
         /\ DetachPrev(n, p, c)[c] = Null
         /\ \A x \in Conns \ S :
              DetachNext(n, p, c)[x] = n[x] /\ DetachPrev(n, p, c)[x] = p[x]
<1> DEFINE n2 == DetachNext(n, p, c)
           p2 == DetachPrev(n, p, c)
           q  == DetachPool(pool, n, p, c)
           T  == S \ {c}
<1>0. S \subseteq Conns /\ c \in Conns /\ n[c] \in S \cup {Null} /\ p[c] \in S \cup {Null}
  BY DEF ListOf, Doubly
<1>1. /\ n2 \in Links /\ p2 \in Links
      /\ n2[c] = Null /\ p2[c] = Null
      /\ \A x \in Conns : x # c => n2[x] = IF x = p[c] THEN n[c] ELSE n[x]
      /\ \A x \in Conns : x # c => p2[x] = IF x = n[c] THEN p[c] ELSE p[x]
  BY <1>0 DEF DetachNext, DetachPrev, Links, Pointers
<1>2. q = IF p[c] = Null THEN n[c] ELSE pool
  BY DEF DetachPool
<1> HIDE DEF n2, p2, q
<1>3. n[c] # c /\ p[c] # c
  <2>1. p[c] = c => n[c] = c
    BY <1>0 DEF ListOf, Doubly
  <2>2. ASSUME n[c] = c PROVE FALSE
    <3>1. p[c] = c
      BY <1>0, <2>2 DEF ListOf, Doubly
    <3>2. pool \in T
      BY <1>0, <3>1 DEF ListOf, Starts
    <3>3. \A x \in T : n[x] \in T \cup {Null}
      BY <1>0, <3>1 DEF ListOf, Doubly
    <3>4. T = S
      BY <3>2, <3>3 DEF ListOf, Reaches
    <3> QED
      BY <3>4
  <2> QED
    BY <2>1, <2>2
<1>4. p[c] = Null <=> c = pool
  BY DEF ListOf, Starts
<1>5. Doubly(T, n2, p2)
  <2> SUFFICES ASSUME NEW x \in T
               PROVE  /\ n2[x] \in T \cup {Null} /\ p2[x] \in T \cup {Null}
                      /\ n2[x] # Null => p2[n2[x]] = x
                      /\ p2[x] # Null => n2[p2[x]] = x
    BY DEF Doubly
  <2>1. \A y \in S : /\ n[y] \in S \cup {Null} /\ p[y] \in S \cup {Null}
                     /\ n[y] # Null => p[n[y]] = y
                     /\ p[y] # Null => n[p[y]] = y
    BY DEF ListOf, Doubly
  <2>2. x \in S /\ x # c /\ x \in Conns /\ Null \notin S
    BY <1>0
  <2>3. n[x] = c => x = p[c]
    BY <2>1, <2>2, <1>0
  <2>4. p[x] = c => x = n[c]
    BY <2>1, <2>2, <1>0
  <2>5. n2[x] \in T \cup {Null} /\ p2[x] \in T \cup {Null}
    BY <1>0, <1>1, <1>3, <2>1, <2>2, <2>3, <2>4
  <2>6. n2[x] # Null => p2[n2[x]] = x
    <3>1. CASE x = p[c]
      BY <1>0, <1>1, <1>3, <2>1, <2>2, <3>1
    <3>2. CASE x # p[c]
      BY <1>0, <1>1, <1>3, <2>1, <2>2, <2>3, <3>2
    <3> QED
      BY <3>1, <3>2
  <2>7. p2[x] # Null => n2[p2[x]] = x
    <3>1. CASE x = n[c]
      BY <1>0, <1>1, <1>3, <2>1, <2>2, <3>1
    <3>2. CASE x # n[c]
      BY <1>0, <1>1, <1>3, <2>1, <2>2, <2>4, <3>2
    <3> QED
      BY <3>1, <3>2
  <2> QED
    BY <2>5, <2>6, <2>7
<1>6. n[c] = Null /\ p[c] = Null => S = {c}
  <2> HAVE n[c] = Null /\ p[c] = Null
  <2>1. {c} \in SUBSET S /\ pool \in {c}
    BY <1>4
  <2>2. \A x \in {c} : n[x] \in {c} \cup {Null}
    OBVIOUS
  <2>3. Reaches(pool, S, n)
    BY DEF ListOf
  <2> QED
    BY <2>1, <2>2, <2>3 DEF Reaches
<1>7. Starts(q, T, p2)
  <2>1. q = Null <=> T = {}
    <3>1. CASE p[c] = Null
      BY <1>0, <1>2, <1>3, <1>6, <3>1
    <3>2. CASE p[c] # Null
      BY <1>0, <1>2, <1>3, <1>4, <3>2 DEF ListOf, Starts
    <3> QED
      BY <3>1, <3>2
  <2>2. T # {} => q \in T
    BY <1>0, <1>2, <1>3, <1>4, <1>6 DEF ListOf, Starts
  <2>3. ASSUME NEW x \in T PROVE p2[x] = Null <=> x = q
    <3>1. x \in S /\ x # c /\ x \in Conns
      BY <1>0
    <3>2. p[x] = Null <=> x = pool
      BY <3>1 DEF ListOf, Starts
    <3>3. x = n[c] => p[x] = c
      BY <1>0, <3>1 DEF ListOf, Doubly
    <3> QED
      BY <1>0, <1>1, <1>2, <1>4, <3>1, <3>2, <3>3
  <2> QED
    BY <2>1, <2>2, <2>3 DEF Starts
<1>8. Reaches(q, T, n2)
  <2> SUFFICES ASSUME NEW U \in SUBSET T, q \in U,
                      \A x \in U : n2[x] \in U \cup {Null}
               PROVE  U = T
    BY DEF Reaches
  <2>1. \A x \in U : x \in Conns /\ x # c /\ n2[x] = IF x = p[c] THEN n[c] ELSE n[x]
    BY <1>0, <1>1
  <2> DEFINE V == IF c = pool \/ p[c] \in U THEN U \cup {c} ELSE U
  <2>2. pool \in V
    BY <1>2, <1>4
  <2>3. \A x \in V : n[x] \in V \cup {Null}
    <3>1. CASE c = pool
      BY <1>2, <1>4, <2>1, <3>1, <1>0
    <3>2. CASE c # pool /\ p[c] \in U
      <4>1. n[p[c]] = c
        BY <1>0, <1>4, <3>2 DEF ListOf, Doubly
      <4>2. n[c] \in U \cup {Null}
        BY <2>1, <3>2
      <4> QED
        BY <2>1, <3>2, <4>1, <4>2
    <3>3. CASE c # pool /\ p[c] \notin U
      BY <2>1, <3>3
    <3> QED
      BY <3>1, <3>2, <3>3
  <2>4. V \in SUBSET S
    BY <1>0
  <2>5. V = S
    BY <2>2, <2>3, <2>4 DEF ListOf, Reaches
  <2> QED
    BY <2>5
<1>9. \A x \in Conns \ S : n2[x] = n[x] /\ p2[x] = p[x]
  BY <1>0, <1>1
<1> QED
  BY <1>0, <1>1, <1>5, <1>7, <1>8, <1>9 DEF ListOf, n2, p2, q

(* The walk along next finds what is in the list.                          *)
LEMMA ChainOfList ==
  ASSUME NEW first, NEW S, ListOf(first, S, next, prev), S \subseteq heap, heap \subseteq Conns
  PROVE  Chain(first) = S
<1>1. CASE first = Null
  BY <1>1 DEF ListOf, Starts, Chain
<1>2. CASE first # Null
  <2>1. S \in ClosedFrom(first)
    BY <1>2 DEF ListOf, Starts, Doubly, ClosedFrom
  <2>2. ASSUME NEW U \in ClosedFrom(first) PROVE S \subseteq U
    <3>1. first \in U \cap S
      BY <1>2 DEF ListOf, Starts, ClosedFrom
    <3>2. \A c \in U \cap S : next[c] \in (U \cap S) \cup {Null}
      BY DEF ListOf, Doubly, ClosedFrom
    <3>3. U \cap S = S
      BY <3>1, <3>2 DEF ListOf, Reaches
    <3> QED
      BY <3>3
  <2> QED
    BY <1>2, <2>1, <2>2 DEF Chain
<1> QED
  BY <1>1, <1>2

-----------------------------------------------------------------------------
(* The two lists of the pool: c is put in front of one of them, ...        *)
LEMMA AttachBeside ==
  ASSUME NEW a, NEW A, NEW b, NEW B, NEW n \in Links, NEW p \in Links,
         ListOf(a, A, n, p), ListOf(b, B, n, p), A \cap B = {},
         NEW c \in Conns \ (A \cup B), n[c] = Null, p[c] = Null
  PROVE  /\ ListOf(c, A \cup {c}, AttachNext(n, a, c), AttachPrev(p, a, c))
         /\ ListOf(b, B, AttachNext(n, a, c), AttachPrev(p, a, c))
         /\ AttachNext(n, a, c) \in Links
         /\ AttachPrev(p, a, c) \in Links
<1>1. B \subseteq Conns \ (A \cup {c}) /\ c \in Conns \ A
  BY DEF ListOf
<1>2. /\ ListOf(c, A \cup {c}, AttachNext(n, a, c), AttachPrev(p, a, c))
      /\ AttachNext(n, a, c) \in Links
      /\ AttachPrev(p, a, c) \in Links
      /\ \A x \in Conns \ (A \cup {c}) :
           AttachNext(n, a, c)[x] = n[x] /\ AttachPrev(p, a, c)[x] = p[x]
  <2>1. c \in Conns \ A
    BY <1>1
  <2>2. ListOf(a, A, n, p) /\ n \in Links /\ p \in Links /\ n[c] = Null /\ p[c] = Null
    OBVIOUS
  <2> QED
    BY ONLY <2>1, <2>2, Attach
<1>3. \A x \in B : AttachNext(n, a, c)[x] = n[x] /\ AttachPrev(p, a, c)[x] = p[x]
  BY <1>1, <1>2
<1>4. ListOf(b, B, AttachNext(n, a, c), AttachPrev(p, a, c))
  BY <1>3, ListFrame, Zenon
<1> QED
  BY <1>2, <1>4

(* ... or taken out of one, ...                                            *)
LEMMA DetachBeside ==
  ASSUME NEW a, NEW A, NEW b, NEW B, NEW n \in Links, NEW p \in Links,
         ListOf(a, A, n, p), ListOf(b, B, n, p), A \cap B = {}, NEW c \in A
  PROVE  /\ ListOf(DetachPool(a, n, p, c), A \ {c}, DetachNext(n, p, c), DetachPrev(n, p, c))
         /\ ListOf(b, B, DetachNext(n, p, c), DetachPrev(n, p, c))
         /\ DetachNext(n, p, c) \in Links /\ DetachNext(n, p, c)[c] = Null
         /\ DetachPrev(n, p, c) \in Links /\ DetachPrev(n, p, c)[c] = Null
<1>1. B \subseteq Conns \ A
  BY DEF ListOf
<1>2. /\ ListOf(DetachPool(a, n, p, c), A \ {c}, DetachNext(n, p, c), DetachPrev(n, p, c))
      /\ DetachNext(n, p, c) \in Links /\ DetachNext(n, p, c)[c] = Null
      /\ DetachPrev(n, p, c) \in Links /\ DetachPrev(n, p, c)[c] = Null
      /\ \A x \in Conns \ A :
           DetachNext(n, p, c)[x] = n[x] /\ DetachPrev(n, p, c)[x] = p[x]
  <2>1. ListOf(a, A, n, p) /\ n \in Links /\ p \in Links /\ c \in A
    OBVIOUS
  <2>2. ListOf(DetachPool(a, n, p, c), A \ {c}, DetachNext(n, p, c), DetachPrev(n, p, c))
    BY ONLY <2>1, Detach, Zenon
  <2>3. c \in Conns /\ n[c] \in A \cup {Null} /\ p[c] \in A \cup {Null}
    BY DEF ListOf, Doubly
  <2>4. DetachNext(n, p, c) \in Links /\ DetachNext(n, p, c)[c] = Null
    BY <2>3 DEF DetachNext, Links, Pointers
  <2>5. DetachPrev(n, p, c) \in Links /\ DetachPrev(n, p, c)[c] = Null
    BY <2>3 DEF DetachPrev, Links, Pointers
  <2>6. \A x \in Conns \ A :
           DetachNext(n, p, c)[x] = n[x] /\ DetachPrev(n, p, c)[x] = p[x]
    BY <2>3 DEF DetachNext, DetachPrev
  <2> QED
    BY <2>2, <2>4, <2>5, <2>6
<1>3. \A x \in B : DetachNext(n, p, c)[x] = n[x] /\ DetachPrev(n, p, c)[x] = p[x]
  BY <1>1, <1>2
<1>4. ListOf(b, B, DetachNext(n, p, c), DetachPrev(n, p, c))
  BY <1>3, ListFrame, Zenon
<1> QED
  BY <1>2, <1>4

(* ... or moved from one to the other.                                     *)
LEMMA Move ==
  ASSUME NEW a, NEW A, NEW b, NEW B, NEW n \in Links, NEW p \in Links,
         ListOf(a, A, n, p), ListOf(b, B, n, p), A \cap B = {}, NEW c \in A,
         NEW n2, NEW p2,
         n2 = AttachNext(DetachNext(n, p, c), b, c),
         p2 = AttachPrev(DetachPrev(n, p, c), b, c)
  PROVE  /\ ListOf(DetachPool(a, n, p, c), A \ {c}, n2, p2)
         /\ ListOf(c, B \cup {c}, n2, p2)
         /\ n2 \in Links /\ p2 \in Links
<1> DEFINE n1 == DetachNext(n, p, c)
           p1 == DetachPrev(n, p, c)
           a1 == DetachPool(a, n, p, c)
<1>1. c \in Conns \ (B \cup (A \ {c})) /\ B \cap (A \ {c}) = {}
  BY DEF ListOf
<1>2. /\ ListOf(a1, A \ {c}, n1, p1) /\ ListOf(b, B, n1, p1)
      /\ n1 \in Links /\ p1 \in Links /\ n1[c] = Null /\ p1[c] = Null
  <2>1. ListOf(a, A, n, p) /\ ListOf(b, B, n, p) /\ A \cap B = {} /\ c \in A
    OBVIOUS
  <2>2. n \in Links /\ p \in Links
    OBVIOUS
  <2>3. ListOf(a1, A \ {c}, n1, p1) /\ ListOf(b, B, n1, p1)
    BY ONLY <2>1, <2>2, DetachBeside, Zenon
  <2>4. n1 \in Links /\ p1 \in Links
    BY ONLY <2>1, <2>2, DetachBeside, Zenon
  <2>5. n1[c] = Null /\ p1[c] = Null
    BY <1>1 DEF DetachNext, DetachPrev
  <2> QED
    BY <2>3, <2>4, <2>5
<1>3. n2 = AttachNext(n1, b, c) /\ p2 = AttachPrev(p1, b, c)
  OBVIOUS
<1> HIDE DEF n1, p1, a1
<1>4. /\ ListOf(c, B \cup {c}, AttachNext(n1, b, c), AttachPrev(p1, b, c))
      /\ ListOf(a1, A \ {c}, AttachNext(n1, b, c), AttachPrev(p1, b, c))
      /\ AttachNext(n1, b, c) \in Links
      /\ AttachPrev(p1, b, c) \in Links
  BY <1>1, <1>2, AttachBeside, Zenon
<1> QED
  BY <1>3, <1>4 DEF a1

-----------------------------------------------------------------------------
(* The lists are the connections lent to workers, each to one, and the     *)
(* other allocated ones, until Shutdown freed all.                         *)
Users(lent) == {lent[w] : w \in Workers} \ {Null}

Single(lent) == \A v, w \in Workers : lent[v] # Null /\ lent[v] = lent[w] => v = w

Pools(first, spare, n, p, h, lent) ==
  /\ ListOf(first, Users(lent), n, p)
  /\ ListOf(spare, h \ Users(lent), n, p)
  /\ Users(lent) \subseteq h
  /\ Single(lent)

PoolInv ==
  /\ next \in Links
  /\ prev \in Links
  /\ heap \subseteq Conns
  /\ has \in [Workers -> Pointers]
  /\ phase # "down" => Pools(paged, nonPaged, next, prev, heap, has)
  /\ phase = "down" => heap = {} /\ paged = Null /\ nonPaged = Null

(* A worker gets a connection nobody has, ...                              *)
LEMMA UsersLend ==
  ASSUME NEW lent \in [Workers -> Pointers], NEW w \in Workers, lent[w] = Null,
         Single(lent), NEW c \in Conns, c \notin Users(lent)
  PROVE  /\ Users([lent EXCEPT ![w] = c]) = Users(lent) \cup {c}
         /\ Single([lent EXCEPT ![w] = c])
<1> DEFINE l2 == [lent EXCEPT ![w] = c]
<1>1. l2 \in [Workers -> Pointers] /\ l2[w] = c /\ \A v \in Workers \ {w} : l2[v] = lent[v]
  BY DEF Pointers
<1> HIDE DEF l2
<1>2. \A v \in Workers : lent[v] # c
  BY DEF Users
<1>3. Users(l2) = Users(lent) \cup {c}
  BY <1>1 DEF Users
<1>4. Single(l2)
  BY <1>1, <1>2 DEF Single
<1> QED
  BY <1>3, <1>4 DEF l2

(* ... and gives it back.                                                  *)
LEMMA UsersReturn ==
  ASSUME NEW lent \in [Workers -> Pointers], NEW w \in Workers, lent[w] # Null,
         Single(lent)
  PROVE  /\ Users([lent EXCEPT ![w] = Null]) = Users(lent) \ {lent[w]}
         /\ Single([lent EXCEPT ![w] = Null])
         /\ lent[w] \in Users(lent)
<1> DEFINE l2 == [lent EXCEPT ![w] = Null]
<1>1. l2 \in [Workers -> Pointers] /\ l2[w] = Null /\ \A v \in Workers \ {w} : l2[v] = lent[v]
  BY DEF Pointers
<1> HIDE DEF l2
<1>2. \A v \in Workers \ {w} : lent[v] # lent[w]
  BY DEF Single
<1>3. Users(l2) = Users(lent) \ {lent[w]}
  BY <1>1, <1>2 DEF Users
<1>4. Single(l2)
  BY <1>1 DEF Single
<1>5. lent[w] \in Users(lent)
  BY DEF Users
<1> QED
  BY <1>3, <1>4, <1>5 DEF l2

(* What every operation does to the lists and to the sets they hold.       *)
LEMMA PoolsTakeSpare ==
  ASSUME PoolInv, NEW w \in Workers, TakeSpare(w)
  PROVE  /\ PoolInv'
         /\ phase # "down"
         /\ nonPaged \in heap \ Users(has)
         /\ Users(has') = Users(has) \cup {nonPaged}
<1>1. phase # "down" /\ Pools(paged, nonPaged, next, prev, heap, has)
  BY DEF PoolInv, TakeSpare
<1>2. nonPaged \in heap \ Users(has)
  BY <1>1 DEF TakeSpare, Pools, ListOf, Starts
<1>3. has' = [has EXCEPT ![w] = nonPaged] /\ has[w] = Null /\ heap' = heap /\ phase' = phase
  BY DEF TakeSpare, session
<1>4. Users(has') = Users(has) \cup {nonPaged} /\ Single(has')
  BY <1>1, <1>2, <1>3, UsersLend DEF PoolInv, Pools
<1>5. /\ next' = AttachNext(DetachNext(next, prev, nonPaged), paged, nonPaged)
      /\ prev' = AttachPrev(DetachPrev(next, prev, nonPaged), paged, nonPaged)
      /\ nonPaged' = DetachPool(nonPaged, next, prev, nonPaged)
      /\ paged' = nonPaged
  BY DEF TakeSpare
<1>6. /\ ListOf(nonPaged', (heap \ Users(has)) \ {nonPaged}, next', prev')
      /\ ListOf(paged', Users(has) \cup {nonPaged}, next', prev')
      /\ next' \in Links /\ prev' \in Links
  <2>1. /\ ListOf(nonPaged, heap \ Users(has), next, prev)
        /\ ListOf(paged, Users(has), next, prev)
        /\ (heap \ Users(has)) \cap Users(has) = {}
        /\ next \in Links /\ prev \in Links
    BY <1>1 DEF PoolInv, Pools
  <2> QED
    BY <2>1, <1>2, <1>5, Move, Zenon
<1>7. (heap \ Users(has)) \ {nonPaged} = heap' \ Users(has')
  BY <1>3, <1>4
<1>8. has' \in [Workers -> Pointers]
  BY <1>2, <1>3 DEF PoolInv, Pointers
<1> QED
  BY <1>1, <1>2, <1>3, <1>4, <1>6, <1>7, <1>8 DEF PoolInv, Pools

LEMMA PoolsPutBack ==
  ASSUME PoolInv, NEW w \in Workers, PutBack(w)
  PROVE  /\ PoolInv'
         /\ phase # "down"
         /\ has[w] \in Users(has) /\ has[w] \in heap
         /\ Users(has') = Users(has) \ {has[w]}
<1> DEFINE c == has[w]
<1>1. phase # "down" /\ Pools(paged, nonPaged, next, prev, heap, has) /\ c # Null
  BY DEF PoolInv, PutBack
<1>2. has' = [has EXCEPT ![w] = Null] /\ heap' = heap /\ phase' = phase
  BY DEF PutBack, session
<1>3. Users(has') = Users(has) \ {c} /\ Single(has') /\ c \in Users(has)
  BY <1>1, <1>2, UsersReturn DEF PoolInv, Pools
<1>4. /\ next' = AttachNext(DetachNext(next, prev, c), nonPaged, c)
      /\ prev' = AttachPrev(DetachPrev(next, prev, c), nonPaged, c)
      /\ paged' = DetachPool(paged, next, prev, c)
      /\ nonPaged' = c
  BY DEF PutBack
<1>5. /\ ListOf(paged', Users(has) \ {c}, next', prev')
      /\ ListOf(nonPaged', (heap \ Users(has)) \cup {c}, next', prev')
      /\ next' \in Links /\ prev' \in Links
  BY <1>1, <1>3, <1>4, Move DEF PoolInv, Pools
<1>6. (heap \ Users(has)) \cup {c} = heap' \ Users(has') /\ c \in heap
  BY <1>1, <1>2, <1>3 DEF Pools
<1>7. has' \in [Workers -> Pointers]
  BY <1>2 DEF PoolInv, Pointers
<1> QED
  BY <1>1, <1>2, <1>3, <1>5, <1>6, <1>7 DEF PoolInv, Pools

LEMMA PoolsDiscard ==
  ASSUME PoolInv, NEW w \in Workers, Discard(w)
  PROVE  /\ PoolInv'
         /\ phase # "down"
         /\ has[w] \in Users(has) /\ has[w] \in heap
         /\ Users(has') = Users(has) \ {has[w]}
<1> DEFINE c == has[w]
<1>1. phase # "down" /\ Pools(paged, nonPaged, next, prev, heap, has) /\ c # Null
  BY DEF PoolInv, Discard
<1>2. has' = [has EXCEPT ![w] = Null] /\ heap' = heap \ {c} /\ phase' = phase
  BY DEF Discard, session
<1>3. Users(has') = Users(has) \ {c} /\ Single(has') /\ c \in Users(has)
  BY <1>1, <1>2, UsersReturn DEF PoolInv, Pools
<1>4. /\ next' = DetachNext(next, prev, c)
      /\ prev' = DetachPrev(next, prev, c)
      /\ paged' = DetachPool(paged, next, prev, c)
      /\ nonPaged' = nonPaged
  BY DEF Discard
<1>5. /\ ListOf(paged', Users(has) \ {c}, next', prev')
      /\ ListOf(nonPaged', heap \ Users(has), next', prev')
      /\ next' \in Links /\ prev' \in Links
  BY <1>1, <1>3, <1>4, DetachBeside DEF PoolInv, Pools
<1>6. heap \ Users(has) = heap' \ Users(has') /\ c \in heap
  BY <1>1, <1>2, <1>3 DEF Pools
<1>7. has' \in [Workers -> Pointers]
  BY <1>2 DEF PoolInv, Pointers
<1> QED
  BY <1>1, <1>2, <1>3, <1>5, <1>6, <1>7 DEF PoolInv, Pools

(* What Connect and ConnectFails do to all but the lists.                  *)
Opened(w, h, size, d) ==
  \E c \in Conns \ h :
    /\ has' = [has EXCEPT ![w] = c]
    /\ Users(has') = Users(has) \cup {c}
    /\ heap' = h \cup {c}
    /\ driver' = AllocStmt(ConnectDbc(AllocDbc(d, c), c), c)
    /\ quotaPaged' = Size(quotaPaged + 1)
    /\ workingSet' = Size(size + 1)
    /\ failures' = failures

NotOpened(h, size, d) ==
  /\ has' = has
  /\ heap' = h
  /\ \E c \in Conns \ h : \E open \in Attempts(d, c) : driver' = FreeSQLConnection(open, c)
  /\ quotaPaged' = quotaPaged
  /\ workingSet' = Size(size - 1)
  /\ failures < MaxFailures
  /\ failures' = failures + 1

(* A connection is made, from links n and p and allocated connections h:   *)
(* the lists are those of before but for the new connection in front.      *)
LEMMA PoolsConnect ==
  ASSUME NEW w \in Workers, NEW n \in Links, NEW p \in Links, NEW h, NEW size, NEW d,
         h \subseteq Conns, has \in [Workers -> Pointers], has[w] = Null,
         Pools(paged, nonPaged', n, p, h, has),
         phase' = "running",
         Connect(w, n, p, h, size, d)
  PROVE  /\ PoolInv'
         /\ Opened(w, h, size, d)
<1>1. PICK c \in Conns \ h :
        /\ driver' = AllocStmt(ConnectDbc(AllocDbc(d, c), c), c)
        /\ heap' = h \cup {c}
        /\ next' = AttachNext([n EXCEPT ![c] = Null], paged, c)
        /\ prev' = AttachPrev([p EXCEPT ![c] = Null], paged, c)
        /\ paged' = c
        /\ has' = [has EXCEPT ![w] = c]
        /\ quotaPaged' = Size(quotaPaged + 1)
        /\ workingSet' = Size(size + 1)
        /\ failures' = failures
  BY DEF Connect
<1>2. c \notin Users(has)
  BY DEF Pools
<1>3. Users(has') = Users(has) \cup {c} /\ Single(has')
  BY <1>1, <1>2, UsersLend DEF Pools
<1> DEFINE n1 == [n EXCEPT ![c] = Null]
           p1 == [p EXCEPT ![c] = Null]
<1>4. /\ n1 \in Links /\ p1 \in Links /\ n1[c] = Null /\ p1[c] = Null
      /\ \A x \in h : n1[x] = n[x] /\ p1[x] = p[x]
  BY DEF Links, Pointers
<1>5. next' = AttachNext(n1, paged, c) /\ prev' = AttachPrev(p1, paged, c)
  BY <1>1
<1> HIDE DEF n1, p1
<1>6. ListOf(paged, Users(has), n1, p1)
  BY <1>4, ListFrame DEF Pools
<1>7. ListOf(nonPaged', h \ Users(has), n1, p1)
  BY <1>4, ListFrame DEF Pools
<1>8. /\ ListOf(paged', Users(has) \cup {c}, next', prev')
      /\ ListOf(nonPaged', h \ Users(has), next', prev')
      /\ next' \in Links /\ prev' \in Links
  <2>1. c \in Conns \ (Users(has) \cup (h \ Users(has))) /\ Users(has) \cap (h \ Users(has)) = {}
    BY <1>2
  <2>2. /\ ListOf(c, Users(has) \cup {c}, AttachNext(n1, paged, c), AttachPrev(p1, paged, c))
        /\ ListOf(nonPaged', h \ Users(has), AttachNext(n1, paged, c), AttachPrev(p1, paged, c))
        /\ AttachNext(n1, paged, c) \in Links /\ AttachPrev(p1, paged, c) \in Links
    BY <2>1, <1>4, <1>6, <1>7, AttachBeside, Zenon
  <2> QED
    BY <2>2, <1>1, <1>5
<1>9. h \ Users(has) = heap' \ Users(has') /\ Users(has') \subseteq heap' /\ heap' \subseteq Conns
  BY <1>1, <1>3 DEF Pools
<1>10. has' \in [Workers -> Pointers]
  BY <1>1 DEF Pointers
<1>11. Opened(w, h, size, d)
  BY <1>1, <1>3 DEF Opened
<1> QED
  BY <1>1, <1>3, <1>8, <1>9, <1>10, <1>11 DEF PoolInv, Pools

LEMMA PoolsConnectFails ==
  ASSUME NEW n \in Links, NEW p \in Links, NEW h, NEW size, NEW d,
         h \subseteq Conns, has \in [Workers -> Pointers],
         Pools(paged, nonPaged', n, p, h, has),
         phase' = "running",
         ConnectFails(n, p, h, size, d)
  PROVE  PoolInv' /\ NotOpened(h, size, d)
BY DEF ConnectFails, PoolInv, NotOpened

(* The lists GetPool leaves when it freed the dead connection.             *)
LEMMA PoolsDead ==
  ASSUME PoolInv, phase # "down", nonPaged # Null
  PROVE  /\ nonPaged \in heap \ Users(has)
         /\ Pools(paged, DetachPool(nonPaged, next, prev, nonPaged),
                  DetachNext(next, prev, nonPaged), DetachPrev(next, prev, nonPaged),
                  heap \ {nonPaged}, has)
         /\ DetachNext(next, prev, nonPaged) \in Links
         /\ DetachPrev(next, prev, nonPaged) \in Links
<1>1. Pools(paged, nonPaged, next, prev, heap, has)
  BY DEF PoolInv
<1>2. nonPaged \in heap \ Users(has)
  BY <1>1 DEF Pools, ListOf, Starts
<1>3. (heap \ Users(has)) \ {nonPaged} = (heap \ {nonPaged}) \ Users(has)
  OBVIOUS
<1>4. /\ ListOf(DetachPool(nonPaged, next, prev, nonPaged), (heap \ Users(has)) \ {nonPaged},
                DetachNext(next, prev, nonPaged), DetachPrev(next, prev, nonPaged))
      /\ ListOf(paged, Users(has), DetachNext(next, prev, nonPaged), DetachPrev(next, prev, nonPaged))
      /\ DetachNext(next, prev, nonPaged) \in Links
      /\ DetachPrev(next, prev, nonPaged) \in Links
  BY <1>1, <1>2, DetachBeside DEF PoolInv, Pools
<1> QED
  BY <1>1, <1>2, <1>3, <1>4 DEF Pools

LEMMA PoolsConnectNew ==
  ASSUME PoolInv, NEW w \in Workers, ConnectNew(w)
  PROVE  /\ PoolInv'
         /\ heap \ Users(has) = {}
         /\ Opened(w, heap, workingSet, driver) \/ NotOpened(heap, workingSet, driver)
<1>1. /\ phase = "running" /\ phase' = "running" /\ has[w] = Null
      /\ nonPaged = Null /\ nonPaged' = nonPaged
  BY DEF ConnectNew, session
<1>2. /\ Pools(paged, nonPaged', next, prev, heap, has)
      /\ next \in Links /\ prev \in Links /\ heap \subseteq Conns /\ has \in [Workers -> Pointers]
  BY <1>1 DEF PoolInv
<1>3. heap \ Users(has) = {}
  BY <1>1, <1>2 DEF Pools, ListOf, Starts
<1>4. CASE Connect(w, next, prev, heap, workingSet, driver)
  BY <1>1, <1>2, <1>3, <1>4, PoolsConnect
<1>5. CASE ConnectFails(next, prev, heap, workingSet, driver)
  BY <1>1, <1>2, <1>3, <1>5, PoolsConnectFails
<1> QED
  BY <1>4, <1>5 DEF ConnectNew

LEMMA PoolsReplaceDead ==
  ASSUME PoolInv, NEW w \in Workers, ReplaceDead(w)
  PROVE  /\ PoolInv'
         /\ phase # "down"
         /\ nonPaged \in heap \ Users(has)
         /\ \/ Opened(w, heap \ {nonPaged}, workingSet - 1, FreeSQLConnection(driver, nonPaged))
            \/ NotOpened(heap \ {nonPaged}, workingSet - 1, FreeSQLConnection(driver, nonPaged))
<1> DEFINE n == DetachNext(next, prev, nonPaged)
           p == DetachPrev(next, prev, nonPaged)
           h == heap \ {nonPaged}
           d == FreeSQLConnection(driver, nonPaged)
<1>1. /\ phase = "running" /\ phase' = "running" /\ has[w] = Null
      /\ nonPaged # Null /\ nonPaged' = DetachPool(nonPaged, next, prev, nonPaged)
      /\ Connect(w, n, p, h, workingSet - 1, d) \/ ConnectFails(n, p, h, workingSet - 1, d)
  BY DEF ReplaceDead, session
<1>2. /\ nonPaged \in heap \ Users(has)
      /\ Pools(paged, nonPaged', n, p, h, has)
      /\ n \in Links /\ p \in Links
  BY <1>1, PoolsDead
<1>3. h \subseteq Conns /\ has \in [Workers -> Pointers]
  BY DEF PoolInv
<1> HIDE DEF n, p, h, d
<1>4. CASE Connect(w, n, p, h, workingSet - 1, d)
  BY <1>1, <1>2, <1>3, <1>4, PoolsConnect DEF h, d
<1>5. CASE ConnectFails(n, p, h, workingSet - 1, d)
  BY <1>1, <1>2, <1>3, <1>5, PoolsConnectFails DEF h, d
<1> QED
  BY <1>1, <1>4, <1>5

LEMMA PoolsShutdown ==
  ASSUME PoolInv, Shutdown
  PROVE  /\ PoolInv'
         /\ Chain(paged) \cup Chain(nonPaged) = heap
<1>1. Pools(paged, nonPaged, next, prev, heap, has)
  BY DEF PoolInv, Shutdown
<1>2. Chain(paged) = Users(has) /\ Chain(nonPaged) = heap \ Users(has)
  BY <1>1, ChainOfList DEF PoolInv, Pools
<1>3. Chain(paged) \cup Chain(nonPaged) = heap
  BY <1>1, <1>2 DEF Pools
<1>4. /\ heap' = heap \ (Chain(paged) \cup Chain(nonPaged))
      /\ phase' = "down" /\ paged' = Null /\ nonPaged' = Null
      /\ next' = next /\ prev' = prev /\ has' = has
  BY DEF Shutdown
<1> QED
  BY <1>3, <1>4 DEF PoolInv

LEMMA PoolInvInit == Init => PoolInv
<1> SUFFICES ASSUME Init PROVE PoolInv
  OBVIOUS
<1>1. Users(has) = {} /\ heap \ Users(has) = {} /\ Single(has)
  BY DEF Init, Users, Single
<1>2. ListOf(Null, {}, next, prev)
  BY DEF ListOf, Starts, Doubly, Reaches
<1> QED
  BY <1>1, <1>2 DEF Init, PoolInv, Pools, Links, Pointers

LEMMA PoolInvNext == PoolInv /\ [Next]_vars => PoolInv'
<1> SUFFICES ASSUME PoolInv, [Next]_vars PROVE PoolInv'
  OBVIOUS
<1>1. CASE Initialize
  BY <1>1 DEF Initialize, PoolInv, lists
<1>2. ASSUME NEW w \in Workers, GetPool(w) PROVE PoolInv'
  BY <1>2, PoolsTakeSpare, PoolsConnectNew, PoolsReplaceDead DEF GetPool
<1>3. ASSUME NEW w \in Workers, ReleasePool(w) PROVE PoolInv'
  BY <1>3, PoolsPutBack, PoolsDiscard DEF ReleasePool
<1>4. CASE Shutdown
  BY <1>4, PoolsShutdown
<1>5. CASE UNCHANGED vars
  BY <1>5 DEF vars, lists, session, PoolInv
<1> QED
  BY <1>1, <1>2, <1>3, <1>4, <1>5 DEF Next

-----------------------------------------------------------------------------
(* What the driver has open for the connections S and nothing else.        *)
DriverOf(e, S) == [env |-> e, dbc |-> S, up |-> S, stmt |-> S]

DriverInv ==
  /\ sqlEnv \in BOOLEAN
  /\ \E e \in BOOLEAN : driver = DriverOf(e, heap) /\ (e => sqlEnv)

LEMMA DriverOpens ==
  ASSUME NEW e, NEW S, NEW c
  PROVE  AllocStmt(ConnectDbc(AllocDbc(DriverOf(e, S), c), c), c) = DriverOf(e, S \cup {c})
<1> DEFINE T == S \cup {c}
<1>1. AllocDbc(DriverOf(e, S), c) = [env |-> e, dbc |-> T, up |-> S, stmt |-> S]
  BY DEF DriverOf, AllocDbc
<1>2. ConnectDbc([env |-> e, dbc |-> T, up |-> S, stmt |-> S], c)
        = [env |-> e, dbc |-> T, up |-> T, stmt |-> S]
  BY DEF ConnectDbc
<1>3. AllocStmt([env |-> e, dbc |-> T, up |-> T, stmt |-> S], c) = DriverOf(e, T)
  BY DEF DriverOf, AllocStmt
<1> QED
  BY <1>1, <1>2, <1>3

LEMMA DriverFrees ==
  ASSUME NEW e, NEW S, NEW c
  PROVE  FreeSQLConnection(DriverOf(e, S), c) = DriverOf(e, S \ {c})
BY DEF DriverOf, FreeSQLConnection, FreeStmt, DeleteConnection, Disconnect, FreeDbc

(* However far connecting came, what it opened is closed again.            *)
LEMMA DriverAttempt ==
  ASSUME NEW e, NEW S, NEW c, c \notin S, NEW open \in Attempts(DriverOf(e, S), c)
  PROVE  FreeSQLConnection(open, c) = DriverOf(e, S)
<1>1. S \ {c} = S /\ (S \cup {c}) \ {c} = S
  OBVIOUS
<1>2. CASE open = DriverOf(e, S)
  BY <1>1, <1>2, DriverFrees
<1>3. CASE open = Disconnect(AllocDbc(DriverOf(e, S), c), c)
  BY <1>1, <1>3 DEF DriverOf, AllocDbc, FreeSQLConnection, FreeStmt, DeleteConnection, Disconnect, FreeDbc
<1>4. CASE open = ConnectDbc(AllocDbc(DriverOf(e, S), c), c)
  BY <1>1, <1>4 DEF DriverOf, AllocDbc, ConnectDbc, FreeSQLConnection, FreeStmt, DeleteConnection, Disconnect, FreeDbc
<1> QED
  BY <1>2, <1>3, <1>4 DEF Attempts

LEMMA DriverFreesAll ==
  ASSUME NEW e, NEW S
  PROVE  FreeAll(DriverOf(e, S), S) = DriverOf(e, {})
<1> DEFINE d == DriverOf(e, S)
<1>1. ASSUME NEW c \in S
      PROVE  /\ c \notin FreeSQLConnection(d, c).dbc
             /\ c \notin FreeSQLConnection(d, c).up
             /\ c \notin FreeSQLConnection(d, c).stmt
  <2>1. FreeSQLConnection(d, c) = [env |-> e, dbc |-> S \ {c}, up |-> S \ {c}, stmt |-> S \ {c}]
    BY DriverFrees DEF DriverOf
  <2> QED
    BY <2>1
<1>2. d = [env |-> e, dbc |-> S, up |-> S, stmt |-> S]
  BY DEF DriverOf
<1>3. /\ {c \in d.dbc : c \in S => c \in FreeSQLConnection(d, c).dbc} = {}
      /\ {c \in d.up : c \in S => c \in FreeSQLConnection(d, c).up} = {}
      /\ {c \in d.stmt : c \in S => c \in FreeSQLConnection(d, c).stmt} = {}
  BY <1>1, <1>2
<1>4. d.env = e
  BY <1>2
<1> QED
  BY <1>3, <1>4 DEF FreeAll, DriverOf

(* A new connection is opened in the driver, or what was opened is closed. *)
LEMMA DriverConnects ==
  ASSUME NEW e \in BOOLEAN, e => sqlEnv, sqlEnv' = sqlEnv, sqlEnv \in BOOLEAN,
         NEW w, NEW h, NEW size,
         Opened(w, h, size, DriverOf(e, h)) \/ NotOpened(h, size, DriverOf(e, h))
  PROVE  DriverInv'
<1>1. CASE Opened(w, h, size, DriverOf(e, h))
  BY <1>1, DriverOpens DEF Opened, DriverInv
<1>2. CASE NotOpened(h, size, DriverOf(e, h))
  <2>1. PICK c \in Conns \ h : \E open \in Attempts(DriverOf(e, h), c) :
               driver' = FreeSQLConnection(open, c)
    BY <1>2 DEF NotOpened
  <2>2. driver' = DriverOf(e, h) /\ heap' = h
    BY <1>2, <2>1, DriverAttempt DEF NotOpened
  <2> QED
    BY <2>2 DEF DriverInv
<1> QED
  BY <1>1, <1>2

LEMMA DriverInvNext == PoolInv /\ DriverInv /\ [Next]_vars => DriverInv'
<1> SUFFICES ASSUME PoolInv, DriverInv, [Next]_vars PROVE DriverInv'
  OBVIOUS
<1> PICK e \in BOOLEAN : driver = DriverOf(e, heap) /\ (e => sqlEnv)
  BY DEF DriverInv
<1>0. sqlEnv \in BOOLEAN
  BY DEF DriverInv
<1>1. CASE Initialize
  <2>1. \A f \in BOOLEAN : [driver EXCEPT !.env = f] = DriverOf(f, heap)
    BY DEF DriverOf
  <2>2. sqlEnv' = TRUE /\ heap' = heap /\ \E f \in BOOLEAN : driver' = [driver EXCEPT !.env = f]
    BY <1>1 DEF Initialize
  <2> QED
    BY <2>1, <2>2 DEF DriverInv
<1>2. ASSUME NEW w \in Workers, TakeSpare(w) \/ PutBack(w) PROVE DriverInv'
  BY <1>2 DEF TakeSpare, PutBack, session, DriverInv
<1>3. ASSUME NEW w \in Workers, ConnectNew(w) PROVE DriverInv'
  <2>1. sqlEnv' = sqlEnv
    BY <1>3 DEF ConnectNew, session
  <2> QED
    BY <1>0, <1>3, <2>1, PoolsConnectNew, DriverConnects
<1>4. ASSUME NEW w \in Workers, ReplaceDead(w) PROVE DriverInv'
  <2>1. sqlEnv' = sqlEnv
    BY <1>4 DEF ReplaceDead, session
  <2>2. FreeSQLConnection(driver, nonPaged) = DriverOf(e, heap \ {nonPaged})
    BY DriverFrees
  <2> QED
    BY <1>0, <1>4, <2>1, <2>2, PoolsReplaceDead, DriverConnects
<1>5. ASSUME NEW w \in Workers, Discard(w) PROVE DriverInv'
  <2>1. sqlEnv' = sqlEnv /\ heap' = heap \ {has[w]} /\ driver' = FreeSQLConnection(driver, has[w])
    BY <1>5 DEF Discard, session
  <2> QED
    BY <1>0, <2>1, DriverFrees DEF DriverInv
<1>6. CASE Shutdown
  <2>1. Chain(paged) \cup Chain(nonPaged) = heap /\ heap' = {}
    BY <1>6, PoolsShutdown DEF Shutdown
  <2>2. /\ sqlEnv' = FALSE
        /\ driver' = IF sqlEnv THEN FreeEnv(FreeAll(driver, heap)) ELSE FreeAll(driver, heap)
    BY <1>6, <2>1 DEF Shutdown
  <2>3. FreeAll(driver, heap) = DriverOf(e, {})
    BY DriverFreesAll
  <2>4. FreeEnv(DriverOf(e, {})) = DriverOf(FALSE, {})
    BY DEF FreeEnv, DriverOf
  <2>5. driver' = DriverOf(FALSE, {})
    BY <2>2, <2>3, <2>4, <1>0
  <2> QED
    BY <2>1, <2>2, <2>5 DEF DriverInv
<1>7. CASE UNCHANGED vars
  BY <1>7 DEF vars, session, DriverInv
<1> QED
  BY <1>1, <1>2, <1>3, <1>4, <1>5, <1>6, <1>7 DEF Next, GetPool, ReleasePool

-----------------------------------------------------------------------------
(* The arithmetic of SIZE_T: the quotient and the remainder are unique, so *)
(* that a counter may wrap around now or later.                            *)
LEMMA ModUnique ==
  ASSUME NEW m \in Nat \ {0}, NEW a \in Int, NEW q \in Int, NEW r \in 0 .. m - 1,
         a = m * q + r
  PROVE  a % m = r
<1>1. a % m \in 0 .. m - 1 /\ (a \div m) \in Int
  OBVIOUS
<1>2. a = m * (a \div m) + (a % m)
  OBVIOUS
<1>3. ASSUME NEW x \in Int, NEW y \in Int, x > y PROVE m * x >= m * y + m
  <2>1. x - y - 1 \in Nat
    BY <1>3
  <2>2. m * (x - y - 1) \in Nat
    BY <2>1
  <2>3. m * (x - y - 1) = m * x - m * y - m
    OBVIOUS
  <2> QED
    BY <2>2, <2>3
<1>4. ~ (q > a \div m)
  BY <1>1, <1>2, <1>3
<1>5. ~ (q < a \div m)
  BY <1>1, <1>2, <1>3
<1> QED
  BY <1>1, <1>2, <1>4, <1>5

LEMMA SizeType == ASSUME NEW a \in Int PROVE Size(a) \in 0 .. SizeRange - 1
BY SizeAssumption DEF Size

LEMMA SizeShift ==
  ASSUME NEW a \in Int, NEW k \in Int
  PROVE  Size(Size(a) + k) = Size(a + k)
<1> DEFINE m == SizeRange
<1>0. m \in Nat \ {0}
  BY SizeAssumption
<1> HIDE DEF m
<1>1. PICK b \in Int : b = (a % m) + k
  BY <1>0
<1>2. PICK q \in Int : a = m * q + (a % m)
  <2>1. (a \div m) \in Int /\ a = m * (a \div m) + (a % m)
    BY <1>0
  <2> QED
    BY <2>1
<1>3. PICK s \in Int, r \in 0 .. m - 1 : r = b % m /\ b = m * s + r
  <2>1. b % m \in 0 .. m - 1 /\ (b \div m) \in Int /\ b = m * (b \div m) + (b % m)
    BY <1>0
  <2> QED
    BY <2>1
<1>4. a + k = m * (q + s) + r
  <2>1. m * (q + s) = m * q + m * s
    BY <1>0
  <2>2. a + k = m * q + b
    BY <1>0, <1>1, <1>2
  <2>3. m * q \in Int /\ m * s \in Int
    BY <1>0
  <2> QED
    BY <1>3, <2>1, <2>2, <2>3
<1>5. q + s \in Int /\ a + k \in Int
  OBVIOUS
<1>6. (a + k) % m = r
  BY ONLY <1>0, <1>4, <1>5, ModUnique, r \in 0 .. m - 1
<1> QED
  BY <1>1, <1>3, <1>6 DEF Size, m

(* No set of connections is so large that its size wraps around.           *)
LEMMA CountFits ==
  ASSUME NEW S, S \subseteq Conns
  PROVE  IsFiniteSet(S) /\ Cardinality(S) \in 0 .. SizeRange - 1 /\ Size(Cardinality(S)) = Cardinality(S)
<1>1. IsFiniteSet(S) /\ Cardinality(S) <= Cardinality(Conns)
  BY ConnsAssumption, FS_Subset
<1>2. Cardinality(S) \in Nat /\ Cardinality(Conns) \in Nat
  BY <1>1, ConnsAssumption, FS_CardinalityType
<1>3. Cardinality(S) \in 0 .. SizeRange - 1
  BY <1>1, <1>2, ConnsAssumption, SizeAssumption
<1> QED
  BY <1>1, <1>3, SizeAssumption DEF Size

LEMMA CountAdd ==
  ASSUME NEW S, S \subseteq Conns, NEW c \in Conns, c \notin S
  PROVE  /\ Cardinality(S \cup {c}) = Cardinality(S) + 1
         /\ Size(Cardinality(S) + 1) = Cardinality(S \cup {c})
<1>1. Cardinality(S \cup {c}) = Cardinality(S) + 1
  BY CountFits, FS_AddElement
<1>2. S \cup {c} \subseteq Conns
  OBVIOUS
<1> QED
  BY <1>1, <1>2, CountFits

LEMMA CountRemove ==
  ASSUME NEW S, S \subseteq Conns, NEW c \in S
  PROVE  /\ Cardinality(S \ {c}) = Cardinality(S) - 1
         /\ Size(Cardinality(S) - 1) = Cardinality(S \ {c})
<1>1. Cardinality(S \ {c}) = Cardinality(S) - 1
  BY CountFits, FS_RemoveElement
<1>2. S \ {c} \subseteq Conns
  OBVIOUS
<1> QED
  BY <1>1, <1>2, CountFits

CountInv ==
  /\ failures \in 0 .. MaxFailures
  /\ quotaPaged \in 0 .. SizeRange - 1
  /\ quotaNonPaged \in 0 .. SizeRange - 1
  /\ workingSet = Size(Cardinality(heap) - failures)
  /\ phase # "down" => /\ quotaPaged = Cardinality(Users(has))
                       /\ quotaNonPaged = Cardinality(heap \ Users(has))

(* The counters after a connect, size being what is left of the working    *)
(* set size of n connections before it: h is smaller by one than heap when *)
(* a dead connection was freed.                                            *)
LEMMA CountConnects ==
  ASSUME PoolInv, CountInv, NEW w, NEW d, NEW h, h \subseteq Conns, Users(has) \subseteq h,
         NEW k \in Int, NEW size, size = workingSet + k,
         Cardinality(heap) + k = Cardinality(h),
         quotaPaged = Cardinality(Users(has)),
         quotaNonPaged' = Cardinality(h \ Users(has)),
         Opened(w, h, size, d) \/ NotOpened(h, size, d)
  PROVE  CountInv'
<1>1. /\ failures \in 0 .. MaxFailures /\ Cardinality(heap) \in Nat /\ Cardinality(h) \in Nat
      /\ workingSet = Size(Cardinality(heap) - failures)
      /\ MaxFailures \in Nat
  BY CountFits, SizeAssumption DEF CountInv, PoolInv
<1>2. \A j \in Int : Size(size + j) = Size(Cardinality(h) - failures + j)
  <2>1. TAKE j \in Int
  <2>2. size + j = Size(Cardinality(heap) - failures) + (k + j)
    BY <1>1, SizeType
  <2>3. Size(Size(Cardinality(heap) - failures) + (k + j)) = Size(Cardinality(heap) - failures + (k + j))
    BY <1>1, SizeShift
  <2>4. Cardinality(heap) - failures + (k + j) = Cardinality(h) - failures + j
    BY <1>1
  <2> QED
    BY <2>2, <2>3, <2>4
<1>3. quotaNonPaged' \in 0 .. SizeRange - 1
  <2>1. h \ Users(has) \subseteq Conns
    OBVIOUS
  <2> QED
    BY <2>1, CountFits
<1>4. CASE Opened(w, h, size, d)
  <2>1. PICK c \in Conns \ h :
          /\ Users(has') = Users(has) \cup {c} /\ heap' = h \cup {c}
          /\ quotaPaged' = Size(quotaPaged + 1) /\ workingSet' = Size(size + 1)
          /\ failures' = failures
    BY <1>4 DEF Opened
  <2>2. quotaPaged' = Cardinality(Users(has'))
    BY <2>1, CountAdd
  <2>3. heap' \ Users(has') = h \ Users(has)
    BY <2>1
  <2>4. workingSet' = Size(Cardinality(heap') - failures')
    <3>1. Cardinality(heap') = Cardinality(h) + 1
      BY <2>1, CountAdd
    <3>2. Cardinality(heap') - failures' = Cardinality(h) - failures + 1
      BY <1>1, <2>1, <3>1
    <3> QED
      BY <1>2, <2>1, <3>2
  <2>5. quotaPaged' \in 0 .. SizeRange - 1
    <3>1. Users(has') \subseteq Conns
      BY <2>1
    <3> QED
      BY <2>2, <3>1, CountFits
  <2> QED
    BY <1>1, <1>3, <2>1, <2>2, <2>3, <2>4, <2>5 DEF CountInv
<1>5. CASE NotOpened(h, size, d)
  <2>1. /\ has' = has /\ heap' = h /\ quotaPaged' = quotaPaged
        /\ workingSet' = Size(size - 1)
        /\ failures < MaxFailures /\ failures' = failures + 1
    BY <1>5 DEF NotOpened
  <2>2. workingSet' = Size(Cardinality(heap') - failures')
    <3>1. Size(size + (-1)) = Size(Cardinality(h) - failures + (-1))
      BY <1>2
    <3>2. size \in Int
      BY <1>1, SizeType
    <3>3. size - 1 = size + (-1) /\ Cardinality(h) - failures + (-1) = Cardinality(heap') - failures'
      BY <1>1, <2>1, <3>2
    <3> QED
      BY <2>1, <3>1, <3>3
  <2>3. failures' \in 0 .. MaxFailures
    BY <1>1, <2>1
  <2> QED
    BY <1>3, <2>1, <2>2, <2>3 DEF CountInv
<1> QED
  BY <1>4, <1>5

LEMMA CountInvNext == PoolInv /\ CountInv /\ [Next]_vars => CountInv'
<1> SUFFICES ASSUME PoolInv, CountInv, [Next]_vars PROVE CountInv'
  OBVIOUS
<1>0. /\ heap \subseteq Conns
      /\ phase # "down" => Users(has) \subseteq heap
      /\ IsFiniteSet(heap) /\ Cardinality(heap) \in Nat /\ failures \in 0 .. MaxFailures
  BY CountFits DEF PoolInv, Pools, CountInv
<1>1. CASE Initialize
  BY <1>1 DEF Initialize, counters, CountInv
<1>2. ASSUME NEW w \in Workers, TakeSpare(w) PROVE CountInv'
  <2>1. /\ phase # "down" /\ nonPaged \in heap \ Users(has)
        /\ Users(has') = Users(has) \cup {nonPaged}
    BY <1>2, PoolsTakeSpare
  <2>2. /\ quotaPaged' = Size(quotaPaged + 1) /\ quotaNonPaged' = Size(quotaNonPaged - 1)
        /\ UNCHANGED <<workingSet, heap, failures, phase>>
    BY <1>2 DEF TakeSpare, session
  <2>3. quotaPaged' = Cardinality(Users(has'))
    BY <1>0, <2>1, <2>2, CountAdd DEF CountInv
  <2>4. heap \ Users(has') = (heap \ Users(has)) \ {nonPaged}
    BY <2>1
  <2>5. quotaNonPaged' = Cardinality(heap \ Users(has'))
    BY <1>0, <2>1, <2>2, <2>4, CountRemove DEF CountInv
  <2>6. Users(has') \subseteq Conns /\ heap \ Users(has') \subseteq Conns
    BY <1>0, <2>1
  <2>7. quotaPaged' \in 0 .. SizeRange - 1 /\ quotaNonPaged' \in 0 .. SizeRange - 1
    BY <2>3, <2>5, <2>6, CountFits
  <2> QED
    BY <2>2, <2>3, <2>5, <2>7 DEF CountInv
<1>3. ASSUME NEW w \in Workers, ConnectNew(w) PROVE CountInv'
  <2>1. phase = "running" /\ quotaNonPaged' = quotaNonPaged
    BY <1>3 DEF ConnectNew
  <2>2. Opened(w, heap, workingSet, driver) \/ NotOpened(heap, workingSet, driver)
    BY <1>3, PoolsConnectNew
  <2>3. workingSet \in Int /\ workingSet = workingSet + 0 /\ Cardinality(heap) + 0 = Cardinality(heap)
    BY <1>0, SizeType DEF CountInv
  <2>4. quotaPaged = Cardinality(Users(has)) /\ quotaNonPaged = Cardinality(heap \ Users(has))
    BY <2>1 DEF CountInv
  <2> QED
    BY <1>0, <2>1, <2>2, <2>3, <2>4, CountConnects
<1>4. ASSUME NEW w \in Workers, ReplaceDead(w) PROVE CountInv'
  <2> DEFINE h == heap \ {nonPaged}
  <2>1. /\ phase # "down" /\ nonPaged \in heap \ Users(has)
        /\ \/ Opened(w, h, workingSet - 1, FreeSQLConnection(driver, nonPaged))
           \/ NotOpened(h, workingSet - 1, FreeSQLConnection(driver, nonPaged))
    BY <1>4, PoolsReplaceDead
  <2>2. quotaNonPaged' = Size(quotaNonPaged - 1)
    BY <1>4 DEF ReplaceDead
  <2>3. quotaPaged = Cardinality(Users(has)) /\ quotaNonPaged = Cardinality(heap \ Users(has))
    BY <2>1 DEF CountInv
  <2>4. h \ Users(has) = (heap \ Users(has)) \ {nonPaged} /\ heap \ Users(has) \subseteq Conns
    BY <1>0
  <2>5. quotaNonPaged' = Cardinality(h \ Users(has))
    BY <2>1, <2>2, <2>3, <2>4, CountRemove
  <2>6. Cardinality(heap) + (-1) = Cardinality(h)
    BY <1>0, <2>1, CountRemove
  <2>7. workingSet - 1 = workingSet + (-1)
    BY <1>0, SizeType DEF CountInv
  <2>8. h \subseteq Conns /\ Users(has) \subseteq h
    BY <1>0, <2>1
  <2> HIDE DEF h
  <2> QED
    BY <2>1, <2>3, <2>5, <2>6, <2>7, <2>8, CountConnects
<1>5. ASSUME NEW w \in Workers, PutBack(w) PROVE CountInv'
  <2>1. /\ phase # "down" /\ has[w] \in Users(has) /\ has[w] \in heap
        /\ Users(has') = Users(has) \ {has[w]}
    BY <1>5, PoolsPutBack
  <2>2. /\ quotaPaged' = Size(quotaPaged - 1) /\ quotaNonPaged' = Size(quotaNonPaged + 1)
        /\ UNCHANGED <<workingSet, heap, failures, phase>>
    BY <1>5 DEF PutBack, session
  <2>3. Users(has) \subseteq Conns /\ heap \ Users(has) \subseteq Conns /\ has[w] \in Conns
    BY <1>0, <2>1
  <2>4. quotaPaged' = Cardinality(Users(has'))
    BY <2>1, <2>2, <2>3, CountRemove DEF CountInv
  <2>5. heap \ Users(has') = (heap \ Users(has)) \cup {has[w]}
    BY <2>1
  <2>6. quotaNonPaged' = Cardinality(heap \ Users(has'))
    BY <2>1, <2>2, <2>3, <2>5, CountAdd DEF CountInv
  <2>7. Users(has') \subseteq Conns /\ heap \ Users(has') \subseteq Conns
    BY <1>0, <2>1, <2>3
  <2>8. quotaPaged' \in 0 .. SizeRange - 1 /\ quotaNonPaged' \in 0 .. SizeRange - 1
    BY <2>4, <2>6, <2>7, CountFits
  <2> QED
    BY <2>2, <2>4, <2>6, <2>8 DEF CountInv
<1>6. ASSUME NEW w \in Workers, Discard(w) PROVE CountInv'
  <2>1. /\ phase # "down" /\ has[w] \in Users(has) /\ has[w] \in heap
        /\ Users(has') = Users(has) \ {has[w]}
    BY <1>6, PoolsDiscard
  <2>2. /\ quotaPaged' = Size(quotaPaged - 1) /\ workingSet' = Size(workingSet - 1)
        /\ heap' = heap \ {has[w]}
        /\ UNCHANGED <<quotaNonPaged, failures, phase>>
    BY <1>6 DEF Discard, session
  <2>3. Users(has) \subseteq Conns /\ has[w] \in Conns
    BY <1>0, <2>1
  <2>4. quotaPaged' = Cardinality(Users(has')) /\ quotaPaged' \in 0 .. SizeRange - 1
    <3>1. quotaPaged' = Cardinality(Users(has'))
      BY <2>1, <2>2, <2>3, CountRemove DEF CountInv
    <3>2. Users(has') \subseteq Conns
      BY <2>1, <2>3
    <3> QED
      BY <3>1, <3>2, CountFits
  <2>5. heap' \ Users(has') = heap \ Users(has)
    BY <2>1, <2>2
  <2>6. workingSet' = Size(Cardinality(heap') - failures')
    <3>1. Cardinality(heap') = Cardinality(heap) - 1
      BY <1>0, <2>1, <2>2, CountRemove
    <3>2. Size(Size(Cardinality(heap) - failures) + (-1)) = Size(Cardinality(heap) - failures + (-1))
      BY <1>0, SizeShift
    <3>3. Cardinality(heap) - failures + (-1) = Cardinality(heap') - failures'
      BY <1>0, <2>2, <3>1
    <3>4. workingSet - 1 = Size(Cardinality(heap) - failures) + (-1)
      BY <1>0, SizeType DEF CountInv
    <3> QED
      BY <2>2, <3>2, <3>3, <3>4
  <2> QED
    BY <2>2, <2>4, <2>5, <2>6 DEF CountInv
<1>7. CASE Shutdown
  <2>1. Chain(paged) \cup Chain(nonPaged) = heap
    BY <1>7, PoolsShutdown
  <2>2. /\ heap' = {} /\ workingSet' = Size(workingSet - Cardinality(heap))
        /\ phase' = "down" /\ UNCHANGED <<quotaPaged, quotaNonPaged, failures>>
    BY <1>7, <2>1 DEF Shutdown
  <2>3. workingSet' = Size(Cardinality(heap') - failures')
    <3>1. Size(Size(Cardinality(heap) - failures) + (- Cardinality(heap)))
            = Size(Cardinality(heap) - failures + (- Cardinality(heap)))
      BY <1>0, SizeShift
    <3>2. Cardinality(heap) - failures + (- Cardinality(heap)) = 0 - failures
      BY <1>0
    <3>3. workingSet - Cardinality(heap) = Size(Cardinality(heap) - failures) + (- Cardinality(heap))
      BY <1>0, SizeType DEF CountInv
    <3>4. Cardinality(heap') = 0
      BY <2>2, FS_EmptySet
    <3> QED
      BY <2>2, <3>1, <3>2, <3>3, <3>4
  <2> QED
    BY <2>2, <2>3 DEF CountInv
<1>8. CASE UNCHANGED vars
  BY <1>8 DEF vars, counters, session, CountInv
<1> QED
  BY <1>1, <1>2, <1>3, <1>4, <1>5, <1>6, <1>7, <1>8 DEF Next, GetPool, ReleasePool

-----------------------------------------------------------------------------
(* All of it is inductive.                                                 *)
IInv ==
  /\ PoolInv
  /\ DriverInv
  /\ CountInv
  /\ phase \in {"new", "failed", "running", "down"}

LEMMA IInvInit == Init => IInv
<1> SUFFICES ASSUME Init PROVE IInv
  OBVIOUS
<1>1. PoolInv
  BY PoolInvInit
<1>2. DriverInv
  BY DEF Init, DriverInv, DriverOf
<1>3. CountInv
  <2>1. Users(has) = {} /\ heap = {}
    BY DEF Init, Users
  <2>2. Cardinality({}) = 0 /\ {} \subseteq Conns
    BY FS_EmptySet
  <2>3. Size(0 - 0) = 0 /\ 0 \in 0 .. SizeRange - 1
    BY <2>2, CountFits, SizeAssumption
  <2> QED
    BY <2>1, <2>2, <2>3, SizeAssumption DEF Init, CountInv
<1> QED
  BY <1>1, <1>2, <1>3 DEF Init, IInv

LEMMA IInvNext == IInv /\ [Next]_vars => IInv'
<1>1. ASSUME IInv, [Next]_vars PROVE phase' \in {"new", "failed", "running", "down"}
  BY <1>1 DEF IInv, Next, vars, session, Initialize, GetPool, TakeSpare, ConnectNew, ReplaceDead,
              ReleasePool, PutBack, Discard, Shutdown
<1> QED
  BY <1>1, PoolInvNext, DriverInvNext, CountInvNext DEF IInv

LEMMA Invariant == Spec => []IInv
BY IInvInit, IInvNext, PTL DEF Spec

(* The spare connections are those allocated that no worker has.           *)
SpareLeft == Chain(nonPaged) = heap \ Users(has)

LEMMA SpareIsLeft == PoolInv => SpareLeft
<1> SUFFICES ASSUME PoolInv PROVE SpareLeft
  OBVIOUS
<1>1. CASE phase = "down"
  BY <1>1 DEF PoolInv, SpareLeft, Chain
<1>2. CASE phase # "down"
  BY <1>2, ChainOfList DEF PoolInv, Pools, SpareLeft
<1> QED
  BY <1>1, <1>2

-----------------------------------------------------------------------------
(* The pointers stay pointers, the counters values of SIZE_T.              *)
THEOREM PoolTypes == Spec => []TypeOK
<1>1. IInv => TypeOK
  <2> SUFFICES ASSUME IInv PROVE TypeOK
    OBVIOUS
  <2>1. paged \in Pointers /\ nonPaged \in Pointers
    BY DEF IInv, PoolInv, Pools, ListOf, Starts, Pointers
  <2>2. workingSet \in 0 .. SizeRange - 1
    <3>1. Cardinality(heap) - failures \in Int
      BY CountFits DEF IInv, PoolInv, CountInv
    <3> QED
      BY <3>1, SizeType DEF IInv, CountInv
  <2>3. /\ driver.env \in BOOLEAN
        /\ driver.dbc \subseteq Conns /\ driver.up \subseteq Conns /\ driver.stmt \subseteq Conns
    BY DEF IInv, DriverInv, DriverOf, PoolInv
  <2> QED
    BY <2>1, <2>2, <2>3 DEF IInv, PoolInv, CountInv, DriverInv, TypeOK, Links
<1> QED
  BY <1>1, Invariant, PTL

(* The links of the two lists stay inverse to one another and within one   *)
(* list, wherever DetachPool takes a connection out.                       *)
THEOREM ListsLinked == Spec => []Linked
<1>1. IInv => Linked
  <2> SUFFICES ASSUME IInv, phase # "down", NEW c \in heap
               PROVE  /\ next[c] # Null => /\ next[c] \in heap
                                           /\ SameList(c, next[c])
                                           /\ prev[next[c]] = c
                      /\ prev[c] # Null => /\ prev[c] \in heap
                                           /\ SameList(c, prev[c])
                                           /\ next[prev[c]] = c
                      /\ prev[c] = Null => c = IF c \in InUse THEN paged ELSE nonPaged
    BY DEF Linked
  <2>1. Pools(paged, nonPaged, next, prev, heap, has) /\ InUse = Users(has)
    BY DEF IInv, PoolInv, InUse, Users
  <2>2. CASE c \in Users(has)
    BY <2>1, <2>2 DEF Pools, ListOf, Starts, Doubly, SameList
  <2>3. CASE c \in heap \ Users(has)
    BY <2>1, <2>3 DEF Pools, ListOf, Starts, Doubly, SameList
  <2> QED
    BY <2>2, <2>3
<1> QED
  BY <1>1, Invariant, PTL

(* The lists are all connections in use and all spare ones, so that        *)
(* Shutdown frees every connection there is.                               *)
THEOREM NoConnectionLost == Spec => []NoneLost
<1>1. IInv => NoneLost
  <2> SUFFICES ASSUME IInv PROVE NoneLost
    OBVIOUS
  <2>1. InUse = Users(has)
    BY DEF InUse, Users
  <2>2. phase # "down" => Chain(paged) = Users(has) /\ Chain(nonPaged) = heap \ Users(has)
    BY ChainOfList DEF IInv, PoolInv, Pools
  <2> QED
    BY <2>1, <2>2 DEF NoneLost, IInv, PoolInv
<1> QED
  BY <1>1, Invariant, PTL

(* The quotas are the lengths of the lists, and the working set size the   *)
(* number of connections less one for every connect that failed.           *)
THEOREM CountersAgree == Spec => []Accounts
<1>1. IInv => Accounts
  BY DEF IInv, CountInv, Accounts, InUse, Users
<1> QED
  BY <1>1, Invariant, PTL

(* No handle of the driver outlives its connection, and none is missing.   *)
THEOREM DriverAgrees == Spec => []DriverFollows
<1>1. IInv => DriverFollows
  BY DEF IInv, DriverInv, DriverOf, DriverFollows
<1> QED
  BY <1>1, Invariant, PTL

-----------------------------------------------------------------------------
(* A connect, seen from outside: a worker gets a new connection, or none;  *)
(* closed is the dead connection that was freed, or nothing.               *)
LEMMA RefinesConnect ==
  ASSUME PoolInv, SpareLeft, SpareLeft', NEW w \in Workers, has[w] = Null,
         NEW closed, closed \subseteq heap \ Users(has),
         IF heap \ Users(has) = {} THEN closed = {} ELSE \E c \in heap \ Users(has) : closed = {c},
         phase # "down", NEW size, NEW d,
         Opened(w, heap \ closed, size, d) \/ NotOpened(heap \ closed, size, d)
  PROVE  CS!CSNext
<1>1. Users(has) \subseteq heap /\ heap \subseteq Conns
  BY DEF PoolInv, Pools
<1>2. CASE Opened(w, heap \ closed, size, d)
  <2>1. PICK c \in Conns \ (heap \ closed) :
          /\ has' = [has EXCEPT ![w] = c]
          /\ Users(has') = Users(has) \cup {c}
          /\ heap' = (heap \ closed) \cup {c}
    BY <1>2 DEF Opened
  <2>2. \A v \in Workers : has[v] # c
    BY <1>1 DEF Users
  <2>3. heap' \ Users(has') = (heap \ Users(has)) \ closed
    BY <1>1, <2>1
  <2>4. CS!OpenFor(w, closed, c)
    BY <1>1, <2>1, <2>2, <2>3 DEF CS!OpenFor, SpareLeft
  <2>5. closed \in SUBSET Chain(nonPaged) /\ c \in Conns
    BY DEF SpareLeft
  <2> QED
    BY <2>4, <2>5 DEF CS!CSNext
<1>3. CASE NotOpened(heap \ closed, size, d)
  <2>1. CS!OpenFails(closed)
    BY <1>3 DEF NotOpened, CS!OpenFails, SpareLeft
  <2>2. closed \in SUBSET Chain(nonPaged)
    BY DEF SpareLeft
  <2> QED
    BY <2>1, <2>2 DEF CS!CSNext
<1> QED
  BY <1>2, <1>3

LEMMA RefinesConnectionSets ==
  PoolInv /\ SpareLeft /\ SpareLeft' /\ [Next]_vars => [CS!CSNext]_CS!csVars
<1> SUFFICES ASSUME PoolInv, SpareLeft, SpareLeft', [Next]_vars
             PROVE  CS!CSNext \/ UNCHANGED CS!csVars
  OBVIOUS
<1>0. heap \subseteq Conns /\ (phase # "down" => Users(has) \subseteq heap)
  BY DEF PoolInv, Pools
<1>1. CASE Initialize
  BY <1>1 DEF Initialize, SpareLeft, CS!csVars
<1>2. ASSUME NEW w \in Workers, TakeSpare(w) PROVE CS!CSNext
  <2>1. /\ nonPaged \in heap \ Users(has)
        /\ Users(has') = Users(has) \cup {nonPaged}
        /\ heap' = heap /\ has[w] = Null /\ has' = [has EXCEPT ![w] = nonPaged]
    BY <1>2, PoolsTakeSpare DEF TakeSpare
  <2>2. CS!Lend(w, nonPaged)
    BY <2>1 DEF CS!Lend, SpareLeft
  <2> QED
    BY <1>0, <2>1, <2>2 DEF CS!CSNext
<1>3. ASSUME NEW w \in Workers, ConnectNew(w) PROVE CS!CSNext
  <2>1. has[w] = Null /\ phase # "down"
    BY <1>3 DEF ConnectNew
  <2>2. /\ heap \ Users(has) = {} /\ heap \ {} = heap
        /\ Opened(w, heap, workingSet, driver) \/ NotOpened(heap, workingSet, driver)
    BY <1>3, PoolsConnectNew
  <2> QED
    BY <2>1, <2>2, RefinesConnect
<1>4. ASSUME NEW w \in Workers, ReplaceDead(w) PROVE CS!CSNext
  <2>1. has[w] = Null
    BY <1>4 DEF ReplaceDead
  <2> QED
    BY <1>4, <2>1, PoolsReplaceDead, RefinesConnect
<1>5. ASSUME NEW w \in Workers, PutBack(w) PROVE CS!CSNext
  <2>1. /\ has[w] \in Users(has) /\ has[w] \in heap
        /\ Users(has') = Users(has) \ {has[w]}
        /\ heap' = heap /\ has' = [has EXCEPT ![w] = Null]
    BY <1>5, PoolsPutBack DEF PutBack
  <2>2. CS!GiveBack(w, TRUE)
    BY <2>1 DEF CS!GiveBack, SpareLeft, Users
  <2> QED
    BY <2>2 DEF CS!CSNext
<1>6. ASSUME NEW w \in Workers, Discard(w) PROVE CS!CSNext
  <2>1. /\ has[w] \in Users(has) /\ has[w] \in heap
        /\ Users(has') = Users(has) \ {has[w]}
        /\ heap' = heap \ {has[w]} /\ has' = [has EXCEPT ![w] = Null]
    BY <1>6, PoolsDiscard DEF Discard
  <2>2. CS!GiveBack(w, FALSE)
    BY <2>1 DEF CS!GiveBack, SpareLeft, Users
  <2> QED
    BY <2>2 DEF CS!CSNext
<1>7. CASE Shutdown
  <2>1. heap' = {} /\ has' = has
    BY <1>7, PoolsShutdown DEF Shutdown
  <2>2. CS!CloseAll
    BY <2>1 DEF CS!CloseAll, SpareLeft
  <2> QED
    BY <2>2 DEF CS!CSNext
<1>8. CASE UNCHANGED vars
  BY <1>8 DEF vars, SpareLeft, CS!csVars
<1> QED
  BY <1>1, <1>2, <1>3, <1>4, <1>5, <1>6, <1>7, <1>8 DEF Next, GetPool, ReleasePool

(* The two lists keep what ConnectionSets promises of two sets.            *)
THEOREM ImplementsSets == Spec => ImplementsConnectionSets
<1>1. Init => CS!CSInit
  BY DEF Init, CS!CSInit, Chain
<1>2. PoolInv => SpareLeft
  BY SpareIsLeft
<1> QED
  BY <1>1, <1>2, PoolInvInit, PoolInvNext, RefinesConnectionSets, PTL
     DEF Spec, ImplementsConnectionSets, CS!CSSpec

-----------------------------------------------------------------------------
(* What the promise is worth.  A connection lent to a worker is lent to no *)
(* other, and is not spare, so that GetPool (SQLPool.cpp:221) can give it  *)
(* to nobody else.                                                         *)
OneUser ==
  \A w \in Workers : has[w] # Null =>
    /\ has[w] \notin Chain(nonPaged)
    /\ \A v \in Workers : has[v] = has[w] => v = w

CSInv ==
  /\ has \in [Workers -> Conns \cup {Null}]
  /\ OneUser

LEMMA CSInvInit == CS!CSInit => CSInv
BY DEF CS!CSInit, CSInv, OneUser

LEMMA CSInvNext == CSInv /\ [CS!CSNext]_CS!csVars => CSInv'
<1> SUFFICES ASSUME CSInv, [CS!CSNext]_CS!csVars PROVE CSInv'
  OBVIOUS
<1>1. ASSUME NEW w \in Workers, NEW c \in Conns, has[w] = Null,
             CS!Lend(w, c) \/ \E closed \in SUBSET Chain(nonPaged) : CS!OpenFor(w, closed, c)
      PROVE  CSInv'
  <2>1. has' = [has EXCEPT ![w] = c] /\ Chain(nonPaged)' \subseteq Chain(nonPaged)
          /\ c \notin Chain(nonPaged)'
    BY <1>1 DEF CS!Lend, CS!OpenFor
  <2>2. \A v \in Workers : has[v] = c /\ c # Null => v = w
    BY <1>1 DEF CSInv, OneUser, CS!Lend, CS!OpenFor
  <2> QED
    BY <2>1, <2>2 DEF CSInv, OneUser
<1>2. ASSUME NEW closed \in SUBSET Chain(nonPaged), CS!OpenFails(closed)
      PROVE  CSInv'
  BY <1>2 DEF CSInv, OneUser, CS!OpenFails
<1>3. ASSUME NEW w \in Workers, NEW kept \in BOOLEAN, CS!GiveBack(w, kept)
      PROVE  CSInv'
  BY <1>3 DEF CSInv, OneUser, CS!GiveBack
<1>4. CASE CS!CloseAll
  BY <1>4 DEF CSInv, OneUser, CS!CloseAll
<1>5. CASE UNCHANGED CS!csVars
  BY <1>5 DEF CSInv, OneUser, CS!csVars
<1> QED
  BY <1>1, <1>2, <1>3, <1>4, <1>5 DEF CS!CSNext

(* Whatever implements ConnectionSets lends a connection to one worker at  *)
(* a time, and never one that is spare.                                    *)
THEOREM LentToOne == CS!CSSpec => []OneUser
<1>1. CSInv => OneUser
  BY DEF CSInv
<1> QED
  BY <1>1, CSInvInit, CSInvNext, PTL DEF CS!CSSpec

(* The pool does: no two workers use one connection, whatever connections  *)
(* are dead and wherever connecting fails.                                 *)
THEOREM PoolLendsToOne == Spec => []OneUser
BY ImplementsSets, LentToOne, PTL DEF ImplementsConnectionSets

-----------------------------------------------------------------------------
(* The thread pool, for any number of callers, workers and requests.       *)
Types ==
  /\ table \subseteq Requests \cup {NoRequest}
  /\ request \in [AllThreads -> Requests \cup {NoRequest}]
  /\ DOMAIN pc = AllThreads

(* Who has a request is the only one, and it is not in the table.          *)
SingleHolder ==
  \A r \in Requests :
    /\ \A t, u \in With(r) : t = u
    /\ r \in table => With(r) = {}

TPInv == Types /\ SingleHolder

-----------------------------------------------------------------------------
LEMMA TypesInit == TPInit => Types
BY DEF TPInit, Types

LEMMA SingleHolderInit == TPInit => SingleHolder
BY NoRequestAssumption DEF TPInit, SingleHolder, With

(* A thread goes on with what it has in hand: With stays as it is.         *)
LEMMA GoesOn ==
  ASSUME TPInv, NEW t \in AllThreads, NEW point, pc[t] # "inserted", point # "inserted",
         Goto(t, point), UNCHANGED <<table, request>>
  PROVE  TPInv'
<1>1. \A r : With(r)' = With(r)
  BY DEF TPInv, Types, Goto, With
<1> QED
  BY <1>1 DEF TPInv, Types, SingleHolder, Goto

(* A thread gets a request that no other has and that is not in the table, *)
(* or gives up the one it has: the other threads keep theirs.              *)
LEMMA Gets ==
  ASSUME TPInv, NEW t \in AllThreads, NEW point, NEW q \in Requests \cup {NoRequest},
         Goto(t, point), Take(t, q), table' \subseteq table,
         q \in Requests => q \notin table' /\ With(q) = {}
  PROVE  TPInv'
<1>1. /\ DOMAIN pc' = AllThreads /\ request' \in [AllThreads -> Requests \cup {NoRequest}]
      /\ request'[t] = q
      /\ \A u \in AllThreads : u # t => pc'[u] = pc[u] /\ request'[u] = request[u]
  BY DEF TPInv, Types, Goto, Take
<1>2. \A r \in Requests : With(r)' \subseteq With(r) \cup (IF r = q THEN {t} ELSE {})
  BY <1>1, NoRequestAssumption DEF With
<1>3. Types'
  BY <1>1 DEF TPInv, Types
<1>4. ASSUME NEW r \in Requests
      PROVE  (\A u, v \in With(r)' : u = v) /\ (r \in table' => With(r)' = {})
  <2>1. CASE r = q
    BY <1>2, <2>1 DEF TPInv, SingleHolder
  <2>2. CASE r # q
    BY <1>2, <2>2 DEF TPInv, SingleHolder
  <2> QED
    BY <2>1, <2>2
<1> QED
  BY <1>3, <1>4 DEF TPInv, SingleHolder

LEMMA QueueRequestStep ==
  ASSUME TPInv, NEW t \in AllThreads, QueueRequest(t)
  PROVE  TPInv'
<1>1. CASE QueueLock(t)
  BY <1>1, GoesOn DEF QueueLock
<1>2. CASE Insert(t)
  <2>1. /\ pc[t] = "insert" /\ table' = table \cup {request[t]} /\ request' = request
        /\ Goto(t, "inserted")
    BY <1>2 DEF Insert
  <2>2. DOMAIN pc' = AllThreads /\ pc'[t] = "inserted"
        /\ \A u \in AllThreads : u # t => pc'[u] = pc[u]
    BY <2>1 DEF TPInv, Types, Goto
  <2>3. Types'
    BY <2>1, <2>2 DEF TPInv, Types
  <2>4. \A r : With(r)' = With(r) \ {t}
    BY <2>1, <2>2 DEF With
  <2>5. ASSUME NEW r \in Requests, r = request[t]
        PROVE  With(r)' = {}
    <3>1. t \in With(r)
      BY <2>1, <2>5 DEF With
    <3> QED
      BY <2>4, <3>1 DEF TPInv, SingleHolder
  <2>6. ASSUME NEW r \in Requests
        PROVE  (\A u, v \in With(r)' : u = v) /\ (r \in table' => With(r)' = {})
    BY <2>1, <2>4, <2>5 DEF TPInv, SingleHolder
  <2> QED
    BY <2>3, <2>6 DEF TPInv, SingleHolder
<1>3. CASE QueueUnlock(t)
  <2>1. PICK point : Goto(t, point)
    BY <1>3 DEF QueueUnlock
  <2> QED
    BY <1>3, <2>1, Gets, NoRequestAssumption DEF QueueUnlock
<1> QED
  BY <1>1, <1>2, <1>3 DEF QueueRequest

LEMMA WorkerStep ==
  ASSUME TPInv, NEW w \in AllThreads, WorkerThread(w)
  PROVE  TPInv'
<1>0. CASE Loop(w)
  BY <1>0, GoesOn DEF Loop
<1>1. CASE Wait(w)
  BY <1>1, GoesOn DEF Wait
<1>2. CASE WaitUnlock(w)
  BY <1>2, GoesOn DEF WaitUnlock
<1>3. CASE WaitLock(w)
  BY <1>3, GoesOn DEF WaitLock
<1>4. CASE GetLock(w)
  BY <1>4, GoesOn DEF GetLock
<1>5. CASE Erase(w)
  <2>1. CASE Take(w, NoRequest) /\ UNCHANGED table
    BY <1>5, <2>1, Gets, NoRequestAssumption DEF Erase
  <2>2. ASSUME NEW r \in table \ {NoRequest}, Take(w, r), table' = table \ {r}
        PROVE  TPInv'
    <3>1. r \in Requests /\ With(r) = {}
      BY <2>2 DEF TPInv, Types, SingleHolder
    <3> QED
      BY <1>5, <2>2, <3>1, Gets DEF Erase
  <2> QED
    BY <1>5, <2>1, <2>2 DEF Erase
<1>6. CASE Throw(w)
  <2>1. table' \subseteq table /\ UNCHANGED <<pc, request>>
    BY <1>6 DEF Throw
  <2> QED
    BY <2>1 DEF TPInv, Types, SingleHolder, With
<1>7. CASE GetUnlock(w)
  BY <1>7, GoesOn DEF GetUnlock
<1>8. CASE GetConnection(w)
  <2>1. CASE Take(w, NoRequest) /\ Goto(w, "loop")
    BY <1>8, <2>1, Gets, NoRequestAssumption DEF GetConnection
  <2>2. CASE Goto(w, "queue") /\ UNCHANGED request
    BY <1>8, <2>2, GoesOn DEF GetConnection
  <2> QED
    BY <1>8, <2>1, <2>2 DEF GetConnection
<1> QED
  BY <1>0, <1>1, <1>2, <1>3, <1>4, <1>5, <1>6, <1>7, <1>8 DEF WorkerThread

LEMMA TPInvNext == TPInv /\ [TPNext]_tpVars => TPInv'
<1> SUFFICES ASSUME TPInv, [TPNext]_tpVars PROVE TPInv'
  OBVIOUS
<1>1. ASSUME NEW c \in Callers, Call(c) PROVE TPInv'
  <2>1. c \in AllThreads /\ Goto(c, "queue") /\ table' = table
    BY <1>1 DEF AllThreads, Call
  <2>2. PICK r \in New : Take(c, r)
    BY <1>1 DEF Call
  <2>3. r \in Requests /\ r \notin table /\ With(r) = {}
    BY <2>2 DEF New, With
  <2> QED
    BY <2>1, <2>2, <2>3, Gets
<1>2. ASSUME UNCHANGED <<table, pc, request>> PROVE TPInv'
  BY <1>2 DEF TPInv, Types, SingleHolder, With
<1>3. (SetExit \/ NotifyWaiting \/ Destroy \/ UNCHANGED tpVars) => UNCHANGED <<table, pc, request>>
  BY DEF SetExit, NotifyWaiting, Destroy, tpVars
<1>4. ASSUME NEW t \in AllThreads, Thread(t) PROVE TPInv'
  BY <1>4, QueueRequestStep, WorkerStep DEF Thread
<1> QED
  BY <1>1, <1>2, <1>3, <1>4 DEF TPNext, Outside

LEMMA OneHolder ==
  ASSUME TPInv, NEW r \in Requests
  PROVE  Cardinality(With(r)) + (IF r \in table THEN 1 ELSE 0) <= 1
<1>1. CASE With(r) = {}
  <2>1. Cardinality(With(r)) = 0
    BY <1>1, FS_EmptySet
  <2> QED
    BY <2>1
<1>2. ASSUME NEW t \in With(r)
      PROVE  Cardinality(With(r)) + (IF r \in table THEN 1 ELSE 0) <= 1
  <2>1. With(r) = {t} /\ r \notin table
    BY <1>2 DEF TPInv, SingleHolder
  <2>2. Cardinality(With(r)) = 1
    BY <2>1, FS_Singleton
  <2> QED
    BY <2>1, <2>2
<1> QED
  BY <1>1, <1>2

(* No request is with two workers, or with one and in the table: whatever  *)
(* number of threads queue, take and queue again, none is handled twice.   *)
(* (Where two threads have been in the table at once the code's set may be *)
(* in any state, and nothing is claimed.)                                  *)
THEOREM RequestsInOnePlace == TPSpec => []InOnePlace
<1>1. TPInit => TPInv
  BY TypesInit, SingleHolderInit DEF TPInv
<1>2. TPInv => InOnePlace
  BY OneHolder DEF InOnePlace
<1> QED
  BY <1>1, <1>2, TPInvNext, PTL DEF TPSpec

-----------------------------------------------------------------------------
(* Who waits is a worker before its lock: a notification puts it on its way.*)
Waiting ==
  /\ DOMAIN pc = AllThreads
  /\ \A w \in waiters : w \in PoolWorkers /\ pc[w] \in {"unlock", "asleep"}

(* The requests are as few as RequestsHaveTakers says, and finitely many.  *)
Taken == ~missed => IsFiniteSet(table) /\ Cardinality(table) <= Cardinality(OnTheWay)

TakersInv == Waiting /\ Taken

LEMMA WorkersFinite ==
  ASSUME NEW W \in SUBSET PoolWorkers
  PROVE  IsFiniteSet(W) /\ Cardinality(W) \in Nat
BY WorkersAssumption, FS_Subset, FS_CardinalityType

LEMMA OnTheWayFinite ==
  /\ OnTheWay \subseteq PoolWorkers /\ IsFiniteSet(OnTheWay) /\ Cardinality(OnTheWay) \in Nat
  /\ OnTheWay' \subseteq PoolWorkers /\ IsFiniteSet(OnTheWay') /\ Cardinality(OnTheWay') \in Nat
<1>1. OnTheWay \subseteq PoolWorkers /\ OnTheWay' \subseteq PoolWorkers
  BY DEF OnTheWay
<1> QED
  BY <1>1, WorkersFinite

(* Nothing is inserted and nobody leaves the way.                          *)
LEMMA TakenStays ==
  ASSUME Taken, missed' = missed, table' = table, OnTheWay \subseteq OnTheWay'
  PROVE  Taken'
<1>1. Cardinality(OnTheWay) <= Cardinality(OnTheWay')
  BY OnTheWayFinite, FS_Subset
<1>2. ASSUME ~missed
      PROVE  IsFiniteSet(table) /\ Cardinality(table) <= Cardinality(OnTheWay) /\ Cardinality(table) \in Nat
  BY <1>2, FS_CardinalityType DEF Taken
<1> QED
  BY <1>1, <1>2, OnTheWayFinite DEF Taken

(* A thread goes on, and neither comes to the way nor leaves it.           *)
LEMMA TakersGoOn ==
  ASSUME TakersInv, NEW t \in AllThreads, NEW point, Goto(t, point), UNCHANGED <<table, waiters, missed>>,
         \/ pc[t] \notin {"unlock", "asleep", "get", "erase"}
         \/ pc[t] = "unlock" /\ point = "asleep"
         \/ t \notin waiters /\ point \in {"get", "erase"}
  PROVE  TakersInv'
<1>1. DOMAIN pc' = AllThreads /\ pc'[t] = point /\ \A u \in AllThreads : u # t => pc'[u] = pc[u]
  BY DEF TakersInv, Waiting, Goto
<1>2. PoolWorkers \subseteq AllThreads
  BY DEF AllThreads
<1>3. Waiting'
  BY <1>1, <1>2 DEF TakersInv, Waiting
<1>4. OnTheWay \subseteq OnTheWay'
  BY <1>1, <1>2 DEF OnTheWay
<1> QED
  BY <1>3, <1>4, TakenStays DEF TakersInv

(* All who wait are put on their way.                                      *)
LEMMA NotifyAll ==
  ASSUME TakersInv, waiters' = {}, UNCHANGED pc
  PROVE  Waiting' /\ OnTheWay' = OnTheWay \cup waiters
<1>1. Waiting'
  BY DEF TakersInv, Waiting
<1>2. OnTheWay' = OnTheWay \cup waiters
  BY DEF OnTheWay, TakersInv, Waiting
<1> QED
  BY <1>1, <1>2

(* A request comes and so does a worker, for one is waiting.               *)
LEMMA TakersInsert ==
  ASSUME TakersInv, NEW t \in AllThreads, Insert(t)
  PROVE  TakersInv'
<1>1. /\ pc[t] = "insert" /\ Goto(t, "inserted") /\ table' = table \cup {request[t]}
      /\ waiters' = {} /\ missed' = (missed \/ waiters = {})
  BY DEF Insert, Notified
<1>2. DOMAIN pc' = AllThreads /\ pc'[t] = "inserted" /\ \A u \in AllThreads : u # t => pc'[u] = pc[u]
  BY <1>1 DEF TakersInv, Waiting, Goto
<1>3. PoolWorkers \subseteq AllThreads
  BY DEF AllThreads
<1>4. Waiting'
  BY <1>1, <1>2 DEF Waiting
<1>5. OnTheWay' = OnTheWay \cup waiters
  <2>1. \A w \in PoolWorkers : w \in OnTheWay' <=> w \in OnTheWay \/ w \in waiters
    BY <1>1, <1>2, <1>3 DEF OnTheWay, TakersInv, Waiting
  <2> QED
    BY <2>1, OnTheWayFinite DEF TakersInv, Waiting
<1>6. ASSUME ~missed'
      PROVE  IsFiniteSet(table') /\ Cardinality(table') <= Cardinality(OnTheWay')
  <2>1. ~missed /\ waiters # {}
    BY <1>1, <1>6
  <2>2. PICK w : w \in waiters
    BY <2>1
  <2>3. w \notin OnTheWay /\ OnTheWay \cup {w} \subseteq OnTheWay'
    <3>1. w \notin OnTheWay
      BY <2>2 DEF OnTheWay, TakersInv, Waiting
    <3> QED
      BY <1>5, <2>2, <3>1
  <2>4. Cardinality(OnTheWay \cup {w}) = Cardinality(OnTheWay) + 1
    BY <2>3, OnTheWayFinite, FS_AddElement
  <2>5. Cardinality(OnTheWay \cup {w}) <= Cardinality(OnTheWay')
    BY <2>3, OnTheWayFinite, FS_Subset
  <2>6. IsFiniteSet(table) /\ Cardinality(table) <= Cardinality(OnTheWay) /\ Cardinality(table) \in Nat
    BY <2>1, FS_CardinalityType DEF TakersInv, Taken
  <2>7. /\ IsFiniteSet(table')
        /\ Cardinality(table') = IF request[t] \in table THEN Cardinality(table) ELSE Cardinality(table) + 1
    BY <1>1, <2>6, FS_AddElement
  <2> QED
    BY <2>4, <2>5, <2>6, <2>7, OnTheWayFinite
<1> QED
  BY <1>4, <1>6 DEF TakersInv, Taken

(* A worker that looked is on its way no more, and has taken what it found.*)
LEMMA TakersErase ==
  ASSUME TakersInv, NEW w \in PoolWorkers, Erase(w)
  PROVE  TakersInv'
<1>1. pc[w] = "erase" /\ Goto(w, "erased") /\ waiters' = waiters /\ missed' = missed
  BY DEF Erase
<1>2. w \in AllThreads
  BY DEF AllThreads
<1>3. DOMAIN pc' = AllThreads /\ pc'[w] = "erased" /\ \A u \in AllThreads : u # w => pc'[u] = pc[u]
  BY <1>1, <1>2 DEF TakersInv, Waiting, Goto
<1>4. PoolWorkers \subseteq AllThreads
  BY DEF AllThreads
<1>5. Waiting'
  BY <1>1, <1>3, <1>4 DEF TakersInv, Waiting
<1>6. w \in OnTheWay /\ OnTheWay' = OnTheWay \ {w}
  <2>1. \A u \in PoolWorkers : u \in OnTheWay' <=> u \in OnTheWay /\ u # w
    BY <1>1, <1>3, <1>4 DEF OnTheWay
  <2>2. w \in OnTheWay
    BY <1>1 DEF OnTheWay
  <2> QED
    BY <2>1, <2>2, OnTheWayFinite
<1>7. Cardinality(OnTheWay') = Cardinality(OnTheWay) - 1
  BY <1>6, OnTheWayFinite, FS_RemoveElement
<1>8. ASSUME ~missed'
      PROVE  IsFiniteSet(table') /\ Cardinality(table') <= Cardinality(OnTheWay')
  <2>1. IsFiniteSet(table) /\ Cardinality(table) <= Cardinality(OnTheWay) /\ Cardinality(table) \in Nat
    BY <1>1, <1>8, FS_CardinalityType DEF TakersInv, Taken
  <2>2. CASE table = {} /\ table' = table
    <3>1. Cardinality(table') = 0 /\ IsFiniteSet(table')
      BY <2>2, FS_EmptySet
    <3> QED
      BY <3>1, OnTheWayFinite
  <2>3. ASSUME NEW r \in table, table' = table \ {r}
        PROVE  IsFiniteSet(table') /\ Cardinality(table') <= Cardinality(OnTheWay')
    <3>1. IsFiniteSet(table') /\ Cardinality(table') = Cardinality(table) - 1
      BY <2>1, <2>3, FS_RemoveElement
    <3> QED
      BY <1>7, <2>1, <3>1, OnTheWayFinite
  <2> QED
    BY <2>2, <2>3 DEF Erase
<1> QED
  BY <1>5, <1>8 DEF TakersInv, Taken

LEMMA TakersStep ==
  ASSUME TakersInv, NEW t \in AllThreads, Thread(t)
  PROVE  TakersInv'
<1>1. CASE QueueLock(t)
  BY <1>1, TakersGoOn DEF QueueLock
<1>2. CASE Insert(t)
  BY <1>2, TakersInsert
<1>3. CASE QueueUnlock(t)
  <2>1. PICK point : Goto(t, point)
    BY <1>3 DEF QueueUnlock
  <2> QED
    BY <1>3, <2>1, TakersGoOn DEF QueueUnlock
<1>0. CASE Loop(t)
  BY <1>0, TakersGoOn DEF Loop
<1>4. ASSUME t \in PoolWorkers, Wait(t)
      PROVE  TakersInv'
  <2>2. Goto(t, "unlock") /\ waiters' = waiters \cup {t}
    BY <1>4 DEF Wait
  <2> QED
    <3>1. DOMAIN pc' = AllThreads /\ pc'[t] = "unlock" /\ \A u \in AllThreads : u # t => pc'[u] = pc[u]
      BY <2>2 DEF TakersInv, Waiting, Goto
    <3>2. PoolWorkers \subseteq AllThreads
      BY DEF AllThreads
    <3>3. Waiting'
      BY <1>4, <2>2, <3>1, <3>2 DEF TakersInv, Waiting
    <3>4. pc[t] = "wait" /\ table' = table /\ missed' = missed
      BY <1>4 DEF Wait
    <3>5. OnTheWay \subseteq OnTheWay'
      BY <2>2, <3>1, <3>2, <3>4 DEF OnTheWay
    <3> QED
      BY <3>3, <3>4, <3>5, TakenStays DEF TakersInv
<1>5. CASE WaitUnlock(t)
  BY <1>5, TakersGoOn DEF WaitUnlock
<1>6. CASE WaitLock(t)
  BY <1>6, TakersGoOn DEF WaitLock
<1>7. CASE GetLock(t)
  <2>1. t \notin waiters
    BY <1>7 DEF GetLock, TakersInv, Waiting
  <2> QED
    BY <1>7, <2>1, TakersGoOn DEF GetLock
<1>8. ASSUME t \in PoolWorkers, Erase(t)
      PROVE  TakersInv'
  BY <1>8, TakersErase
<1>9. CASE Throw(t)
  <2>1. /\ NoRequest \in table /\ table' = table \ {NoRequest}
        /\ pc' = pc /\ waiters' = waiters /\ missed' = missed
    BY <1>9 DEF Throw
  <2>2. Waiting' /\ OnTheWay' = OnTheWay
    BY <2>1 DEF TakersInv, Waiting, OnTheWay
  <2>3. ASSUME ~missed
        PROVE  IsFiniteSet(table') /\ Cardinality(table') <= Cardinality(OnTheWay)
    <3>1. IsFiniteSet(table) /\ Cardinality(table) <= Cardinality(OnTheWay) /\ Cardinality(table) \in Nat
      BY <2>3, FS_CardinalityType DEF TakersInv, Taken
    <3>2. IsFiniteSet(table') /\ Cardinality(table') = Cardinality(table) - 1
      BY <2>1, <3>1, FS_RemoveElement
    <3> QED
      BY <3>1, <3>2, OnTheWayFinite
  <2> QED
    BY <2>1, <2>2, <2>3 DEF TakersInv, Taken
<1>10. CASE GetUnlock(t)
  BY <1>10, TakersGoOn DEF GetUnlock
<1>11. CASE GetConnection(t)
  <2>1. PICK point : Goto(t, point)
    BY <1>11 DEF GetConnection
  <2> QED
    BY <1>11, <2>1, TakersGoOn DEF GetConnection
<1> QED
  BY <1>0, <1>1, <1>2, <1>3, <1>4, <1>5, <1>6, <1>7, <1>8, <1>9, <1>10, <1>11
     DEF Thread, QueueRequest, WorkerThread

LEMMA TakersInvNext == TakersInv /\ [TPNext]_tpVars => TakersInv'
<1> SUFFICES ASSUME TakersInv, [TPNext]_tpVars PROVE TakersInv'
  OBVIOUS
<1>1. ASSUME NEW c \in Callers, Call(c) PROVE TakersInv'
  BY <1>1, TakersGoOn DEF Call, AllThreads
<1>2. CASE NotifyWaiting
  <2>1. waiters' = {} /\ UNCHANGED <<table, pc, missed>>
    BY <1>2 DEF NotifyWaiting
  <2> QED
    BY <2>1, NotifyAll, TakenStays DEF TakersInv
<1>3. CASE SetExit \/ Destroy \/ UNCHANGED tpVars
  <2>1. UNCHANGED <<table, waiters, pc, missed>>
    BY <1>3 DEF SetExit, Destroy, tpVars
  <2> QED
    BY <2>1 DEF TakersInv, Waiting, Taken, OnTheWay
<1>4. ASSUME NEW t \in AllThreads, Thread(t) PROVE TakersInv'
  BY <1>4, TakersStep
<1> QED
  BY <1>1, <1>2, <1>3, <1>4 DEF TPNext, Outside

(* A request that some worker was waiting for has a worker on its way to   *)
(* it, for any number of callers and workers: what stays in the table came *)
(* when none was waiting, or the threads stall.                            *)
THEOREM QueuedHaveTakers == TPSpec => []RequestsHaveTakers
<1>1. TPInit => TakersInv
  <2> SUFFICES ASSUME TPInit PROVE TakersInv
    OBVIOUS
  <2>1. table = {} /\ waiters = {} /\ DOMAIN pc = AllThreads
    BY DEF TPInit
  <2> QED
    BY <2>1, FS_EmptySet, OnTheWayFinite DEF TakersInv, Waiting, Taken
<1>2. TakersInv => RequestsHaveTakers
  BY DEF TakersInv, Taken, RequestsHaveTakers
<1> QED
  BY <1>1, <1>2, TakersInvNext, PTL DEF TPSpec

-----------------------------------------------------------------------------
(* A stalled pool stays stalled, whatever is called and notified: only a   *)
(* thread in the table opens the lock, and nobody is in it.                *)
THEOREM StalledForGood == TPSpec => StallIsForever
<1>1. ASSUME Types, [TPNext]_tpVars, Stalled
      PROVE  Stalled'
  <2>1. ASSUME NEW c \in Callers, Call(c) PROVE Stalled'
    <3>1. Goto(c, "queue") /\ exclusive' = exclusive /\ c \in AllThreads
      BY <2>1 DEF Call, AllThreads
    <3>2. pc'[c] = "queue" /\ \A u \in AllThreads : u # c => pc'[u] = pc[u]
      BY <1>1, <3>1 DEF Types, Goto
    <3> QED
      BY <1>1, <3>1, <3>2 DEF Stalled
  <2>2. CASE SetExit \/ NotifyWaiting \/ Destroy \/ UNCHANGED tpVars
    <3>1. UNCHANGED <<pc, exclusive>>
      BY <2>2 DEF SetExit, NotifyWaiting, Destroy, tpVars
    <3> QED
      BY <1>1, <3>1 DEF Stalled
  <2>3. ASSUME NEW t \in AllThreads, Thread(t) PROVE FALSE
    <3>1. exclusive /\ pc[t] \in {"idle", "queue", "asleep", "get", "ended"}
      BY <1>1 DEF Stalled
    <3>2. ~ QueueRequest(t)
      BY <3>1 DEF QueueRequest, QueueLock, Insert, QueueUnlock
    <3>3. ~ WorkerThread(t)
      BY <3>1 DEF WorkerThread, Loop, Wait, WaitUnlock, WaitLock, GetLock, Erase, Throw, GetUnlock, GetConnection
    <3> QED
      BY <2>3, <3>2, <3>3 DEF Thread
  <2> QED
    BY <1>1, <2>1, <2>2, <2>3 DEF TPNext, Outside
<1>2. TPInit => TPInv
  BY TypesInit, SingleHolderInit DEF TPInv
<1>3. TPInv => Types
  BY DEF TPInv
<1> QED
  BY <1>1, <1>2, <1>3, TPInvNext, PTL DEF TPSpec, StallIsForever
=============================================================================
