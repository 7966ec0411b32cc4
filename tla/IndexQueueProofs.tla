---------------------------- MODULE IndexQueueProofs ----------------------------
(***************************************************************************)
(* What a session has changed is queued for the index, and the tasks that  *)
(* its commits send write the committed rows and nothing else: for any     *)
(* objects and values, any depth of savepoints and any length of the       *)
(* queue.                                                                  *)
(*                                                                         *)
(* A task's loop and the gathering of its items are recursive functions:   *)
(* the lemmas that say what they compute take the least number of items    *)
(* for which it would be something else.                                   *)
(***************************************************************************)
EXTENDS IndexQueue, FiniteSetTheorems, SequenceTheorems, WellFoundedInduction,
        TLAPS

--------------------------------------------------------------------------------
(* The inductive invariant.                                                *)

Queues(queue, o) == \E i \in DOMAIN queue : queue[i][2] = o

Covered(rows, queue) == \A o \in Object : rows[o] # db[o] => Queues(queue, o)

(***************************************************************************)
(* QueueCoversChanges is about the innermost transaction.  It is inductive *)
(* of all of them: rolling a savepoint back uncovers the rows of the one   *)
(* below, which are covered since no rollback takes items away.            *)
(***************************************************************************)
QueueInv ==
    /\ db \in [Object -> Row]
    /\ levels \in Seq(Level) /\ Len(levels) > 0
    /\ pending \in [Object -> {<<>>} \cup {<<op, v>> : op \in Op, v \in Row}]
    /\ to_update \in Seq(Item)
    /\ ~failed => \A k \in 1 .. Len(levels) : Covered(levels[k].rows, to_update)

Has(queue, item) == \E i \in DOMAIN queue : queue[i] = item

Touches(level, o) == o \in level.new \/ o \in level.dirty \/ o \in level.deleted

\* What is pending fits what the session knows of the object.
PendingFits ==
    \A o \in Object : pending[o] # <<>> =>
        IF pending[o][1] = "new"
        THEN orm[o] = "transient" /\ Here.rows[o] = Absent
        ELSE /\ orm[o] = "loaded"
             /\ pending[o][1] = "changed" => pending[o][2] \in Value

\* A row is the committed one up to the first transaction that touched it.
UntouchedRows ==
    \A k \in 1 .. Len(levels), o \in Object :
        (\A j \in 1 .. k : ~Touches(levels[j], o)) => levels[k].rows[o] = db[o]

TouchedKnown ==
    \A k \in 1 .. Len(levels), o \in Object :
        Touches(levels[k], o) => orm[o] # "transient"

\* What a transaction has added, no transaction around it knows.
NewRows ==
    \A k \in 1 .. Len(levels), o \in Object : o \in levels[k].new =>
        db[o] = Absent /\ \A j \in 1 .. k - 1 : ~Touches(levels[j], o)

\* What a transaction has deleted, none within it can touch.
DeletedRows ==
    \A k \in 1 .. Len(levels), o \in Object : o \in levels[k].deleted =>
        /\ orm[o] = "deleted"
        /\ levels[k].rows[o] = Absent
        /\ \A j \in k + 1 .. Len(levels) :
              ~Touches(levels[j], o) /\ levels[j].rows[o] = Absent

DeletedSomewhere ==
    \A o \in Object : orm[o] = "deleted" =>
        \E k \in 1 .. Len(levels) : o \in levels[k].deleted

\* What a transaction touched has an item that says how.
TouchedQueued ==
    \A k \in 1 .. Len(levels), o \in Object :
        /\ o \in levels[k].new => Has(to_update, <<"new", o>>)
        /\ o \in levels[k].dirty =>
              Has(to_update, <<"changed", o>>) \/ Has(to_update, <<"deleted", o>>)
        /\ o \in levels[k].deleted => Has(to_update, <<"deleted", o>>)

\* An object that is queued and has left the session was rolled back.
TransientQueued ==
    \A o \in Object :
        orm[o] = "transient" /\ Queues(to_update, o) => db[o] = Absent

OrmType == orm \in [Object -> OrmStates]

(***************************************************************************)
(* What the session knows of its transactions.                             *)
(***************************************************************************)
KnownInv ==
    ~failed =>
        /\ OrmType /\ PendingFits
        /\ UntouchedRows /\ TouchedKnown
        /\ NewRows /\ DeletedRows /\ DeletedSomewhere
        /\ TouchedQueued /\ TransientQueued

(***************************************************************************)
(* While no rollback leaves what it undid in the queue.                    *)
(***************************************************************************)
QueueIsWritable ==
    \A o \in Object : Queues(to_update, o) =>
        /\ orm[o] # "expired"
        /\ orm[o] = "loaded" => \/ Has(to_update, <<"new", o>>)
                                \/ Has(to_update, <<"changed", o>>)

FollowsInv == ~undone => ~failed /\ QueueIsWritable /\ index = IndexOf(db)

Inv == QueueInv /\ KnownInv /\ FollowsInv

--------------------------------------------------------------------------------
(* Lemmas on numbers and sequences.                                        *)

\* Every set of naturals that is not empty has a least element.
LEMMA LeastNatural ==
  ASSUME NEW T \in SUBSET Nat, T # {}
  PROVE  \E d \in T : \A k \in T : d <= k
<1> DEFINE R == OpToRel(<, Nat)
<1>1. PICK d \in T : \A k \in T : <<k, d>> \notin R
  <2> HIDE DEF R
  <2>1. IsWellFoundedOn(R, Nat)
    BY NatLessThanWellFounded DEF R
  <2>2. QED
    BY <2>1, WFMin
<1>2. \A k \in T : ~(k < d)
  BY <1>1 DEF OpToRel
<1>3. QED
  BY <1>2

(***************************************************************************)
(* A function on a prefix of the naturals may be defined by recursion: were *)
(* there none up to some number, take the least such number and extend the *)
(* one before it.                                                          *)
(***************************************************************************)
Steps(V, N) == [(1 .. N) \X V -> V]

Follows(f, N, base, step) ==
    f[0] = base /\ \A n \in 1 .. N : f[n] = step[<<n, f[n - 1]>>]

LEMMA RecursionExists ==
  ASSUME NEW V, NEW N \in Nat, NEW base \in V, NEW step \in Steps(V, N)
  PROVE  \E f \in [0 .. N -> V] : Follows(f, N, base, step)
<1> DEFINE Is(f, m) == /\ f \in [0 .. m -> V]
                       /\ f[0] = base
                       /\ \A n \in 1 .. m : f[n] = step[<<n, f[n - 1]>>]
           T == {m \in 0 .. N : \A f : ~Is(f, m)}
<1>0. step \in [(1 .. N) \X V -> V]
  BY DEF Steps
<1>1. T = {}
  <2>1. SUFFICES ASSUME T # {} PROVE FALSE
    OBVIOUS
  <2>2. PICK d \in T : \A k \in T : d <= k
    <3>1. T \in SUBSET Nat
      OBVIOUS
    <3> HIDE DEF T
    <3>2. QED
      BY <2>1, <3>1, LeastNatural
  <2>3. d \in 0 .. N /\ \A f : ~Is(f, d)
    BY <2>2
  <2>4. d # 0
    <3>1. Is([n \in 0 .. 0 |-> base], 0)
      OBVIOUS
    <3> HIDE DEF Is
    <3>2. QED
      BY <2>3, <3>1
  <2>5. d - 1 \in 0 .. N /\ d - 1 \notin T
    <3>1. d \in 0 .. N /\ d # 0 /\ \A k \in T : d <= k
      BY <2>2, <2>3, <2>4
    <3> HIDE DEF T
    <3>2. QED
      BY <3>1
  <2>6. PICK g : Is(g, d - 1)
    BY <2>5
  <2>7. /\ g \in [0 .. d - 1 -> V] /\ g[0] = base
        /\ \A n \in 1 .. d - 1 : g[n] = step[<<n, g[n - 1]>>]
    BY <2>6
  <2> DEFINE next == step[<<d, g[d - 1]>>]
             h == [n \in 0 .. d |-> IF n = d THEN next ELSE g[n]]
  <2>8. next \in V
    <3>1. d \in 1 .. N
      BY <2>3, <2>4
    <3>3. d - 1 \in 0 .. d - 1
      BY <3>1
    <3>4. g[d - 1] \in V
      BY <2>7, <3>3
    <3>2. QED
      BY <1>0, <3>1, <3>4
  <2>9. h \in [0 .. d -> V]
    <3> HIDE DEF next
    <3>1. QED
      BY <2>3, <2>4, <2>7, <2>8
  <2>10. h[0] = base
    BY <2>3, <2>4, <2>7
  <2>11. \A n \in 1 .. d : h[n] = step[<<n, h[n - 1]>>]
    <3>1. ASSUME NEW n \in 1 .. d
          PROVE  h[n] = step[<<n, h[n - 1]>>]
      <4>1. n - 1 \in 0 .. d /\ n - 1 # d /\ h[n - 1] = g[n - 1]
        BY <2>3, <3>1
      <4>2. CASE n = d
        BY <2>3, <4>1, <4>2
      <4>3. CASE n # d
        <5>1. n \in 1 .. d - 1 /\ h[n] = g[n]
          BY <2>3, <3>1, <4>3
        <5>2. QED
          BY <2>7, <4>1, <5>1
      <4>4. QED
        BY <4>2, <4>3
    <3>2. QED
      BY <3>1
  <2>12. Is(h, d)
    <3> HIDE DEF h
    <3>1. QED
      BY <2>9, <2>10, <2>11
  <2>13. QED
    <3> HIDE DEF Is, h
    <3>1. QED
      BY <2>3, <2>12
<1>2. PICK f : Is(f, N)
  <2>1. N \in 0 .. N /\ N \notin T
    BY <1>1
  <2> HIDE DEF Is
  <2>2. QED
    BY <2>1
<1>3. QED
  BY <1>2 DEF Follows

\* SetToSeq lists every element of a finite set, and nothing else.
LEMMA SetToSeqProperties ==
  ASSUME NEW S, IsFiniteSet(S)
  PROVE  /\ SetToSeq(S) \in Seq(S)
         /\ \A x \in S : \E i \in DOMAIN SetToSeq(S) : SetToSeq(S)[i] = x
<1> DEFINE n == Cardinality(S)
           D == 1 .. n
           q == SetToSeq(S)
<1>1. n \in Nat /\ ExistsBijection(D, S)
  BY FS_CardinalityType
<1>2. \E f \in [D -> S] : \A a, b \in DOMAIN f : f[a] = f[b] => a = b
  BY <1>1 DEF ExistsBijection, Bijection, Injection, IsInjective
<1>3. q \in [D -> S] /\ \A a, b \in D : q[a] = q[b] => a = b
  BY <1>2 DEF SetToSeq, IsInjective
<1>4. IsFiniteSet(D) /\ Cardinality(D) = n
  BY <1>1, FS_Interval
<1> HIDE DEF q, n, D
<1>5. ASSUME NEW x \in S, \A i \in D : q[i] # x
      PROVE  FALSE
  <2> DEFINE T == S \ {x}
  <2>1. IsFiniteSet(T) /\ Cardinality(T) = n - 1
    BY FS_RemoveElement DEF n
  <2>2. q \in [D -> T]
    BY <1>3, <1>5
  <2>3. Cardinality(T) < Cardinality(D)
    BY <1>1, <1>4, <2>1
  <2>4. \E a, b \in D : a # b /\ q[a] = q[b]
    <3> HIDE DEF T
    <3>1. QED
      BY <1>4, <2>1, <2>2, <2>3, FS_PigeonHole
  <2>5. QED
    BY <1>3, <2>4
<1>6. q \in Seq(S) /\ DOMAIN q = D
  BY <1>1, <1>3, IsASeq DEF D
<1>7. QED
  BY <1>5, <1>6 DEF q

\* What Front keeps of a sequence.
LEMMA FrontOfSeq ==
  ASSUME NEW S, NEW q \in Seq(S), Len(q) > 1
  PROVE  /\ Front(q) \in Seq(S)
         /\ Len(Front(q)) = Len(q) - 1
         /\ \A i \in 1 .. Len(q) - 1 : Front(q)[i] = q[i]
<1> DEFINE n == Len(q) - 1
<1>1. n \in Nat /\ n >= 1
  BY LenProperties
<1>2. \A i \in 1 .. n : q[i] \in S
  BY <1>1, ElementOfSeq
<1>3. Front(q) = SubSeq(q, 1, n)
  BY DEF Front
<1> HIDE DEF n
<1>4. /\ SubSeq(q, 1, n) \in Seq(S)
      /\ Len(SubSeq(q, 1, n)) = IF 1 <= n THEN n - 1 + 1 ELSE 0
      /\ \A i \in 1 .. n - 1 + 1 : SubSeq(q, 1, n)[i] = q[1 + i - 1]
  BY <1>1, <1>2, SubSeqProperties
<1>5. n - 1 + 1 = n /\ \A i \in 1 .. n : 1 + i - 1 = i
  BY <1>1
<1>6. QED
  BY <1>1, <1>3, <1>4, <1>5 DEF n

--------------------------------------------------------------------------------
(* Lemmas on queues, and what after_flush appends.                         *)

\* What of an item says whether its object is queued.
LEMMA HasQueues ==
  ASSUME NEW queue \in Seq(Item), NEW o
  PROVE  Queues(queue, o) <=> \E op \in Op : Has(queue, <<op, o>>)
<1>1. \A i \in DOMAIN queue : queue[i] \in Item
  BY ElementOfSeq, LenProperties
<1>2. ASSUME NEW i \in DOMAIN queue, queue[i][2] = o
      PROVE  queue[i][1] \in Op /\ queue[i] = <<queue[i][1], o>>
  BY <1>1, <1>2 DEF Item
<1>3. QED
  BY <1>2 DEF Queues, Has

\* What two queues have together.
LEMMA HasBoth ==
  ASSUME NEW p \in Seq(Item), NEW q \in Seq(Item)
  PROVE  /\ p \o q \in Seq(Item)
         /\ \A item : Has(p \o q, item) <=> Has(p, item) \/ Has(q, item)
<1>1. /\ p \o q \in Seq(Item)
      /\ Len(p \o q) = Len(p) + Len(q)
      /\ \A i \in 1 .. Len(p) + Len(q) :
            (p \o q)[i] = IF i <= Len(p) THEN p[i] ELSE q[i - Len(p)]
  BY ConcatProperties
<1>2. /\ Len(p) \in Nat /\ DOMAIN p = 1 .. Len(p)
      /\ Len(q) \in Nat /\ DOMAIN q = 1 .. Len(q)
      /\ DOMAIN (p \o q) = 1 .. Len(p) + Len(q)
  BY <1>1, LenProperties
<1>3. \A i \in DOMAIN p : i \in DOMAIN (p \o q) /\ (p \o q)[i] = p[i]
  BY <1>1, <1>2
<1>4. \A i \in DOMAIN q :
          i + Len(p) \in DOMAIN (p \o q) /\ (p \o q)[i + Len(p)] = q[i]
  BY <1>1, <1>2
<1>5. ASSUME NEW i \in DOMAIN (p \o q)
      PROVE  \/ i \in DOMAIN p /\ (p \o q)[i] = p[i]
             \/ i - Len(p) \in DOMAIN q /\ (p \o q)[i] = q[i - Len(p)]
  BY <1>1, <1>2
<1>6. QED
  BY <1>1, <1>3, <1>4, <1>5 DEF Has

\* Each object flushed with an operation has an item, and no other has.
LEMMA ItemsOfProperties ==
  ASSUME NEW op \in Op
  PROVE  /\ ItemsOf(op) \in Seq(Item)
         /\ \A item : Has(ItemsOf(op), item) <=> \E o \in Flushed(op) : item = <<op, o>>
<1> DEFINE q == SetToSeq(Flushed(op))
<1>1. IsFiniteSet(Flushed(op)) /\ Flushed(op) \in SUBSET Object
  BY QueueAssumption, FS_Subset DEF Flushed
<1>2. q \in Seq(Flushed(op)) /\ \A x \in Flushed(op) : \E i \in DOMAIN q : q[i] = x
  BY <1>1, SetToSeqProperties
<1>3. ItemsOf(op) = [i \in DOMAIN q |-> <<op, q[i]>>]
  BY DEF ItemsOf
<1> HIDE DEF q
<1>4. Len(q) \in Nat /\ DOMAIN q = 1 .. Len(q) /\ \A i \in DOMAIN q : q[i] \in Flushed(op)
  BY <1>2, LenProperties, ElementOfSeq
<1>5. \A i \in 1 .. Len(q) : <<op, q[i]>> \in Item
  BY <1>1, <1>4 DEF Item
<1>6. ItemsOf(op) \in Seq(Item)
  BY <1>3, <1>4, <1>5, IsASeq
<1>7. \A item : Has(ItemsOf(op), item) <=> \E i \in DOMAIN q : item = <<op, q[i]>>
  BY <1>3 DEF Has
<1>8. QED
  BY <1>2, <1>4, <1>6, <1>7

PendingType == pending \in [Object -> {<<>>} \cup {<<op, v>> : op \in Op, v \in Row}]

\* The queue after a flush has what it had, and an item for each object flushed.
LEMMA QueuedProperties ==
  ASSUME to_update \in Seq(Item)
  PROVE  /\ Queued \in Seq(Item)
         /\ \A op \in Op : \A o :
                Has(Queued, <<op, o>>) <=> Has(to_update, <<op, o>>) \/ o \in Flushed(op)
<1> DEFINE N == ItemsOf("new")
           D == ItemsOf("deleted")
           C == ItemsOf("changed")
           Q1 == to_update \o N
           Q2 == Q1 \o D
           Q3 == Q2 \o C
<1>1. /\ N \in Seq(Item)
      /\ \A item : Has(N, item) <=> \E o \in Flushed("new") : item = <<"new", o>>
  BY ItemsOfProperties DEF Op
<1>2. /\ D \in Seq(Item)
      /\ \A item : Has(D, item) <=> \E o \in Flushed("deleted") : item = <<"deleted", o>>
  BY ItemsOfProperties DEF Op
<1>3. /\ C \in Seq(Item)
      /\ \A item : Has(C, item) <=> \E o \in Flushed("changed") : item = <<"changed", o>>
  BY ItemsOfProperties DEF Op
<1>4. Queued = Q3
  BY DEF Queued
<1>5. /\ Q1 \in Seq(Item)
      /\ \A item : Has(Q1, item) <=> Has(to_update, item) \/ Has(N, item)
  <2> HIDE DEF N
  <2>1. QED
    BY <1>1, HasBoth
<1>6. /\ Q2 \in Seq(Item)
      /\ \A item : Has(Q2, item) <=> Has(Q1, item) \/ Has(D, item)
  <2> HIDE DEF Q1, D
  <2>1. QED
    BY <1>2, <1>5, HasBoth
<1>7. /\ Q3 \in Seq(Item)
      /\ \A item : Has(Q3, item) <=> Has(Q2, item) \/ Has(C, item)
  <2> HIDE DEF Q2, C
  <2>1. QED
    BY <1>3, <1>6, HasBoth
<1> HIDE DEF N, D, C, Q1, Q2, Q3
<1>8. ASSUME NEW op \in Op, NEW o
      PROVE  Has(Queued, <<op, o>>) <=> Has(to_update, <<op, o>>) \/ o \in Flushed(op)
  <2>1. Has(N, <<op, o>>) <=> op = "new" /\ o \in Flushed(op)
    BY <1>1
  <2>2. Has(D, <<op, o>>) <=> op = "deleted" /\ o \in Flushed(op)
    BY <1>2
  <2>3. Has(C, <<op, o>>) <=> op = "changed" /\ o \in Flushed(op)
    BY <1>3
  <2>4. op = "new" \/ op = "deleted" \/ op = "changed"
    BY DEF Op
  <2>5. QED
    BY <1>4, <1>5, <1>6, <1>7, <2>1, <2>2, <2>3, <2>4
<1>9. QED
  BY <1>4, <1>7, <1>8

\* An object has been flushed with the operation that was pending.
LEMMA FlushedProperties ==
  ASSUME PendingType, NEW o \in Object
  PROVE  /\ pending[o] # <<>> => /\ pending[o][1] \in Op /\ pending[o][2] \in Row
                                 /\ o \in Flushed(pending[o][1])
         /\ \A op : o \in Flushed(op) <=> pending[o] # <<>> /\ pending[o][1] = op
  BY DEF PendingType, Flushed

--------------------------------------------------------------------------------
(* What a task is sent, and what it writes.                                *)

\* What the task is sent: the items of the queue whose object is in the session.
LEMMA ItemsProperties ==
  ASSUME to_update \in Seq(Item)
  PROVE  /\ Items \in Seq(Item)
         /\ \A item : Has(Items, item) <=> Has(to_update, item) /\ Attached(item)
<1> DEFINE N == Len(to_update)
           D == 0 .. N
           Next1(f) == [n \in D |->
              IF n = 0 THEN <<>>
              ELSE IF Attached(to_update[n]) THEN Append(f[n - 1], to_update[n])
                                             ELSE f[n - 1]]
           items == CHOOSE f : f = Next1(f)
           step == [x \in (1 .. N) \X Seq(Item) |->
              IF Attached(to_update[x[1]]) THEN Append(x[2], to_update[x[1]]) ELSE x[2]]
<1>1. N \in Nat /\ DOMAIN to_update = 1 .. N /\ \A n \in 1 .. N : to_update[n] \in Item
  BY LenProperties, ElementOfSeq
<1>2. step \in [(1 .. N) \X Seq(Item) -> Seq(Item)]
  BY <1>1, AppendProperties
<1>3. <<>> \in Seq(Item)
  BY EmptySeq
<1>4. PICK g \in [0 .. N -> Seq(Item)] : Follows(g, N, <<>>, step)
  <2>1. N \in Nat
    BY <1>1
  <2>2. step \in Steps(Seq(Item), N)
    BY <1>2 DEF Steps
  <2> HIDE DEF step, N
  <2>3. QED
    BY <1>3, <2>1, <2>2, RecursionExists
<1>5. g = Next1(g)
  <2>1. ASSUME NEW n \in D, n # 0
        PROVE  step[<<n, g[n - 1]>>] =
                  IF Attached(to_update[n]) THEN Append(g[n - 1], to_update[n])
                                            ELSE g[n - 1]
    <3>1. n \in 1 .. N /\ n - 1 \in D
      <4>1. N \in Nat
        BY <1>1
      <4> HIDE DEF N
      <4>2. QED
        BY <2>1, <4>1
    <3>2. g[n - 1] \in Seq(Item)
      BY <1>4, <3>1
    <3>3. QED
      BY <3>1, <3>2
  <2>2. ASSUME NEW n \in D, n # 0
        PROVE  n \in 1 .. N
    <3>1. N \in Nat
      BY <1>1
    <3> HIDE DEF N
    <3>2. QED
      BY <2>2, <3>1
  <2>3. \A n \in D : g[n] = IF n = 0 THEN <<>>
              ELSE IF Attached(to_update[n]) THEN Append(g[n - 1], to_update[n])
                                             ELSE g[n - 1]
    <3> HIDE DEF step, D
    <3>1. QED
      BY <1>4, <2>1, <2>2 DEF Follows
  <2> HIDE DEF step
  <2>4. QED
    BY <1>4, <2>3
<1>6. items = Next1(items)
  <2> HIDE DEF Next1
  <2>1. QED
    BY <1>5
<1> HIDE DEF items
<1>7. \A n \in 1 .. N : items[n] =
          IF Attached(to_update[n]) THEN Append(items[n - 1], to_update[n])
                                    ELSE items[n - 1]
  <2>1. ASSUME NEW n \in 1 .. N
        PROVE  n \in D /\ n # 0
    <3>1. N \in Nat
      BY <1>1
    <3> HIDE DEF N
    <3>2. QED
      BY <2>1, <3>1
  <2>2. \A n \in D : items[n] = IF n = 0 THEN <<>>
              ELSE IF Attached(to_update[n]) THEN Append(items[n - 1], to_update[n])
                                             ELSE items[n - 1]
    <3> HIDE DEF D
    <3>1. QED
      BY <1>6, Zenon
  <2> HIDE DEF D
  <2>3. QED
    BY <2>1, <2>2
<1>8. items[0] = <<>>
  BY <1>1, <1>6
<1> DEFINE Good(n) == /\ items[n] \in Seq(Item)
                      /\ \A item : Has(items[n], item) <=>
                            /\ \E i \in 1 .. n : to_update[i] = item
                            /\ Attached(item)
           T == {n \in D : ~Good(n)}
<1>9. T = {}
  <2>1. SUFFICES ASSUME T # {} PROVE FALSE
    OBVIOUS
  <2>2. PICK d \in T : \A k \in T : d <= k
    <3>1. T \in SUBSET Nat
      BY <1>1
    <3> HIDE DEF T
    <3>2. QED
      BY <2>1, <3>1, LeastNatural
  <2>3. Good(0)
    BY <1>3, <1>8 DEF Has
  <2>4. d \in D /\ ~Good(d)
    BY <2>2
  <2>5. d \in 1 .. N /\ d - 1 \in D
    <3> HIDE DEF Good
    <3>1. d # 0
      BY <2>3, <2>4
    <3>2. QED
      BY <1>1, <2>4, <3>1
  <2>6. Good(d - 1)
    <3>1. d - 1 \notin T
      <4> HIDE DEF T, Good
      <4>1. QED
        BY <1>1, <2>2, <2>5
    <3> HIDE DEF Good
    <3>2. QED
      BY <2>5, <3>1
  <2>7. 1 .. d = 1 .. d - 1 \cup {d}
    BY <1>1, <2>5
  <2>8. to_update[d] \in Item
    BY <1>1, <2>5
  <2>9. CASE ~Attached(to_update[d])
    BY <1>7, <2>4, <2>5, <2>6, <2>7, <2>9
  <2>10. CASE Attached(to_update[d])
    <3> DEFINE before == items[d - 1]
    <3>1. items[d] = Append(before, to_update[d]) /\ before \in Seq(Item)
      BY <1>7, <2>5, <2>6, <2>10
    <3>2. /\ items[d] \in Seq(Item)
          /\ Len(items[d]) = Len(before) + 1
          /\ \A i \in 1 .. Len(before) : items[d][i] = before[i]
          /\ items[d][Len(before) + 1] = to_update[d]
      BY <2>8, <3>1, AppendProperties
    <3>3. /\ Len(before) \in Nat /\ DOMAIN before = 1 .. Len(before)
          /\ DOMAIN items[d] = 1 .. Len(before) + 1
      BY <3>1, <3>2, LenProperties
    <3>4. \A item : Has(items[d], item) <=> Has(before, item) \/ item = to_update[d]
      <4>1. ASSUME NEW i \in DOMAIN items[d]
            PROVE  \/ items[d][i] = to_update[d]
                   \/ i \in DOMAIN before /\ items[d][i] = before[i]
        <5> DEFINE L == Len(before)
        <5>1. L \in Nat /\ DOMAIN before = 1 .. L /\ i \in 1 .. L + 1
          BY <3>3
        <5>2. /\ \A j \in 1 .. L : items[d][j] = before[j]
              /\ items[d][L + 1] = to_update[d]
          BY <3>2
        <5> HIDE DEF L, before
        <5>3. i \in 1 .. L \/ i = L + 1
          BY <5>1
        <5>4. QED
          BY <5>1, <5>2, <5>3
      <4>2. \A i \in DOMAIN before : i \in DOMAIN items[d] /\ items[d][i] = before[i]
        BY <3>2, <3>3
      <4>3. Len(before) + 1 \in DOMAIN items[d]
        BY <3>3
      <4> HIDE DEF before
      <4>4. QED
        BY <3>2, <4>1, <4>2, <4>3 DEF Has
    <3>5. QED
      BY <2>4, <2>6, <2>7, <2>10, <3>2, <3>4
  <2>11. QED
    BY <2>9, <2>10
<1>10. Good(N)
  BY <1>1, <1>9
<1>11. Items = items[N]
  BY DEF Items, items
<1>12. QED
  BY <1>1, <1>10, <1>11 DEF Has

\* What a task's loop leaves in the writer after n of its items: each object it
\* met is to be deleted, and is added if it has a row and an item that is no
\* deletion.
AfterItems(items, rows, n) ==
    [deletes |-> {o \in Object : \E i \in 1 .. n : items[i][2] = o},
     adds |-> [o \in Object |->
        IF rows[o] # Absent
           /\ \E i \in 1 .. n : items[i][2] = o /\ items[i][1] # "deleted"
        THEN <<rows[o]>> ELSE <<>>]]

\* One more item.
LEMMA AfterItem ==
  ASSUME NEW items \in Seq(Item), NEW rows, NEW n \in 1 .. Len(items)
  PROVE  Processed(AfterItems(items, rows, n - 1), items[n], rows)
            = AfterItems(items, rows, n)
<1> DEFINE op == items[n][1]
           p == items[n][2]
           before == AfterItems(items, rows, n - 1)
           after == AfterItems(items, rows, n)
           added == IF op = "deleted" \/ rows[p] = Absent \/ before.adds[p] # <<>>
                    THEN before.adds
                    ELSE [before.adds EXCEPT ![p] = <<rows[p]>>]
<1>0. Len(items) \in Nat
  BY LenProperties
<1>1. items[n] \in Item
  BY ElementOfSeq
<1>2. p \in Object /\ op \in Op
  BY <1>1 DEF Item
<1>3. 1 .. n = 1 .. (n - 1) \cup {n}
  BY <1>0
<1>4. before.deletes \cup {p} = after.deletes
  BY <1>2, <1>3 DEF AfterItems
<1>5. added = after.adds
  <2>1. DOMAIN added = Object /\ added = [o \in Object |-> added[o]]
    BY DEF AfterItems
  <2>2. ASSUME NEW o \in Object
        PROVE  added[o] = after.adds[o]
    <3>1. CASE o # p
      BY <1>2, <1>3, <3>1 DEF AfterItems
    <3>2. CASE o = p
      <4>1. /\ before.adds[p] = <<>> \/ before.adds[p] = <<rows[p]>>
            /\ <<rows[p]>> # <<>>
        BY <1>2 DEF AfterItems
      <4>2. CASE rows[p] = Absent
        BY <1>2, <1>3, <3>2, <4>2 DEF AfterItems
      <4>3. CASE rows[p] # Absent /\ op = "deleted"
        BY <1>2, <1>3, <3>2, <4>3 DEF AfterItems
      <4>4. CASE rows[p] # Absent /\ op # "deleted"
        <5>1. after.adds[p] = <<rows[p]>>
          BY <1>2, <1>3, <4>4 DEF AfterItems
        <5>2. added[p] = <<rows[p]>>
          BY <1>2, <4>1, <4>4 DEF AfterItems
        <5>3. QED
          BY <3>2, <5>1, <5>2
      <4>5. QED
        BY <4>2, <4>3, <4>4
    <3>3. QED
      BY <3>1, <3>2
  <2>3. after.adds = [o \in Object |-> after.adds[o]]
    BY DEF AfterItems
  <2> HIDE DEF added, after
  <2>4. QED
    BY <2>1, <2>2, <2>3
<1>6. Processed(before, items[n], rows) = [deletes |-> before.deletes \cup {p}, adds |-> added]
  BY DEF Processed
<1>7. after = [deletes |-> after.deletes, adds |-> after.adds]
  BY DEF AfterItems
<1> HIDE DEF added, after, before, p
<1>8. QED
  BY <1>4, <1>5, <1>6, <1>7 DEF after, before

(***************************************************************************)
(* The loop of index_update, all of it.  A recursive function is whatever  *)
(* satisfies its equation: AfterItems does, and nothing else does, since   *)
(* another would differ from it at a first item.                           *)
(***************************************************************************)
LEMMA ProcessingProperties ==
  ASSUME NEW items \in Seq(Item), NEW rows
  PROVE  Processing(items, rows) = AfterItems(items, rows, Len(items))
<1> DEFINE D == 0 .. Len(items)
           Next1(w) == [n \in D |-> IF n = 0 THEN FreshWriter
                                   ELSE Processed(w[n - 1], items[n], rows)]
           known == [n \in D |-> AfterItems(items, rows, n)]
           writer == CHOOSE w : w = Next1(w)
<1>1. Len(items) \in Nat
  BY LenProperties
<1>2. FreshWriter = AfterItems(items, rows, 0)
  <2>1. \A i \in 1 .. 0 : FALSE
    OBVIOUS
  <2>2. {o \in Object : \E i \in 1 .. 0 : items[i][2] = o} = {}
    BY <2>1
  <2>3. \A o \in Object : (IF rows[o] # Absent
                  /\ \E i \in 1 .. 0 : items[i][2] = o /\ items[i][1] # "deleted"
               THEN <<rows[o]>> ELSE <<>>) = <<>>
    BY <2>1
  <2>4. QED
    BY <2>2, <2>3 DEF FreshWriter, AfterItems
<1>3. \A n \in D \ {0} : known[n] = Processed(known[n - 1], items[n], rows)
  BY <1>1, AfterItem
<1>4. known = Next1(known)
  <2>1. \A n \in D : known[n] = IF n = 0 THEN FreshWriter
                                 ELSE Processed(known[n - 1], items[n], rows)
    <3>1. 0 \in D /\ known[0] = FreshWriter
      BY <1>1, <1>2
    <3> HIDE DEF known, D
    <3>2. QED
      BY <1>3, <3>1
  <2>2. known = [n \in D |-> known[n]]
    OBVIOUS
  <2> HIDE DEF known
  <2>3. QED
    BY <2>1, <2>2
<1>5. writer = Next1(writer)
  <2> HIDE DEF known, Next1
  <2>1. QED
    BY <1>4
<1> HIDE DEF writer
<1>6. \A n \in D : writer[n] = known[n]
  <2> DEFINE T == {n \in D : writer[n] # known[n]}
  <2>1. SUFFICES ASSUME T # {} PROVE FALSE
    OBVIOUS
  <2>2. PICK d \in T : \A k \in T : d <= k
    <3>1. T \in SUBSET Nat
      BY <1>1
    <3> HIDE DEF T
    <3>2. QED
      BY <2>1, <3>1, LeastNatural
  <2>3. d # 0
    BY <1>2, <1>5
  <2>4. d - 1 \in D /\ d - 1 \notin T /\ d \in D
    BY <1>1, <2>2, <2>3
  <2>5. writer[d - 1] = known[d - 1]
    BY <2>4
  <2>6. writer[d] = known[d]
    <3> HIDE DEF T, known
    <3>1. writer[d] = Processed(writer[d - 1], items[d], rows)
      BY <1>5, <2>3, <2>4
    <3>2. QED
      BY <1>3, <2>3, <2>4, <2>5, <3>1
  <2>7. QED
    BY <2>2, <2>6
<1>7. Processing(items, rows) = writer[Len(items)]
  BY DEF Processing, writer
<1>8. QED
  BY <1>1, <1>6, <1>7

IndexType == index \in [Object -> Seq(Value)]

\* What a task writes for an object: its row, if an item wants it and it has one.
Wants(items, o) == Has(items, <<"new", o>>) \/ Has(items, <<"changed", o>>)

\* What committing the writer of a whole task leaves of each object: the
\* document of its row when an item wants it written, nothing otherwise.
LEMMA WrittenProperties ==
  ASSUME NEW items \in Seq(Item), NEW rows \in [Object -> Row], IndexType
  PROVE  LET written == Written(index, Processing(items, rows))
         IN  /\ written = [o \in Object |-> written[o]]
             /\ \A o \in Object : written[o] =
                    IF Wants(items, o) /\ rows[o] # Absent THEN <<rows[o]>>
                    ELSE IF Queues(items, o) THEN <<>> ELSE index[o]
<1> DEFINE writer == AfterItems(items, rows, Len(items))
           written == Written(index, writer)
<1>1. Processing(items, rows) = writer
  BY ProcessingProperties
<1>2. /\ DOMAIN items = 1 .. Len(items)
      /\ \A i \in 1 .. Len(items) : items[i] \in Item
  BY LenProperties, ElementOfSeq
<1>3. ASSUME NEW o \in Object
      PROVE  /\ o \in writer.deletes <=> Queues(items, o)
             /\ writer.adds[o] = IF Wants(items, o) /\ rows[o] # Absent
                                 THEN <<rows[o]>> ELSE <<>>
             /\ Wants(items, o) => Queues(items, o)
  <2>1. o \in writer.deletes <=> Queues(items, o)
    BY <1>2 DEF AfterItems, Queues
  <2>2. Wants(items, o) <=>
            \E i \in 1 .. Len(items) : items[i][2] = o /\ items[i][1] # "deleted"
    <3>1. ASSUME NEW i \in 1 .. Len(items), items[i][2] = o, items[i][1] # "deleted"
          PROVE  items[i] = <<"new", o>> \/ items[i] = <<"changed", o>>
      BY <1>2, <3>1 DEF Item, Op
    <3>2. QED
      BY <1>2, <3>1 DEF Wants, Has
  <2>3. writer.adds[o] = IF Wants(items, o) /\ rows[o] # Absent THEN <<rows[o]>> ELSE <<>>
    BY <2>2 DEF AfterItems
  <2>4. Wants(items, o) => Queues(items, o)
    BY <2>2, <1>2 DEF Queues
  <2>5. QED
    BY <2>1, <2>3, <2>4
<1> HIDE DEF writer
<1>4. ASSUME NEW o \in Object
      PROVE  written[o] = IF Wants(items, o) /\ rows[o] # Absent THEN <<rows[o]>>
                          ELSE IF Queues(items, o) THEN <<>> ELSE index[o]
  <2>1. written[o] = (IF o \in writer.deletes THEN <<>> ELSE index[o]) \o writer.adds[o]
    BY DEF Written
  <2>2. index[o] \in Seq(Value)
    BY DEF IndexType
  <2>3. CASE Wants(items, o) /\ rows[o] # Absent
    <3>1. written[o] = <<>> \o <<rows[o]>>
      BY <1>3, <2>1, <2>3
    <3>2. <<rows[o]>> \in Seq(Row)
      OBVIOUS
    <3>3. <<>> \o <<rows[o]>> = <<rows[o]>>
      BY <3>2, ConcatEmptySeq
    <3>4. QED
      BY <2>3, <3>1, <3>3
  <2>4. CASE ~(Wants(items, o) /\ rows[o] # Absent)
    <3>1. written[o] = (IF Queues(items, o) THEN <<>> ELSE index[o]) \o <<>>
      BY <1>3, <2>1, <2>4
    <3>2. <<>> \in Seq(Value)
      BY EmptySeq
    <3>3. index[o] \o <<>> = index[o] /\ <<>> \o <<>> = <<>>
      BY <2>2, <3>2, ConcatEmptySeq
    <3>4. QED
      BY <2>4, <3>1, <3>3
  <2>5. QED
    BY <2>3, <2>4
<1>5. written = [o \in Object |-> written[o]]
  BY DEF Written
<1> HIDE DEF written
<1>6. QED
  BY <1>1, <1>4, <1>5 DEF written

\* The objects of the task's items are in the session.
LEMMA ItemsQueues ==
  ASSUME to_update \in Seq(Item), NEW o
  PROVE  /\ Queues(Items, o) <=> Queues(to_update, o) /\ orm[o] # "transient"
         /\ Wants(Items, o) <=> Wants(to_update, o) /\ orm[o] # "transient"
<1>1. /\ Items \in Seq(Item)
      /\ \A item : Has(Items, item) <=> Has(to_update, item) /\ Attached(item)
  BY ItemsProperties
<1>2. \A op : Attached(<<op, o>>) <=> orm[o] # "transient"
  BY DEF Attached
<1>3. \A op : Has(Items, <<op, o>>) <=> Has(to_update, <<op, o>>) /\ orm[o] # "transient"
  BY <1>1, <1>2
<1>4. QED
  BY <1>1, <1>3, HasQueues DEF Wants

--------------------------------------------------------------------------------
(* The stack of transactions.                                              *)

\* The innermost transaction, as a member of the stack.
LEMMA HereProperties ==
  ASSUME QueueInv
  PROVE  /\ Len(levels) \in Nat \ {0}
         /\ Here = levels[Len(levels)]
         /\ Here \in Level
         /\ Here.rows \in [Object -> Row]
         /\ ~failed => Covered(Here.rows, to_update)
<1>1. Len(levels) \in Nat \ {0}
  BY LenProperties DEF QueueInv
<1>2. Here = levels[Len(levels)]
  BY DEF Here, Last
<1>3. levels[Len(levels)] \in Level
  BY <1>1, ElementOfSeq DEF QueueInv
<1>4. QED
  BY <1>1, <1>2, <1>3 DEF QueueInv, Level

\* A fresh level is a level.
LEMMA LevelOverType ==
  ASSUME NEW rows \in [Object -> Row]
  PROVE  LevelOver(rows) \in Level /\ LevelOver(rows).rows = rows
  BY DEF LevelOver, Level

\* Its place in the stack.
LEMMA TopProperties ==
  ASSUME QueueInv
  PROVE  /\ Len(levels) \in Nat \ {0} /\ Len(levels) \in 1 .. Len(levels)
         /\ Here = levels[Len(levels)]
<1>1. Len(levels) \in Nat \ {0} /\ Here = levels[Len(levels)]
  BY HereProperties
<1> DEFINE n == Len(levels)
<1>2. n \in 1 .. n
  <2>1. n \in Nat \ {0}
    BY <1>1
  <2> HIDE DEF n
  <2>2. QED
    BY <2>1
<1>3. QED
  BY <1>1, <1>2

\* A transaction that has only begun has touched nothing.
LEMMA FreshLevel ==
  ASSUME NEW rows
  PROVE  LevelOver(rows).rows = rows /\ \A o : ~Touches(LevelOver(rows), o)
  BY DEF LevelOver, Touches

\* What a flush makes of the innermost transaction.
FlushedLevel ==
    [rows |-> [o \in Object |-> IF pending[o] = <<>> THEN Here.rows[o]
                                                    ELSE FlushedRow(o)],
     new |-> Here.new \cup Flushed("new"),
     dirty |-> Here.dirty \cup Modified,
     deleted |-> Here.deleted \cup Flushed("deleted")]

\* The stack after a flush: the innermost transaction has touched more.
LEMMA FlushLevels ==
  ASSUME QueueInv, Flush
  PROVE  /\ levels' \in Seq(Level)
         /\ Len(levels') = Len(levels)
         /\ \A k \in 1 .. Len(levels) :
                levels'[k] = IF k = Len(levels) THEN FlushedLevel ELSE levels[k]
<1>1. \A o \in Object : pending[o] # <<>> => FlushedRow(o) \in Row
  BY DEF QueueInv, FlushedRow, Row
<1>2. FlushedLevel \in Level
  BY <1>1, HereProperties DEF Level, Flushed, Modified, FlushedLevel
<1>3. levels' = [levels EXCEPT ![Len(levels)] = FlushedLevel]
  BY DEF Flush, FlushedLevel
<1>4. QED
  BY <1>2, <1>3, HereProperties, ExceptSeq DEF QueueInv

\* The stack after a savepoint: one more transaction, that touched nothing.
LEMMA BeginNestedLevels ==
  ASSUME QueueInv, BeginNested
  PROVE  /\ levels' \in Seq(Level)
         /\ Len(levels') = Len(levels) + 1
         /\ \A k \in 1 .. Len(levels) : levels'[k] = levels[k]
         /\ levels'[Len(levels) + 1] = LevelOver(Here.rows)
<1>1. LevelOver(Here.rows) \in Level
  BY HereProperties, LevelOverType
<1>2. levels' = Append(levels, LevelOver(Here.rows))
  BY DEF BeginNested
<1>3. levels \in Seq(Level)
  BY DEF QueueInv
<1>4. QED
  BY <1>1, <1>2, <1>3, AppendProperties

\* A savepoint that is released, over the transaction it was in.
Released(parent) ==
    [rows |-> Here.rows,
     new |-> parent.new \cup Here.new,
     dirty |-> parent.dirty \cup Here.dirty,
     deleted |-> parent.deleted \cup Here.deleted]

\* The stack after a savepoint is released: its parent inherits its marks.
LEMMA CommitNestedLevels ==
  ASSUME QueueInv, CommitNested
  PROVE  /\ levels' \in Seq(Level)
         /\ Len(levels) > 1
         /\ Len(levels') = Len(levels) - 1
         /\ \A k \in 1 .. Len(levels) - 2 : levels'[k] = levels[k]
         /\ levels'[Len(levels) - 1] = Released(levels[Len(levels) - 1])
<1> DEFINE n == Len(levels)
           below == SubSeq(levels, 1, n - 2)
           level == Released(levels[n - 1])
<1>1. levels' = Append(below, level) /\ n > 1
  BY DEF CommitNested, Released
<1>2. n \in Nat /\ levels \in Seq(Level)
  BY HereProperties DEF QueueInv
<1>3. levels[n - 1] \in Level
  BY <1>1, <1>2, ElementOfSeq
<1>4. level \in Level
  BY <1>3, HereProperties DEF Level, Released
<1>5. /\ below \in Seq(Level)
      /\ Len(below) = n - 2
      /\ \A k \in 1 .. n - 2 : below[k] = levels[k]
  <2>1. CASE n = 2
    BY <1>2, <2>1, EmptySeq, SubSeqEmpty
  <2>2. CASE n > 2
    <3> DEFINE m == n - 2
    <3>1. m \in Nat /\ m >= 1 /\ \A k \in 1 .. m : levels[k] \in Level
      BY <1>2, <2>2, ElementOfSeq
    <3> HIDE DEF m
    <3>2. /\ SubSeq(levels, 1, m) \in Seq(Level)
          /\ Len(SubSeq(levels, 1, m)) = IF 1 <= m THEN m - 1 + 1 ELSE 0
          /\ \A i \in 1 .. m - 1 + 1 : SubSeq(levels, 1, m)[i] = levels[1 + i - 1]
      BY <1>2, <3>1, SubSeqProperties
    <3>3. m - 1 + 1 = m /\ \A i \in 1 .. m : 1 + i - 1 = i
      BY <3>1
    <3>4. QED
      BY <3>1, <3>2, <3>3 DEF m
  <2>3. n = 2 \/ n > 2
    <3> HIDE DEF n
    <3>1. QED
      BY <1>1, <1>2
  <2>4. QED
    BY <2>1, <2>2, <2>3
<1>6. n - 2 \in Nat /\ n - 2 + 1 = n - 1
  <2> HIDE DEF n
  <2>1. QED
    BY <1>1, <1>2
<1> HIDE DEF level, below
<1>7. /\ levels' \in Seq(Level)
      /\ Len(levels') = n - 1
      /\ \A k \in 1 .. n - 2 : levels'[k] = levels[k]
      /\ levels'[n - 1] = level
  BY <1>1, <1>4, <1>5, <1>6, AppendProperties
<1>8. QED
  BY <1>1, <1>7 DEF level

\* The stack after a rollback: one transaction less.
LEMMA RollbackLevels ==
  ASSUME QueueInv, Rollback, Len(levels) # 1
  PROVE  /\ levels' \in Seq(Level)
         /\ Len(levels) > 1
         /\ Len(levels') = Len(levels) - 1
         /\ \A k \in 1 .. Len(levels) - 1 : levels'[k] = levels[k]
<1>1. levels' = Front(levels)
  BY DEF Rollback
<1>2. Len(levels) > 1
  <2> DEFINE n == Len(levels)
  <2>1. n \in Nat \ {0} /\ n # 1
    BY HereProperties
  <2> HIDE DEF n
  <2>2. n > 1
    BY <2>1
  <2>3. QED
    BY <2>2 DEF n
<1>3. QED
  BY <1>1, <1>2, FrontOfSeq DEF QueueInv

--------------------------------------------------------------------------------
(* What is changed is queued: QueueInv, one action at a time.              *)

\* A flush queues the objects it marks.
LEMMA FlushStep ==
  ASSUME QueueInv, Flush
  PROVE  QueueInv'
<1> DEFINE n == Len(levels)
<1>1. /\ levels' \in Seq(Level)
      /\ Len(levels') = n
      /\ \A k \in 1 .. n : levels'[k] = IF k = n THEN FlushedLevel ELSE levels[k]
  BY FlushLevels
<1>2. to_update' = Queued /\ ~failed /\ UNCHANGED <<db, failed>>
      /\ pending' = NothingPending
  BY DEF Flush
<1>3. \A o \in Object : FlushedLevel.rows[o] # Here.rows[o] => pending[o] # <<>>
  BY DEF FlushedLevel
<1>4. PendingType /\ to_update \in Seq(Item)
  BY DEF QueueInv, PendingType
<1>5. /\ to_update' \in Seq(Item)
      /\ \A op \in Op : \A o :
            Has(to_update', <<op, o>>) <=> Has(to_update, <<op, o>>) \/ o \in Flushed(op)
  BY <1>2, <1>4, QueuedProperties
<1>6. ASSUME NEW o \in Object, Queues(to_update, o) \/ pending[o] # <<>>
      PROVE  Queues(to_update', o)
  <2>1. CASE Queues(to_update, o)
    BY <1>4, <1>5, <2>1, HasQueues
  <2>2. CASE pending[o] # <<>>
    BY <1>4, <1>5, <2>2, HasQueues, FlushedProperties
  <2>3. QED
    BY <1>6, <2>1, <2>2
<1>7. ASSUME NEW k \in 1 .. n
      PROVE  Covered(levels[k].rows, to_update)'
  <2>1. SUFFICES ASSUME NEW o \in Object, levels'[k].rows[o] # db[o]
                 PROVE  Queues(to_update', o)
    BY <1>2 DEF Covered
  <2>2. CASE levels[k].rows[o] # db[o]
    BY <1>2, <1>6, <2>2 DEF QueueInv, Covered
  <2>3. CASE levels[k].rows[o] = db[o]
    BY <1>1, <1>3, <1>6, <2>1, <2>3, HereProperties
  <2>4. QED
    BY <2>2, <2>3
<1>8. pending' \in [Object -> {<<>>} \cup {<<op, v>> : op \in Op, v \in Row}]
  BY <1>2 DEF NothingPending
<1>9. QED
  BY <1>1, <1>2, <1>5, <1>7, <1>8, HereProperties DEF QueueInv

\* A savepoint starts with nothing to queue.
LEMMA BeginNestedStep ==
  ASSUME QueueInv, BeginNested
  PROVE  QueueInv'
<1> DEFINE n == Len(levels)
<1>1. UNCHANGED <<db, pending, to_update, failed>>
  BY DEF BeginNested
<1>2. /\ levels' \in Seq(Level)
      /\ Len(levels') = n + 1
      /\ \A k \in 1 .. n : levels'[k] = levels[k]
      /\ levels'[n + 1].rows = Here.rows
  BY BeginNestedLevels, FreshLevel
<1>3. ASSUME ~failed, NEW k \in 1 .. Len(levels')
      PROVE  Covered(levels'[k].rows, to_update)
  <2>1. k \in 1 .. n \/ k = n + 1
    BY <1>2, HereProperties
  <2>2. QED
    BY <1>2, <1>3, <2>1, HereProperties DEF QueueInv
<1>4. QED
  BY <1>1, <1>2, <1>3, HereProperties DEF QueueInv, Covered

\* A released savepoint passes on marks whose objects are queued.
LEMMA CommitNestedStep ==
  ASSUME QueueInv, CommitNested
  PROVE  QueueInv'
<1> DEFINE n == Len(levels)
<1>1. UNCHANGED <<db, pending, to_update, failed>>
  BY DEF CommitNested
<1>2. n \in Nat
  BY HereProperties
<1>3. /\ levels' \in Seq(Level)
      /\ n > 1
      /\ Len(levels') = n - 1
      /\ \A k \in 1 .. n - 2 : levels'[k] = levels[k]
      /\ levels'[n - 1].rows = Here.rows
  BY CommitNestedLevels DEF Released
<1>4. ASSUME ~failed, NEW k \in 1 .. Len(levels')
      PROVE  Covered(levels'[k].rows, to_update)
  <2>1. k \in 1 .. n - 2 \/ k = n - 1
    BY <1>2, <1>3
  <2>2. k \in 1 .. n
    BY <1>2, <1>3
  <2>3. QED
    BY <1>3, <1>4, <2>1, <2>2, HereProperties DEF QueueInv
<1>5. Len(levels') > 0
  BY <1>2, <1>3
<1>6. QED
  BY <1>1, <1>3, <1>4, <1>5 DEF QueueInv, Covered

\* The savepoints that remain have queued what they marked.
LEMMA RollbackStep ==
  ASSUME QueueInv, Rollback
  PROVE  QueueInv'
<1> DEFINE n == Len(levels)
<1>1. UNCHANGED <<db, to_update, failed>> /\ pending' = NothingPending
  BY DEF Rollback
<1>2. pending' \in [Object -> {<<>>} \cup {<<op, v>> : op \in Op, v \in Row}]
  BY <1>1 DEF NothingPending
<1>3. CASE n = 1
  <2>1. levels' = <<LevelOver(db)>>
    BY <1>3 DEF Rollback
  <2>2. LevelOver(db) \in Level /\ LevelOver(db).rows = db
    BY LevelOverType DEF QueueInv
  <2>3. levels' \in Seq(Level) /\ Len(levels') = 1 /\ levels'[1].rows = db
    BY <2>1, <2>2
  <2>4. QED
    BY <1>1, <1>2, <2>3 DEF QueueInv, Covered
<1>4. CASE n # 1
  <2>1. n \in Nat
    BY HereProperties
  <2>2. /\ levels' \in Seq(Level)
        /\ n > 1
        /\ Len(levels') = n - 1
        /\ \A k \in 1 .. n - 1 : levels'[k] = levels[k]
    BY <1>4, RollbackLevels
  <2>3. 1 .. Len(levels') \subseteq 1 .. n /\ Len(levels') > 0
    BY <2>1, <2>2
  <2>4. QED
    BY <1>1, <1>2, <2>2, <2>3 DEF QueueInv, Covered
<1>5. QED
  BY <1>3, <1>4

\* A commit leaves nothing marked and nothing queued.
LEMMA CommitStep ==
  ASSUME QueueInv, Commit
  PROVE  QueueInv'
<1>1. /\ db' = Here.rows /\ levels' = <<LevelOver(Here.rows)>>
      /\ to_update' = <<>> /\ UNCHANGED <<pending, failed>>
  BY DEF Commit
<1>2. LevelOver(Here.rows) \in Level /\ LevelOver(Here.rows).rows = Here.rows
  BY HereProperties, LevelOverType
<1>3. levels' \in Seq(Level) /\ Len(levels') = 1 /\ levels'[1].rows = db'
  BY <1>1, <1>2
<1>4. to_update' \in Seq(Item)
  BY <1>1, EmptySeq
<1>5. QED
  BY <1>1, <1>3, <1>4, HereProperties DEF QueueInv, Covered

\* Nor does a commit whose listener raises.
LEMMA CommitRaisesStep ==
  ASSUME QueueInv, CommitRaises
  PROVE  QueueInv'
<1>1. /\ db' = Here.rows /\ failed'
      /\ UNCHANGED <<levels, pending, to_update>>
  BY DEF CommitRaises
<1>2. db' \in [Object -> Row]
  BY <1>1, HereProperties
<1>3. QED
  BY <1>1, <1>2 DEF QueueInv

\* Nor does the end of the application context.
LEMMA NewContextStep ==
  ASSUME QueueInv, NewContext
  PROVE  QueueInv'
<1>1. /\ levels' = <<LevelOver(db)>> /\ to_update' = <<>>
      /\ pending' = NothingPending /\ UNCHANGED db
  BY DEF NewContext
<1>2. LevelOver(db) \in Level /\ LevelOver(db).rows = db
  BY LevelOverType DEF QueueInv
<1>3. levels' \in Seq(Level) /\ Len(levels') = 1 /\ levels'[1].rows = db'
  BY <1>1, <1>2
<1>4. to_update' \in Seq(Item)
  BY <1>1, EmptySeq
<1>5. pending' \in [Object -> {<<>>} \cup {<<op, v>> : op \in Op, v \in Row}]
  BY <1>1 DEF NothingPending
<1>6. QED
  BY <1>1, <1>3, <1>4, <1>5 DEF QueueInv, Covered

\* What the user does to an object only changes what is pending.
LEMMA ObjectStep ==
  ASSUME QueueInv, NEW o \in Object,
         \/ Load(o)
         \/ \E v \in Value : Add(o, v) \/ Change(o, v)
         \/ Delete(o)
  PROVE  QueueInv'
<1> DEFINE Pending == {<<>>} \cup {<<op, v>> : op \in Op, v \in Row}
<1>1. UNCHANGED <<db, levels, to_update, failed>>
  BY DEF Load, Add, Change, Delete
<1>2. pending' \in [Object -> Pending]
  <2>1. pending \in [Object -> Pending]
    BY DEF QueueInv
  <2>2. \A v \in Value : <<"new", v>> \in Pending /\ <<"changed", v>> \in Pending
    BY DEF Op, Row
  <2>3. <<"deleted", IF pending[o] = <<>> THEN Absent ELSE pending[o][2]>> \in Pending
    <3>1. pending[o] # <<>> => pending[o][2] \in Row
      BY <2>1
    <3>2. QED
      BY <3>1 DEF Op, Row
  <2> HIDE DEF Pending
  <2>4. QED
    BY <2>1, <2>2, <2>3 DEF Load, Add, Change, Delete
<1>3. QED
  BY <1>1, <1>2 DEF QueueInv, Covered

--------------------------------------------------------------------------------
(* What the session knows: KnownInv, one action at a time.                 *)

\* A session whose only transaction has only begun.
Fresh ==
    /\ levels = <<LevelOver(db)>> /\ OrmType /\ pending = NothingPending
    /\ TransientQueued /\ \A o \in Object : orm[o] # "deleted"

\* A session that starts afresh knows everything it should.
LEMMA FreshSession == Fresh => KnownInv
<1> SUFFICES ASSUME Fresh PROVE KnownInv
  OBVIOUS
<1>1. Len(levels) = 1 /\ levels[1].rows = db /\ \A o : ~Touches(levels[1], o)
  BY FreshLevel DEF Fresh
<1>2. \A k \in 1 .. Len(levels) : k = 1
  BY <1>1
<1>3. PendingFits
  BY DEF NothingPending, PendingFits, Fresh
<1>4. UntouchedRows /\ TouchedKnown
  BY <1>1, <1>2 DEF UntouchedRows, TouchedKnown
<1>5. NewRows /\ DeletedRows /\ TouchedQueued
  BY <1>1, <1>2 DEF NewRows, DeletedRows, TouchedQueued, Touches
<1>6. DeletedSomewhere
  BY DEF DeletedSomewhere, Fresh
<1>7. QED
  BY <1>3, <1>4, <1>5, <1>6 DEF KnownInv, Fresh

\* Loading an object makes it persistent, when it has a row to load.
LEMMA LoadKnown ==
  ASSUME QueueInv, KnownInv, NEW p \in Object, Load(p)
  PROVE  KnownInv'
<1>1. /\ ~failed /\ orm[p] \in {"transient", "expired"} /\ Here.rows[p] # Absent
      /\ orm' = [orm EXCEPT ![p] = "loaded"]
      /\ UNCHANGED <<db, levels, pending, to_update, failed>>
  BY DEF Load
<1>2. /\ OrmType /\ PendingFits /\ UntouchedRows /\ TouchedKnown /\ NewRows
      /\ DeletedRows /\ DeletedSomewhere /\ TouchedQueued /\ TransientQueued
  BY <1>1 DEF KnownInv
<1>3. OrmType' /\ \A o \in Object : orm'[o] = IF o = p THEN "loaded" ELSE orm[o]
  BY <1>1, <1>2 DEF OrmType, OrmStates
<1>4. Here' = Here
  BY <1>1 DEF Here
<1>5. PendingFits'
  BY <1>1, <1>2, <1>3, <1>4 DEF PendingFits
<1>6. TouchedKnown'
  BY <1>1, <1>2, <1>3 DEF TouchedKnown
<1>7. UntouchedRows' /\ NewRows' /\ TouchedQueued'
  BY <1>1, <1>2 DEF UntouchedRows, NewRows, TouchedQueued
<1>8. DeletedRows' /\ DeletedSomewhere'
  BY <1>1, <1>2, <1>3 DEF DeletedRows, DeletedSomewhere
<1>9. TransientQueued'
  BY <1>1, <1>2, <1>3 DEF TransientQueued
<1>10. QED
  BY <1>3, <1>5, <1>6, <1>7, <1>8, <1>9 DEF KnownInv

\* What is done to an object in memory changes only its pending operation.
LEMMA PendKnown ==
  ASSUME QueueInv, KnownInv, NEW p \in Object,
         \/ \E v \in Value : Add(p, v) \/ Change(p, v)
         \/ Delete(p)
  PROVE  KnownInv'
<1>1. /\ ~failed
      /\ UNCHANGED <<db, levels, orm, to_update, failed>>
      /\ \A o \in Object : o # p => pending'[o] = pending[o]
      /\ \/ /\ orm[p] = "transient" /\ Here.rows[p] = Absent
            /\ \E v \in Value : pending'[p] = <<"new", v>>
         \/ orm[p] = "loaded" /\ \E v \in Value : pending'[p] = <<"changed", v>>
         \/ orm[p] = "loaded" /\ \E v : pending'[p] = <<"deleted", v>>
  BY DEF Add, Change, Delete, QueueInv
<1>2. /\ OrmType /\ PendingFits /\ UntouchedRows /\ TouchedKnown /\ NewRows
      /\ DeletedRows /\ DeletedSomewhere /\ TouchedQueued /\ TransientQueued
  BY <1>1 DEF KnownInv
<1>3. Here' = Here
  BY <1>1 DEF Here
<1>4. PendingFits'
  <2>1. SUFFICES ASSUME NEW o \in Object, pending'[o] # <<>>
                 PROVE  IF pending'[o][1] = "new"
                        THEN orm[o] = "transient" /\ Here.rows[o] = Absent
                        ELSE /\ orm[o] = "loaded"
                             /\ pending'[o][1] = "changed" => pending'[o][2] \in Value
    BY <1>1, <1>3 DEF PendingFits
  <2>2. CASE o # p
    BY <1>1, <1>2, <2>1, <2>2 DEF PendingFits
  <2>3. CASE o = p
    BY <1>1, <2>3
  <2>4. QED
    BY <2>2, <2>3
<1>5. UntouchedRows' /\ TouchedKnown' /\ NewRows'
  BY <1>1, <1>2 DEF UntouchedRows, TouchedKnown, NewRows
<1>6. DeletedRows' /\ DeletedSomewhere' /\ TouchedQueued' /\ TransientQueued' /\ OrmType'
  BY <1>1, <1>2 DEF DeletedRows, DeletedSomewhere, TouchedQueued, TransientQueued, OrmType
<1>7. QED
  BY <1>4, <1>5, <1>6 DEF KnownInv

\* What a flush does to the innermost transaction and to what the session knows.
LEMMA FlushEffect ==
  ASSUME QueueInv, KnownInv, Flush
  PROVE  /\ \A o \in Object :
              IF pending[o] = <<>>
              THEN /\ FlushedLevel.rows[o] = Here.rows[o]
                   /\ Touches(FlushedLevel, o) => Touches(Here, o)
                   /\ o \in FlushedLevel.new => o \in Here.new
                   /\ o \in FlushedLevel.dirty => o \in Here.dirty
                   /\ o \in FlushedLevel.deleted => o \in Here.deleted
                   /\ orm'[o] = orm[o]
              ELSE /\ pending[o][1] = "deleted" => FlushedLevel.rows[o] = Absent
                   /\ orm'[o] = IF pending[o][1] = "deleted" THEN "deleted" ELSE "loaded"
                   /\ o \in FlushedLevel.new =>
                        o \in Here.new \/ pending[o][1] = "new"
                   /\ o \in FlushedLevel.dirty =>
                        o \in Here.dirty \/ pending[o][1] \in {"changed", "deleted"}
                   /\ o \in FlushedLevel.deleted =>
                        o \in Here.deleted \/ pending[o][1] = "deleted"
                   /\ pending[o][1] = "deleted" => o \in FlushedLevel.deleted
         /\ \A o \in Object : Touches(Here, o) => Touches(FlushedLevel, o)
         /\ \A o \in Object : pending[o] # <<>> => Touches(FlushedLevel, o)
         /\ \A o \in Object : o \in Here.deleted => o \in FlushedLevel.deleted
         /\ OrmType'
<1>0. PendingType
  BY DEF QueueInv, PendingType
<1>1. OrmType /\ PendingFits
  BY DEF KnownInv, Flush
<1>2. orm' = [o \in Object |->
                    CASE o \in Flushed("deleted") -> "deleted"
                      [] o \in Flushed("new") -> "loaded"
                      [] OTHER -> orm[o]]
  BY DEF Flush
<1>3. ASSUME NEW o \in Object, pending[o] = <<>>
      PROVE  \A op : o \notin Flushed(op)
  BY <1>0, <1>3, FlushedProperties
<1>4. ASSUME NEW o \in Object, pending[o] # <<>>
      PROVE  /\ \A op : o \in Flushed(op) <=> op = pending[o][1]
             /\ pending[o][1] \in Op
  BY <1>0, <1>4, FlushedProperties
<1>5. OrmType'
  BY <1>1, <1>2 DEF OrmType, OrmStates
<1>6. \A o \in Object : pending[o] = <<>> => orm'[o] = orm[o]
  BY <1>2, <1>3
<1>7. ASSUME NEW o \in Object, pending[o] # <<>>
      PROVE  orm'[o] = IF pending[o][1] = "deleted" THEN "deleted" ELSE "loaded"
  <2>1. CASE pending[o][1] = "deleted"
    BY <1>2, <1>4, <1>7, <2>1
  <2>2. CASE pending[o][1] = "new"
    BY <1>2, <1>4, <1>7, <2>2
  <2>3. CASE pending[o][1] = "changed"
    <3>1. orm[o] = "loaded"
      BY <1>1, <1>7, <2>3 DEF PendingFits
    <3>2. o \notin Flushed("deleted") /\ o \notin Flushed("new")
      BY <1>4, <1>7, <2>3
    <3>3. QED
      BY <1>2, <2>3, <3>1, <3>2
  <2>4. QED
    BY <1>4, <1>7, <2>1, <2>2, <2>3 DEF Op
<1>8. /\ FlushedLevel.rows = [o \in Object |-> IF pending[o] = <<>> THEN Here.rows[o]
                                                                   ELSE FlushedRow(o)]
      /\ FlushedLevel.new = Here.new \cup Flushed("new")
      /\ FlushedLevel.dirty = Here.dirty \cup Modified
      /\ FlushedLevel.deleted = Here.deleted \cup Flushed("deleted")
  BY DEF FlushedLevel
<1>9. \A o \in Object : Touches(Here, o) => Touches(FlushedLevel, o)
  BY <1>8 DEF Touches
<1>10. ASSUME NEW o \in Object, pending[o] # <<>> PROVE Touches(FlushedLevel, o)
  <2>1. CASE pending[o][1] = "changed"
    <3>1. pending[o][2] \in Value
      BY <1>1, <1>10, <2>1 DEF PendingFits
    <3>2. o \in Modified
      BY <1>4, <1>10, <2>1, <3>1 DEF Modified
    <3>3. QED
      BY <1>8, <3>2 DEF Touches
  <2>2. CASE pending[o][1] # "changed"
    BY <1>4, <1>8, <1>10, <2>2 DEF Touches, Op
  <2>3. QED
    BY <2>1, <2>2
<1>11. \A o : /\ o \in Modified => o \in Flushed("changed") \/ o \in Flushed("deleted")
              /\ o \in Flushed("deleted") => FlushedRow(o) = Absent
  BY DEF Modified, FlushedRow
<1>12. QED
  BY <1>3, <1>4, <1>5, <1>6, <1>7, <1>8, <1>9, <1>10, <1>11 DEF Touches

\* A flush writes the rows of what was pending and marks it.
LEMMA FlushKnown ==
  ASSUME QueueInv, KnownInv, Flush
  PROVE  KnownInv'
<1> DEFINE n == Len(levels)
<1>1. /\ ~failed /\ UNCHANGED <<db, failed>> /\ pending' = NothingPending
      /\ to_update' = Queued
  BY DEF Flush
<1>2. /\ OrmType /\ PendingFits /\ UntouchedRows /\ TouchedKnown /\ NewRows
      /\ DeletedRows /\ DeletedSomewhere /\ TouchedQueued /\ TransientQueued
  BY <1>1 DEF KnownInv
<1>3. /\ n \in Nat \ {0} /\ n \in 1 .. n /\ Here = levels[n]
  BY TopProperties
<1>4. /\ Len(levels') = n
      /\ \A k \in 1 .. n : k # n => levels'[k] = levels[k]
      /\ levels'[n] = FlushedLevel
  BY <1>3, FlushLevels
<1>5. to_update \in Seq(Item) /\ PendingType
  BY DEF QueueInv, PendingType
<1>6. /\ to_update' \in Seq(Item)
      /\ \A op \in Op : \A o :
            Has(to_update', <<op, o>>) <=> Has(to_update, <<op, o>>) \/ o \in Flushed(op)
  BY <1>1, <1>5, QueuedProperties
<1>7. PendingFits'
  BY <1>1 DEF PendingFits, NothingPending
\* What was touched stays touched, and what was not is pending.
<1>8. \A k \in 1 .. n, o \in Object : Touches(levels[k], o) => Touches(levels'[k], o)
  BY <1>3, <1>4, FlushEffect
<1>9. \A k \in 1 .. n, o \in Object :
          Touches(levels'[k], o) => Touches(levels[k], o) \/ pending[o] # <<>>
  BY <1>3, <1>4, FlushEffect
<1>10. \A k \in 1 .. n, o \in Object :
          ~Touches(levels'[k], o) => levels'[k].rows[o] = levels[k].rows[o]
  BY <1>3, <1>4, FlushEffect
<1> HIDE DEF n
<1>11. UntouchedRows'
  <2>1. SUFFICES ASSUME NEW k \in 1 .. n, NEW o \in Object,
                        \A j \in 1 .. k : ~Touches(levels'[j], o)
                 PROVE  levels'[k].rows[o] = db[o]
    BY <1>1, <1>4 DEF UntouchedRows
  <2>2. k \in 1 .. k /\ \A j \in 1 .. k : j \in 1 .. n
    BY <1>3
  <2>3. levels[k].rows[o] = db[o]
    BY <1>2, <1>8, <2>1, <2>2 DEF UntouchedRows, n
  <2>4. QED
    BY <1>10, <2>1, <2>2, <2>3
<1>12. TouchedKnown'
  <2>1. SUFFICES ASSUME NEW k \in 1 .. n, NEW o \in Object, Touches(levels'[k], o)
                 PROVE  orm'[o] # "transient"
    BY <1>4 DEF TouchedKnown
  <2>2. CASE pending[o] # <<>>
    BY <2>2, FlushEffect
  <2>3. CASE pending[o] = <<>>
    <3>1. Touches(levels[k], o)
      BY <1>9, <2>1, <2>3
    <3>2. orm[o] # "transient"
      BY <1>2, <3>1 DEF TouchedKnown, n
    <3>3. QED
      BY <2>3, <3>2, FlushEffect
  <2>4. QED
    BY <2>2, <2>3
\* What is added was unknown, so nothing had touched it.
<1>13. ASSUME NEW o \in Object, pending[o] # <<>>, pending[o][1] = "new"
       PROVE  db[o] = Absent /\ \A j \in 1 .. n : ~Touches(levels[j], o)
  <2>1. orm[o] = "transient" /\ Here.rows[o] = Absent
    BY <1>2, <1>13 DEF PendingFits
  <2>2. \A j \in 1 .. n : ~Touches(levels[j], o)
    BY <1>2, <2>1 DEF TouchedKnown, n
  <2>3. levels[n].rows[o] = db[o]
    BY <1>2, <1>3, <2>2 DEF UntouchedRows, n
  <2>4. QED
    BY <1>3, <2>1, <2>2, <2>3
<1>14. NewRows'
  <2>1. SUFFICES ASSUME NEW k \in 1 .. n, NEW o \in Object, o \in levels'[k].new
                 PROVE  db[o] = Absent /\ \A j \in 1 .. k - 1 : ~Touches(levels'[j], o)
    BY <1>1, <1>4 DEF NewRows
  <2>2. \A j \in 1 .. k - 1 : j \in 1 .. n /\ j # n
    BY <1>3
  <2>3. \A j \in 1 .. k - 1 : levels'[j] = levels[j]
    BY <1>4, <2>2
  <2>4. CASE o \in levels[k].new
    BY <1>2, <2>3, <2>4 DEF NewRows, n
  <2>5. CASE o \notin levels[k].new
    <3>1. k = n
      BY <1>4, <2>1, <2>5
    <3>2. pending[o] # <<>> /\ pending[o][1] = "new"
      BY <1>3, <1>4, <2>1, <2>5, <3>1, FlushEffect
    <3>3. QED
      BY <1>13, <2>2, <2>3, <3>2
  <2>6. QED
    BY <2>4, <2>5
<1>15. DeletedRows'
  <2>1. SUFFICES ASSUME NEW k \in 1 .. n, NEW o \in Object, o \in levels'[k].deleted
                 PROVE  /\ orm'[o] = "deleted"
                        /\ levels'[k].rows[o] = Absent
                        /\ \A j \in k + 1 .. n :
                              ~Touches(levels'[j], o) /\ levels'[j].rows[o] = Absent
    BY <1>4 DEF DeletedRows
  <2>2. \A j \in k + 1 .. n : j \in 1 .. n /\ j # k
    BY <1>3
  <2>3. CASE o \in levels[k].deleted
    <3>1. /\ orm[o] = "deleted" /\ levels[k].rows[o] = Absent
          /\ \A j \in k + 1 .. n : ~Touches(levels[j], o) /\ levels[j].rows[o] = Absent
      BY <1>2, <2>3 DEF DeletedRows, n
    <3>2. pending[o] = <<>>
      BY <1>2, <3>1 DEF PendingFits
    <3>3. orm'[o] = "deleted"
      BY <3>1, <3>2, FlushEffect
    <3>4. \A j \in 1 .. n : /\ levels'[j].rows[o] = levels[j].rows[o]
                            /\ Touches(levels'[j], o) => Touches(levels[j], o)
      BY <1>3, <1>4, <3>2, FlushEffect
    <3>5. QED
      BY <2>2, <3>1, <3>3, <3>4
  <2>4. CASE o \notin levels[k].deleted
    <3>1. k = n
      BY <1>4, <2>1, <2>4
    <3>2. pending[o] # <<>> /\ pending[o][1] = "deleted"
      BY <1>3, <1>4, <2>1, <2>4, <3>1, FlushEffect
    <3>3. orm'[o] = "deleted" /\ levels'[k].rows[o] = Absent
      BY <1>4, <3>1, <3>2, FlushEffect
    <3>4. \A j \in k + 1 .. n : FALSE
      BY <1>3, <3>1
    <3>5. QED
      BY <3>3, <3>4
  <2>5. QED
    BY <2>3, <2>4
<1>16. DeletedSomewhere'
  <2>1. SUFFICES ASSUME NEW o \in Object, orm'[o] = "deleted"
                 PROVE  \E k \in 1 .. n : o \in levels'[k].deleted
    BY <1>4 DEF DeletedSomewhere
  <2>2. CASE pending[o] = <<>>
    <3>1. orm[o] = "deleted"
      BY <2>1, <2>2, FlushEffect
    <3>2. PICK k \in 1 .. n : o \in levels[k].deleted
      BY <1>2, <3>1 DEF DeletedSomewhere, n
    <3>3. o \in levels'[k].deleted
      BY <1>3, <1>4, <3>2, FlushEffect
    <3>4. QED
      BY <3>3
  <2>3. CASE pending[o] # <<>>
    <3>1. o \in levels'[n].deleted
      BY <1>4, <2>1, <2>3, FlushEffect
    <3>2. QED
      BY <1>3, <3>1
  <2>4. QED
    BY <2>2, <2>3
<1>17. TouchedQueued'
  <2>1. SUFFICES ASSUME NEW k \in 1 .. n, NEW o \in Object
                 PROVE  /\ o \in levels'[k].new => Has(to_update', <<"new", o>>)
                        /\ o \in levels'[k].dirty =>
                             Has(to_update', <<"changed", o>>) \/ Has(to_update', <<"deleted", o>>)
                        /\ o \in levels'[k].deleted => Has(to_update', <<"deleted", o>>)
    BY <1>4 DEF TouchedQueued
  <2>2. /\ o \in levels[k].new => Has(to_update, <<"new", o>>)
        /\ o \in levels[k].dirty =>
             Has(to_update, <<"changed", o>>) \/ Has(to_update, <<"deleted", o>>)
        /\ o \in levels[k].deleted => Has(to_update, <<"deleted", o>>)
    BY <1>2 DEF TouchedQueued, n
  <2>3. CASE k # n
    BY <1>4, <1>6, <2>2, <2>3 DEF Op
  <2>4. CASE k = n
    <3>1. /\ o \in levels'[k].new => o \in levels[k].new \/ o \in Flushed("new")
          /\ o \in levels'[k].dirty => \/ o \in levels[k].dirty
                                     \/ o \in Flushed("changed")
                                     \/ o \in Flushed("deleted")
          /\ o \in levels'[k].deleted => o \in levels[k].deleted \/ o \in Flushed("deleted")
      BY <1>3, <1>4, <2>4 DEF FlushedLevel, Modified
    <3>2. QED
      BY <1>6, <2>2, <3>1 DEF Op
  <2>5. QED
    BY <2>3, <2>4
<1>18. TransientQueued'
  <2>1. SUFFICES ASSUME NEW o \in Object, orm'[o] = "transient", Queues(to_update', o)
                 PROVE  db[o] = Absent
    BY <1>1 DEF TransientQueued
  <2>2. pending[o] = <<>> /\ orm[o] = "transient"
    BY <2>1, FlushEffect
  <2>3. PICK op \in Op : Has(to_update', <<op, o>>)
    BY <1>6, <2>1, HasQueues
  <2>4. o \notin Flushed(op)
    BY <1>5, <2>2, FlushedProperties
  <2>5. Queues(to_update, o)
    BY <1>5, <1>6, <2>3, <2>4, HasQueues
  <2>6. QED
    BY <1>2, <2>2, <2>5 DEF TransientQueued
<1>19. OrmType'
  BY FlushEffect
<1>20. QED
  BY <1>7, <1>11, <1>12, <1>14, <1>15, <1>16, <1>17, <1>18, <1>19 DEF KnownInv

\* A savepoint flushes, then copies the rows into a fresh level.
LEMMA BeginNestedKnown ==
  ASSUME QueueInv, KnownInv, BeginNested
  PROVE  KnownInv'
<1> DEFINE n == Len(levels)
<1>1. /\ ~failed /\ pending = NothingPending
      /\ UNCHANGED <<db, orm, pending, to_update, failed>>
  BY DEF BeginNested, Ready
<1>2. /\ OrmType /\ PendingFits /\ UntouchedRows /\ TouchedKnown /\ NewRows
      /\ DeletedRows /\ DeletedSomewhere /\ TouchedQueued /\ TransientQueued
  BY <1>1 DEF KnownInv
<1>3. /\ n \in Nat \ {0} /\ n \in 1 .. n /\ Here = levels[n]
  BY TopProperties
<1>4. /\ Len(levels') = n + 1
      /\ \A k \in 1 .. n : levels'[k] = levels[k]
      /\ levels'[n + 1].rows = levels[n].rows
      /\ \A o : ~Touches(levels'[n + 1], o)
  BY <1>3, BeginNestedLevels, FreshLevel
<1> HIDE DEF n
<1>5. 1 .. n + 1 = 1 .. n \cup {n + 1} /\ n + 1 \notin 1 .. n
  BY <1>3
<1>6. \A k \in 1 .. n : \A j : (j \in 1 .. k \/ j \in 1 .. k - 1) => j \in 1 .. n
  BY <1>3
<1>7. PendingFits'
  BY <1>1 DEF PendingFits, NothingPending
<1>8. UntouchedRows'
  <2>1. SUFFICES ASSUME NEW k \in 1 .. n + 1, NEW o \in Object,
                        \A j \in 1 .. k : ~Touches(levels'[j], o)
                 PROVE  levels'[k].rows[o] = db[o]
    BY <1>1, <1>4 DEF UntouchedRows
  <2>2. CASE k \in 1 .. n
    BY <1>2, <1>4, <1>6, <2>1, <2>2 DEF UntouchedRows, n
  <2>3. CASE k = n + 1
    <3>1. \A j \in 1 .. n : ~Touches(levels[j], o)
      BY <1>4, <1>5, <2>1, <2>3
    <3>2. levels[n].rows[o] = db[o]
      BY <1>2, <1>3, <3>1 DEF UntouchedRows, n
    <3>3. QED
      BY <1>4, <2>3, <3>2
  <2>4. QED
    BY <1>5, <2>2, <2>3
<1>9. TouchedKnown'
  <2>1. ASSUME NEW k \in 1 .. n + 1, NEW o \in Object, Touches(levels'[k], o)
        PROVE  k \in 1 .. n /\ Touches(levels[k], o)
    BY <1>4, <1>5, <2>1
  <2>2. QED
    BY <1>1, <1>2, <1>4, <2>1 DEF TouchedKnown, n
<1>10. NewRows'
  <2>1. SUFFICES ASSUME NEW k \in 1 .. n + 1, NEW o \in Object, o \in levels'[k].new
                 PROVE  db[o] = Absent /\ \A j \in 1 .. k - 1 : ~Touches(levels'[j], o)
    BY <1>1, <1>4 DEF NewRows
  <2>2. k \in 1 .. n
    BY <1>4, <1>5, <2>1 DEF Touches
  <2>3. o \in levels[k].new
    BY <1>4, <2>1, <2>2
  <2>4. QED
    BY <1>2, <1>4, <1>6, <2>2, <2>3 DEF NewRows, n
<1>11. DeletedRows'
  <2>1. SUFFICES ASSUME NEW k \in 1 .. n + 1, NEW o \in Object, o \in levels'[k].deleted
                 PROVE  /\ orm[o] = "deleted"
                        /\ levels'[k].rows[o] = Absent
                        /\ \A j \in k + 1 .. n + 1 :
                              ~Touches(levels'[j], o) /\ levels'[j].rows[o] = Absent
    BY <1>1, <1>4 DEF DeletedRows
  <2>2. k \in 1 .. n
    BY <1>4, <1>5, <2>1 DEF Touches
  <2>3. o \in levels[k].deleted
    BY <1>4, <2>1, <2>2
  <2>4. /\ orm[o] = "deleted" /\ levels[k].rows[o] = Absent
        /\ \A j \in k + 1 .. n : ~Touches(levels[j], o) /\ levels[j].rows[o] = Absent
    BY <1>2, <2>2, <2>3 DEF DeletedRows, n
  <2>5. levels[n].rows[o] = Absent
    <3>1. k = n \/ n \in k + 1 .. n
      BY <1>3, <2>2
    <3>2. QED
      BY <2>4, <3>1
  <2>6. \A j \in k + 1 .. n + 1 : j = n + 1 \/ (j \in k + 1 .. n /\ j \in 1 .. n)
    BY <1>3, <2>2
  <2>7. QED
    BY <1>4, <2>2, <2>4, <2>5, <2>6
<1>12. DeletedSomewhere'
  BY <1>1, <1>2, <1>4, <1>5 DEF DeletedSomewhere, n
<1>13. TouchedQueued'
  <2>1. SUFFICES ASSUME NEW k \in 1 .. n + 1, NEW o \in Object
                 PROVE  /\ o \in levels'[k].new => Has(to_update, <<"new", o>>)
                        /\ o \in levels'[k].dirty =>
                             Has(to_update, <<"changed", o>>) \/ Has(to_update, <<"deleted", o>>)
                        /\ o \in levels'[k].deleted => Has(to_update, <<"deleted", o>>)
    BY <1>1, <1>4 DEF TouchedQueued
  <2>2. CASE k \in 1 .. n
    BY <1>2, <1>4, <2>2 DEF TouchedQueued, n
  <2>3. CASE k = n + 1
    BY <1>4, <2>3 DEF Touches
  <2>4. QED
    BY <1>5, <2>2, <2>3
<1>14. TransientQueued' /\ OrmType'
  BY <1>1, <1>2 DEF TransientQueued, OrmType
<1>15. QED
  BY <1>7, <1>8, <1>9, <1>10, <1>11, <1>12, <1>13, <1>14 DEF KnownInv

\* So is what follows a step that starts afresh.
LEMMA FreshNext == Fresh' => KnownInv'
  BY FreshSession, PTL

\* Releasing a savepoint hands its rows and its marks to its parent.
LEMMA CommitNestedKnown ==
  ASSUME QueueInv, KnownInv, CommitNested
  PROVE  KnownInv'
<1> DEFINE n == Len(levels)
<1>1. /\ ~failed /\ pending = NothingPending
      /\ UNCHANGED <<db, orm, pending, to_update, failed>>
  BY DEF CommitNested, Ready
<1>2. /\ OrmType /\ PendingFits /\ UntouchedRows /\ TouchedKnown /\ NewRows
      /\ DeletedRows /\ DeletedSomewhere /\ TouchedQueued /\ TransientQueued
  BY <1>1 DEF KnownInv
<1>3. /\ n \in Nat /\ n > 1 /\ Here = levels[n]
  BY TopProperties, CommitNestedLevels
<1>4. /\ Len(levels') = n - 1
      /\ \A k \in 1 .. n - 2 : levels'[k] = levels[k]
      /\ levels'[n - 1] = Released(levels[n - 1])
  BY CommitNestedLevels
<1>5. /\ levels'[n - 1].rows = levels[n].rows
      /\ \A o : /\ Touches(levels'[n - 1], o) <=>
                      Touches(levels[n - 1], o) \/ Touches(levels[n], o)
                /\ o \in levels'[n - 1].new <=>
                      o \in levels[n - 1].new \/ o \in levels[n].new
                /\ o \in levels'[n - 1].dirty <=>
                      o \in levels[n - 1].dirty \/ o \in levels[n].dirty
                /\ o \in levels'[n - 1].deleted <=>
                      o \in levels[n - 1].deleted \/ o \in levels[n].deleted
  BY <1>3, <1>4 DEF Released, Touches
<1> HIDE DEF n
<1>6. /\ 1 .. n - 1 = 1 .. n - 2 \cup {n - 1} /\ n - 1 \notin 1 .. n - 2
      /\ 1 .. n = 1 .. n - 2 \cup {n - 1, n}
      /\ n - 1 \in 1 .. n /\ n \in 1 .. n /\ n - 1 # n
  BY <1>3
<1>7. \A k \in 1 .. n - 2 : \A j : (j \in 1 .. k \/ j \in 1 .. k - 1) => j \in 1 .. n - 2
  BY <1>3
<1>8. PendingFits'
  BY <1>1 DEF PendingFits, NothingPending
<1>9. UntouchedRows'
  <2>1. SUFFICES ASSUME NEW k \in 1 .. n - 1, NEW o \in Object,
                        \A j \in 1 .. k : ~Touches(levels'[j], o)
                 PROVE  levels'[k].rows[o] = db[o]
    BY <1>1, <1>4 DEF UntouchedRows
  <2>2. CASE k \in 1 .. n - 2
    <3>1. k \in 1 .. n /\ \A j \in 1 .. k : ~Touches(levels[j], o)
      BY <1>4, <1>6, <1>7, <2>1, <2>2
    <3>2. QED
      BY <1>2, <1>4, <2>2, <3>1 DEF UntouchedRows, n
  <2>3. CASE k = n - 1
    <3>1. \A j \in 1 .. n : ~Touches(levels[j], o)
      BY <1>4, <1>5, <1>6, <2>1, <2>3
    <3>2. levels[n].rows[o] = db[o]
      BY <1>2, <1>6, <3>1 DEF UntouchedRows, n
    <3>3. QED
      BY <1>5, <2>3, <3>2
  <2>4. QED
    BY <1>6, <2>2, <2>3
<1>10. TouchedKnown'
  <2>1. SUFFICES ASSUME NEW k \in 1 .. n - 1, NEW o \in Object, Touches(levels'[k], o)
                 PROVE  orm[o] # "transient"
    BY <1>1, <1>4 DEF TouchedKnown
  <2>2. \E j \in 1 .. n : Touches(levels[j], o)
    BY <1>4, <1>5, <1>6, <2>1
  <2>3. QED
    BY <1>2, <2>2 DEF TouchedKnown, n
<1>11. NewRows'
  <2>1. SUFFICES ASSUME NEW k \in 1 .. n - 1, NEW o \in Object, o \in levels'[k].new
                 PROVE  db[o] = Absent /\ \A j \in 1 .. k - 1 : ~Touches(levels'[j], o)
    BY <1>1, <1>4 DEF NewRows
  <2>2. CASE k \in 1 .. n - 2
    <3>1. k \in 1 .. n /\ o \in levels[k].new
      BY <1>4, <1>6, <2>1, <2>2
    <3>2. db[o] = Absent /\ \A j \in 1 .. k - 1 : ~Touches(levels[j], o)
      BY <1>2, <3>1 DEF NewRows, n
    <3>3. QED
      BY <1>4, <1>7, <2>2, <3>2
  <2>3. CASE k = n - 1
    <3>1. PICK m \in {n - 1, n} : o \in levels[m].new
      BY <1>5, <2>1, <2>3
    <3>2. db[o] = Absent /\ \A j \in 1 .. m - 1 : ~Touches(levels[j], o)
      BY <1>2, <1>6, <3>1 DEF NewRows, n
    <3>3. \A j \in 1 .. k - 1 : j \in 1 .. m - 1 /\ j \in 1 .. n - 2
      BY <1>3, <2>3
    <3>4. QED
      BY <1>4, <3>2, <3>3
  <2>4. QED
    BY <1>6, <2>2, <2>3
<1>12. DeletedRows'
  <2>1. SUFFICES ASSUME NEW k \in 1 .. n - 1, NEW o \in Object, o \in levels'[k].deleted
                 PROVE  /\ orm[o] = "deleted"
                        /\ levels'[k].rows[o] = Absent
                        /\ \A j \in k + 1 .. n - 1 :
                              ~Touches(levels'[j], o) /\ levels'[j].rows[o] = Absent
    BY <1>1, <1>4 DEF DeletedRows
  <2>2. CASE k \in 1 .. n - 2
    <3>1. k \in 1 .. n /\ o \in levels[k].deleted
      BY <1>4, <1>6, <2>1, <2>2
    <3>2. /\ orm[o] = "deleted" /\ levels[k].rows[o] = Absent
          /\ \A j \in k + 1 .. n : ~Touches(levels[j], o) /\ levels[j].rows[o] = Absent
      BY <1>2, <3>1 DEF DeletedRows, n
    <3>3. n - 1 \in k + 1 .. n /\ n \in k + 1 .. n
      BY <1>3, <2>2
    <3>4. ~Touches(levels'[n - 1], o) /\ levels'[n - 1].rows[o] = Absent
      BY <1>5, <3>2, <3>3
    <3>5. \A j \in k + 1 .. n - 1 : j = n - 1 \/ (j \in 1 .. n - 2 /\ j \in k + 1 .. n)
      BY <1>3, <2>2
    <3>6. QED
      BY <1>4, <2>2, <3>2, <3>4, <3>5
  <2>3. CASE k = n - 1
    <3>1. \A j \in k + 1 .. n - 1 : FALSE
      BY <1>3, <2>3
    <3>2. PICK m \in {n - 1, n} : o \in levels[m].deleted
      BY <1>5, <2>1, <2>3
    <3>3. /\ orm[o] = "deleted" /\ levels[m].rows[o] = Absent
          /\ \A j \in m + 1 .. n : levels[j].rows[o] = Absent
      BY <1>2, <1>6, <3>2 DEF DeletedRows, n
    <3>4. m = n \/ n \in m + 1 .. n
      BY <1>3
    <3>5. levels[n].rows[o] = Absent
      BY <3>3, <3>4
    <3>6. QED
      BY <1>5, <2>3, <3>1, <3>3, <3>5
  <2>4. QED
    BY <1>6, <2>2, <2>3
<1>13. DeletedSomewhere'
  <2>1. SUFFICES ASSUME NEW o \in Object, orm[o] = "deleted"
                 PROVE  \E k \in 1 .. n - 1 : o \in levels'[k].deleted
    BY <1>1, <1>4 DEF DeletedSomewhere
  <2>2. PICK k \in 1 .. n : o \in levels[k].deleted
    BY <1>2, <2>1 DEF DeletedSomewhere, n
  <2>3. CASE k \in 1 .. n - 2
    BY <1>4, <1>6, <2>2, <2>3
  <2>4. CASE k \in {n - 1, n}
    BY <1>5, <1>6, <2>2, <2>4
  <2>5. QED
    BY <1>6, <2>3, <2>4
<1>14. TouchedQueued'
  <2>1. SUFFICES ASSUME NEW k \in 1 .. n - 1, NEW o \in Object
                 PROVE  /\ o \in levels'[k].new => Has(to_update, <<"new", o>>)
                        /\ o \in levels'[k].dirty =>
                             Has(to_update, <<"changed", o>>) \/ Has(to_update, <<"deleted", o>>)
                        /\ o \in levels'[k].deleted => Has(to_update, <<"deleted", o>>)
    BY <1>1, <1>4 DEF TouchedQueued
  <2>2. \A j \in 1 .. n :
           /\ o \in levels[j].new => Has(to_update, <<"new", o>>)
           /\ o \in levels[j].dirty =>
                Has(to_update, <<"changed", o>>) \/ Has(to_update, <<"deleted", o>>)
           /\ o \in levels[j].deleted => Has(to_update, <<"deleted", o>>)
    BY <1>2 DEF TouchedQueued, n
  <2>3. CASE k \in 1 .. n - 2
    BY <1>4, <1>6, <2>2, <2>3
  <2>4. CASE k = n - 1
    BY <1>5, <1>6, <2>2, <2>4
  <2>5. QED
    BY <1>6, <2>3, <2>4
<1>15. TransientQueued' /\ OrmType'
  BY <1>1, <1>2 DEF TransientQueued, OrmType
<1>16. QED
  BY <1>8, <1>9, <1>10, <1>11, <1>12, <1>13, <1>14, <1>15 DEF KnownInv

\* What a rollback makes of an object, from what the session knew of it.
LEMMA RestoredProperties ==
  ASSUME OrmType, NEW o \in Object
  PROVE  /\ Restored(o) \in OrmStates
         /\ o \in Here.new => Restored(o) = "transient"
         /\ Restored(o) = "transient" => o \in Here.new \/ orm[o] = "transient"
         /\ Restored(o) = "deleted" =>
                o \notin Here.new /\ o \notin Here.deleted /\ orm[o] = "deleted"
         /\ o \notin Here.new /\ o \notin Here.deleted /\ orm[o] = "deleted" =>
                Restored(o) = "deleted"
         /\ Len(levels) = 1 => Restored(o) # "loaded"
  BY DEF Restored, OrmType, OrmStates

\* Rolling back restores what the level marked from the rows below it.
LEMMA RollbackKnown ==
  ASSUME QueueInv, KnownInv, Rollback
  PROVE  KnownInv'
<1> DEFINE n == Len(levels)
<1>1. /\ ~failed /\ pending' = NothingPending
      /\ orm' = [o \in Object |-> Restored(o)]
      /\ UNCHANGED <<db, to_update, failed>>
  BY DEF Rollback
<1>2. /\ OrmType /\ PendingFits /\ UntouchedRows /\ TouchedKnown /\ NewRows
      /\ DeletedRows /\ DeletedSomewhere /\ TouchedQueued /\ TransientQueued
  BY <1>1 DEF KnownInv
<1>3. /\ n \in Nat \ {0} /\ n \in 1 .. n /\ Here = levels[n]
  BY TopProperties
<1>4. OrmType'
  BY <1>1, <1>2, RestoredProperties DEF OrmType
<1>5. TransientQueued'
  <2>1. SUFFICES ASSUME NEW o \in Object, Restored(o) = "transient",
                        Queues(to_update, o)
                 PROVE  db[o] = Absent
    BY <1>1 DEF TransientQueued
  <2>2. CASE o \in levels[n].new
    BY <1>2, <1>3, <2>2 DEF NewRows
  <2>3. CASE orm[o] = "transient"
    BY <1>2, <2>1, <2>3 DEF TransientQueued
  <2>4. QED
    BY <1>2, <1>3, <2>1, <2>2, <2>3, RestoredProperties
<1>6. CASE n = 1
  <2>1. levels' = <<LevelOver(db)>>
    BY <1>6 DEF Rollback
  <2>2. ASSUME NEW o \in Object, orm'[o] = "deleted"
        PROVE  FALSE
    <3>1. o \notin Here.deleted /\ orm[o] = "deleted"
      BY <1>1, <1>2, <2>2, RestoredProperties
    <3>2. PICK k \in 1 .. n : o \in levels[k].deleted
      BY <1>2, <3>1 DEF DeletedSomewhere
    <3>3. k = n
      BY <1>6
    <3>4. QED
      BY <1>3, <3>1, <3>2, <3>3
  <2>3. Fresh'
    BY <1>1, <1>4, <1>5, <2>1, <2>2 DEF Fresh, NothingPending, LevelOver
  <2>4. QED
    BY <2>3, FreshNext
<1>7. CASE n # 1
  <2>1. /\ Len(levels') = n - 1
        /\ \A k \in 1 .. n - 1 : levels'[k] = levels[k]
    BY <1>7, RollbackLevels
  <2> HIDE DEF n
  <2>2. \A k \in 1 .. n - 1 : k \in 1 .. n /\ n \in k + 1 .. n /\ k \in 1 .. n - 1
    BY <1>3, <1>7
  <2>3. \A k \in 1 .. n - 1 : \A j :
            (j \in 1 .. k \/ j \in 1 .. k - 1 \/ j \in k + 1 .. n - 1) => j \in 1 .. n - 1
    BY <1>3, <1>7
  <2>4. PendingFits'
    BY <1>1 DEF PendingFits, NothingPending
  <2>5. UntouchedRows'
    <3>1. SUFFICES ASSUME NEW k \in 1 .. n - 1, NEW o \in Object,
                          \A j \in 1 .. k : ~Touches(levels'[j], o)
                   PROVE  levels'[k].rows[o] = db[o]
      BY <1>1, <2>1 DEF UntouchedRows
    <3>2. \A j \in 1 .. k : ~Touches(levels[j], o)
      BY <2>1, <2>3, <3>1
    <3>3. QED
      BY <1>2, <2>1, <2>2, <3>2 DEF UntouchedRows, n
  <2>6. TouchedKnown'
    <3>1. SUFFICES ASSUME NEW k \in 1 .. n - 1, NEW o \in Object, Touches(levels[k], o)
                   PROVE  Restored(o) # "transient"
      BY <1>1, <2>1 DEF TouchedKnown
    <3>2. orm[o] # "transient"
      BY <1>2, <2>2, <3>1 DEF TouchedKnown, n
    <3>3. o \notin Here.new
      <4>1. k \in 1 .. n - 1
        OBVIOUS
      <4>2. QED
        BY <1>2, <1>3, <3>1, <4>1 DEF NewRows, n
    <3>4. QED
      BY <1>2, <3>2, <3>3, RestoredProperties
  <2>7. NewRows'
    <3>1. SUFFICES ASSUME NEW k \in 1 .. n - 1, NEW o \in Object, o \in levels[k].new
                   PROVE  db[o] = Absent /\ \A j \in 1 .. k - 1 : ~Touches(levels'[j], o)
      BY <1>1, <2>1 DEF NewRows
    <3>2. db[o] = Absent /\ \A j \in 1 .. k - 1 : ~Touches(levels[j], o)
      BY <1>2, <2>2, <3>1 DEF NewRows, n
    <3>3. QED
      BY <2>1, <2>3, <3>2
  <2>8. DeletedRows'
    <3>1. SUFFICES ASSUME NEW k \in 1 .. n - 1, NEW o \in Object, o \in levels[k].deleted
                   PROVE  /\ Restored(o) = "deleted"
                          /\ levels[k].rows[o] = Absent
                          /\ \A j \in k + 1 .. n - 1 :
                                ~Touches(levels'[j], o) /\ levels'[j].rows[o] = Absent
      BY <1>1, <2>1 DEF DeletedRows
    <3>2. /\ orm[o] = "deleted" /\ levels[k].rows[o] = Absent
          /\ \A j \in k + 1 .. n : ~Touches(levels[j], o) /\ levels[j].rows[o] = Absent
      BY <1>2, <2>2, <3>1 DEF DeletedRows, n
    <3>3. o \notin Here.new /\ o \notin Here.deleted
      BY <1>3, <2>2, <3>2 DEF Touches
    <3>4. \A j \in k + 1 .. n - 1 : j \in k + 1 .. n
      BY <1>3
    <3>5. QED
      BY <1>2, <2>1, <2>3, <3>2, <3>3, <3>4, RestoredProperties
  <2>9. DeletedSomewhere'
    <3>1. SUFFICES ASSUME NEW o \in Object, Restored(o) = "deleted"
                   PROVE  \E k \in 1 .. n - 1 : o \in levels[k].deleted
      BY <1>1, <2>1 DEF DeletedSomewhere
    <3>2. o \notin levels[n].deleted /\ orm[o] = "deleted"
      BY <1>2, <1>3, <3>1, RestoredProperties
    <3>3. PICK k \in 1 .. n : o \in levels[k].deleted
      BY <1>2, <3>2 DEF DeletedSomewhere, n
    <3>4. k # n
      BY <3>2, <3>3
    <3>5. QED
      BY <1>3, <3>3, <3>4
  <2>10. TouchedQueued'
    <3>1. SUFFICES ASSUME NEW k \in 1 .. n - 1, NEW o \in Object
                   PROVE  /\ o \in levels[k].new => Has(to_update, <<"new", o>>)
                          /\ o \in levels[k].dirty =>
                               Has(to_update, <<"changed", o>>) \/ Has(to_update, <<"deleted", o>>)
                          /\ o \in levels[k].deleted => Has(to_update, <<"deleted", o>>)
      BY <1>1, <2>1 DEF TouchedQueued
    <3>2. QED
      BY <1>2, <2>2 DEF TouchedQueued, n
  <2>11. QED
    BY <1>4, <1>5, <2>4, <2>5, <2>6, <2>7, <2>8, <2>9, <2>10 DEF KnownInv
<1>8. QED
  BY <1>6, <1>7

\* Committing, or beginning again: the queue is empty and the session fresh.
LEMMA CommitKnown ==
  ASSUME QueueInv, KnownInv, Commit
  PROVE  KnownInv'
<1>1. /\ levels' = <<LevelOver(Here.rows)>> /\ db' = Here.rows
      /\ to_update' = <<>> /\ pending = NothingPending /\ pending' = pending
      /\ orm' = [o \in Object |->
                    IF orm[o] \in {"loaded", "expired"} THEN "expired"
                                                        ELSE "transient"]
  BY DEF Commit, Ready
<1>2. OrmType' /\ \A o \in Object : orm'[o] # "deleted"
  BY <1>1 DEF OrmType, OrmStates
<1>3. TransientQueued'
  BY <1>1 DEF TransientQueued, Queues
<1>4. Fresh'
  BY <1>1, <1>2, <1>3 DEF Fresh, NothingPending, LevelOver
<1>5. QED
  BY <1>4, FreshNext

\* So does a new application context.
LEMMA NewContextKnown ==
  ASSUME NewContext
  PROVE  KnownInv'
<1>1. /\ levels' = <<LevelOver(db)>> /\ db' = db
      /\ to_update' = <<>> /\ pending' = NothingPending
      /\ orm' = [o \in Object |-> "transient"]
  BY DEF NewContext
<1>2. OrmType' /\ \A o \in Object : orm'[o] # "deleted"
  BY <1>1 DEF OrmType, OrmStates
<1>3. TransientQueued'
  BY <1>1 DEF TransientQueued, Queues
<1>4. Fresh'
  BY <1>1, <1>2, <1>3 DEF Fresh, NothingPending, LevelOver
<1>5. QED
  BY <1>4, FreshNext

--------------------------------------------------------------------------------
(* While nothing is undone in the queue, the index follows the rows.       *)

\* A queued object is loaded only when an item says what to do with its row.
LEMMA LoadFollows ==
  ASSUME Inv, NEW p \in Object, Load(p)
  PROVE  FollowsInv'
<1>1. /\ ~failed /\ orm[p] \in {"transient", "expired"} /\ Here.rows[p] # Absent
      /\ orm' = [orm EXCEPT ![p] = "loaded"]
      /\ UNCHANGED <<db, levels, pending, to_update, failed, index, undone>>
  BY DEF Load
<1>2. SUFFICES ASSUME ~undone
               PROVE  QueueIsWritable'
  BY <1>1 DEF FollowsInv, Inv
<1>3. /\ OrmType /\ UntouchedRows /\ TouchedKnown /\ TransientQueued
      /\ QueueIsWritable
  BY <1>1, <1>2 DEF KnownInv, FollowsInv, Inv
<1>4. ~Queues(to_update, p)
  <2>1. SUFFICES ASSUME Queues(to_update, p) PROVE FALSE
    OBVIOUS
  <2>2. orm[p] = "transient"
    BY <1>1, <1>3, <2>1 DEF QueueIsWritable
  <2>3. db[p] = Absent
    BY <1>3, <2>1, <2>2 DEF TransientQueued
  <2>4. \A k \in 1 .. Len(levels) : ~Touches(levels[k], p)
    BY <1>3, <2>2 DEF TouchedKnown
  <2>5. Here.rows[p] = db[p]
    BY <1>3, <2>4, TopProperties DEF UntouchedRows, Inv
  <2>6. QED
    BY <1>1, <2>3, <2>5
<1>5. \A o \in Object : o # p => orm'[o] = orm[o]
  BY <1>1, <1>3 DEF OrmType
<1>6. QED
  BY <1>1, <1>3, <1>4, <1>5 DEF QueueIsWritable

\* A flush queues what it writes with its operation, and indexes nothing.
LEMMA FlushFollows ==
  ASSUME Inv, Flush
  PROVE  FollowsInv'
<1>1. ~failed /\ to_update' = Queued /\ UNCHANGED <<db, failed, index, undone>>
  BY DEF Flush
<1>2. SUFFICES ASSUME ~undone
               PROVE  QueueIsWritable'
  BY <1>1 DEF FollowsInv, Inv
<1>3. QueueIsWritable /\ to_update \in Seq(Item) /\ PendingType /\ OrmType
  BY <1>1, <1>2 DEF QueueInv, PendingType, FollowsInv, Inv, KnownInv
<1>4. /\ to_update' \in Seq(Item)
      /\ \A op \in Op : \A o :
            Has(to_update', <<op, o>>) <=> Has(to_update, <<op, o>>) \/ o \in Flushed(op)
  BY <1>1, <1>3, QueuedProperties
<1>5. SUFFICES ASSUME NEW o \in Object, Queues(to_update', o)
               PROVE  /\ orm'[o] # "expired"
                      /\ orm'[o] = "loaded" => \/ Has(to_update', <<"new", o>>)
                                               \/ Has(to_update', <<"changed", o>>)
  BY DEF QueueIsWritable
<1>6. CASE pending[o] = <<>>
  <2>1. orm'[o] = orm[o]
    BY <1>6, FlushEffect DEF Inv
  <2>2. PICK op \in Op : Has(to_update', <<op, o>>)
    BY <1>4, <1>5, HasQueues
  <2>3. o \notin Flushed(op)
    BY <1>3, <1>6, FlushedProperties
  <2>4. Queues(to_update, o)
    BY <1>3, <1>4, <2>2, <2>3, HasQueues
  <2>5. QED
    BY <1>3, <1>4, <2>1, <2>4 DEF QueueIsWritable, Op
<1>7. CASE pending[o] # <<>>
  <2>1. orm'[o] = IF pending[o][1] = "deleted" THEN "deleted" ELSE "loaded"
    BY <1>7, FlushEffect DEF Inv
  <2>2. pending[o][1] \in Op /\ Has(to_update', <<pending[o][1], o>>)
    BY <1>3, <1>4, <1>7, FlushedProperties
  <2>3. QED
    BY <2>1, <2>2 DEF Op
<1>8. QED
  BY <1>6, <1>7

\* A rollback that leaves nothing undone expires no queued object.
LEMMA RollbackFollows ==
  ASSUME Inv, Rollback
  PROVE  FollowsInv'
<1>1. /\ ~failed /\ undone' = (undone \/ LeftInQueue)
      /\ orm' = [o \in Object |-> Restored(o)]
      /\ UNCHANGED <<db, to_update, failed, index>>
  BY DEF Rollback
<1>2. SUFFICES ASSUME ~undone, ~LeftInQueue
               PROVE  QueueIsWritable'
  BY <1>1 DEF FollowsInv, Inv
<1>3. to_update \in Seq(Item)
  BY DEF QueueInv, Inv
<1>4. SUFFICES ASSUME NEW o \in Object, Queues(to_update, o)
               PROVE  /\ Restored(o) # "expired"
                      /\ Restored(o) = "loaded" => \/ Has(to_update, <<"new", o>>)
                                                   \/ Has(to_update, <<"changed", o>>)
  BY <1>1 DEF QueueIsWritable
<1>5. PICK i \in DOMAIN to_update : to_update[i][2] = o
  BY <1>4 DEF Queues
<1>6. Restored(o) # "expired" /\ (Restored(o) = "loaded" => to_update[i][1] # "deleted")
  BY <1>2, <1>5 DEF LeftInQueue
<1>7. to_update[i] \in Item
  BY <1>3, <1>5, LenProperties, ElementOfSeq
<1>8. to_update[i][1] # "deleted" =>
          to_update[i] = <<"new", o>> \/ to_update[i] = <<"changed", o>>
  BY <1>5, <1>7 DEF Item, Op
<1>9. QED
  BY <1>5, <1>6, <1>8 DEF Has

\* A commit runs the queue over its rows: the index follows them.
LEMMA CommitFollows ==
  ASSUME Inv, Commit
  PROVE  FollowsInv'
<1> DEFINE rows == Here.rows
<1>1. /\ ~failed /\ Len(levels) = 1
      /\ db' = rows /\ to_update' = <<>> /\ index' = Ran(Items)
      /\ UNCHANGED <<failed, undone>>
  BY DEF Commit, Ready
<1>2. SUFFICES ASSUME ~undone
               PROVE  QueueIsWritable' /\ index' = IndexOf(rows)
  BY <1>1 DEF FollowsInv, Inv, IndexOf
<1>3. QueueIsWritable'
  BY <1>1 DEF QueueIsWritable, Queues
<1>4. /\ OrmType /\ UntouchedRows /\ TouchedKnown
      /\ DeletedRows /\ DeletedSomewhere /\ TouchedQueued
      /\ QueueIsWritable /\ index = IndexOf(db)
  BY <1>1, <1>2 DEF KnownInv, FollowsInv, Inv
<1>5. to_update \in Seq(Item) /\ rows \in [Object -> Row] /\ db \in [Object -> Row]
  BY HereProperties DEF QueueInv, Inv
<1>6. IndexType
  <2>1. \A o \in Object : db[o] # Absent => <<db[o]>> \in Seq(Value)
    BY <1>5 DEF Row
  <2>2. QED
    BY <1>4, <2>1, EmptySeq DEF IndexOf, IndexType
<1>7. rows = levels[1].rows
  BY <1>1, TopProperties DEF Inv
<1>8. Items \in Seq(Item)
  BY <1>5, ItemsProperties
<1> HIDE DEF rows
<1>9. /\ index' = [o \in Object |-> index'[o]]
      /\ \A o \in Object : index'[o] =
            IF Wants(Items, o) /\ rows[o] # Absent THEN <<rows[o]>>
            ELSE IF Queues(Items, o) THEN <<>> ELSE index[o]
  <2>1. index' = Written(index, Processing(Items, rows))
    BY <1>1 DEF Ran, rows
  <2>2. QED
    BY <1>5, <1>6, <1>8, <2>1, WrittenProperties
<1>10. ASSUME NEW o \in Object, ~Touches(levels[1], o)
       PROVE  rows[o] = db[o]
  BY <1>1, <1>4, <1>7, <1>10 DEF UntouchedRows
<1>11. ASSUME NEW o \in Object, ~Queues(to_update, o)
       PROVE  rows[o] = db[o]
  <2>1. \A op \in Op : ~Has(to_update, <<op, o>>)
    BY <1>5, <1>11, HasQueues
  <2>2. ~Touches(levels[1], o)
    BY <1>1, <1>4, <2>1 DEF TouchedQueued, Touches, Op
  <2>3. QED
    BY <1>10, <2>2
<1>12. ASSUME NEW o \in Object
       PROVE  index'[o] = IF rows[o] = Absent THEN <<>> ELSE <<rows[o]>>
  <2>1. index[o] = IF db[o] = Absent THEN <<>> ELSE <<db[o]>>
    BY <1>4 DEF IndexOf
  <2>2. CASE orm[o] = "transient"
    <3>1. ~Touches(levels[1], o)
      BY <1>1, <1>4, <2>2 DEF TouchedKnown
    <3>2. index'[o] = index[o]
      BY <1>5, <1>9, <2>2, ItemsQueues
    <3>3. QED
      BY <1>10, <2>1, <3>1, <3>2
  <2>3. CASE orm[o] # "transient" /\ ~Queues(to_update, o)
    <3>1. ~Wants(to_update, o)
      BY <1>5, <2>3, HasQueues DEF Wants, Op
    <3>2. index'[o] = index[o]
      BY <1>5, <1>9, <2>3, <3>1, ItemsQueues
    <3>3. QED
      BY <1>11, <2>1, <2>3, <3>2
  <2>4. CASE orm[o] = "loaded" /\ Queues(to_update, o)
    <3>1. Wants(to_update, o)
      BY <1>4, <2>4 DEF QueueIsWritable, Wants
    <3>2. Wants(Items, o) /\ Queues(Items, o)
      BY <1>5, <2>4, <3>1, ItemsQueues
    <3>3. QED
      BY <1>9, <3>2
  <2>5. CASE orm[o] = "deleted" /\ Queues(to_update, o)
    <3>1. PICK k \in 1 .. Len(levels) : o \in levels[k].deleted
      BY <1>4, <2>5 DEF DeletedSomewhere
    <3>2. rows[o] = Absent
      BY <1>1, <1>4, <1>7, <3>1 DEF DeletedRows
    <3>3. Queues(Items, o)
      BY <1>5, <2>5, ItemsQueues
    <3>4. QED
      BY <1>9, <3>2, <3>3
  <2>6. CASE orm[o] = "expired" /\ Queues(to_update, o)
    BY <1>4, <2>6 DEF QueueIsWritable
  <2>7. QED
    BY <1>4, <2>2, <2>3, <2>4, <2>5, <2>6 DEF OrmType, OrmStates
<1>13. QED
  BY <1>3, <1>9, <1>12 DEF IndexOf

\* Without anything undone, the listener reads no expired object.
LEMMA CommitRaisesFollows ==
  ASSUME Inv, CommitRaises
  PROVE  FollowsInv'
<1>1. ~failed /\ ReadsExpired /\ UNCHANGED undone
  BY DEF CommitRaises, Ready
<1>2. SUFFICES ASSUME ~undone PROVE FALSE
  BY <1>1 DEF FollowsInv
<1>3. QueueIsWritable /\ to_update \in Seq(Item)
  BY <1>2 DEF FollowsInv, Inv, QueueInv
<1>4. PICK i \in DOMAIN Items : orm[Items[i][2]] = "expired"
  BY <1>1 DEF ReadsExpired
<1>5. Queues(Items, Items[i][2])
  BY <1>4 DEF Queues
<1>6. Queues(to_update, Items[i][2])
  BY <1>3, <1>5, ItemsQueues
<1>7. Items[i][2] \in Object
  <2>1. Items \in Seq(Item)
    BY <1>3, ItemsProperties
  <2>2. Items[i] \in Item
    BY <1>4, <2>1, LenProperties, ElementOfSeq
  <2>3. QED
    BY <2>2 DEF Item
<1>8. QED
  BY <1>3, <1>4, <1>6, <1>7 DEF QueueIsWritable

\* The steps that leave queue, index and committed rows, or start afresh.
LEMMA OtherFollows ==
  ASSUME Inv,
         \/ \E o \in Object : (\E v \in Value : Add(o, v) \/ Change(o, v)) \/ Delete(o)
         \/ BeginNested \/ CommitNested \/ NewContext
  PROVE  FollowsInv'
<1>1. CASE \/ \E o \in Object : (\E v \in Value : Add(o, v) \/ Change(o, v)) \/ Delete(o)
           \/ BeginNested \/ CommitNested
  <2>1. UNCHANGED <<db, orm, to_update, failed, index, undone>>
    BY <1>1 DEF Add, Change, Delete, BeginNested, CommitNested
  <2>2. QED
    BY <2>1 DEF Inv, FollowsInv, QueueIsWritable
<1>2. CASE NewContext
  <2>1. to_update' = <<>> /\ ~failed' /\ UNCHANGED <<db, index, undone>>
    BY <1>2 DEF NewContext
  <2>2. QED
    BY <2>1 DEF Inv, FollowsInv, QueueIsWritable, Queues
<1>3. QED
  BY <1>1, <1>2

--------------------------------------------------------------------------------
(* Types.                                                                  *)

\* A queue within its bound, a stack within its depth, an index of documents.
BoundsInv ==
    /\ Len(levels) <= MaxDepth
    /\ Len(to_update) <= MaxQueue
    /\ OrmType /\ IndexType
    /\ failed \in BOOLEAN /\ undone \in BOOLEAN

\* What a task writes are documents.
LEMMA RanType ==
  ASSUME NEW items \in Seq(Item), NEW rows \in [Object -> Row], IndexType
  PROVE  Written(index, Processing(items, rows)) \in [Object -> Seq(Value)]
<1> DEFINE written == Written(index, Processing(items, rows))
<1>1. /\ written = [o \in Object |-> written[o]]
      /\ \A o \in Object : written[o] =
             IF Wants(items, o) /\ rows[o] # Absent THEN <<rows[o]>>
             ELSE IF Queues(items, o) THEN <<>> ELSE index[o]
  BY WrittenProperties
<1> HIDE DEF written
<1>2. \A o \in Object : written[o] \in Seq(Value)
  <2>1. \A o \in Object : rows[o] # Absent => <<rows[o]>> \in Seq(Value)
    BY DEF Row
  <2>2. <<>> \in Seq(Value) /\ \A o \in Object : index[o] \in Seq(Value)
    BY EmptySeq DEF IndexType
  <2>3. QED
    BY <1>1, <2>1, <2>2
<1>3. QED
  BY <1>1, <1>2 DEF written

\* Every step keeps the bounds and the types.
LEMMA BoundsStep ==
  ASSUME Inv, BoundsInv, [Next]_vars
  PROVE  BoundsInv'
<1>1. OrmType /\ IndexType /\ QueueInv /\ to_update \in Seq(Item)
  BY DEF BoundsInv, Inv, QueueInv
<1>2. MaxDepth \in Nat \ {0} /\ MaxQueue \in Nat
  BY QueueAssumption
<1>3. CASE UNCHANGED vars
  BY <1>3 DEF vars, BoundsInv, OrmType, IndexType
<1>4. CASE \E o \in Object :
            \/ Load(o)
            \/ \E v \in Value : Add(o, v) \/ Change(o, v)
            \/ Delete(o)
  <2>1. UNCHANGED <<levels, to_update, failed, index, undone>>
    BY <1>4 DEF Load, Add, Change, Delete
  <2>2. OrmType'
    BY <1>1, <1>4 DEF Load, Add, Change, Delete, OrmType, OrmStates
  <2>3. QED
    BY <2>1, <2>2 DEF BoundsInv, IndexType
<1>5. CASE Flush
  <2>1. /\ Len(Queued) <= MaxQueue /\ to_update' = Queued
        /\ UNCHANGED <<failed, index, undone>>
    BY <1>5 DEF Flush
  <2>2. Len(levels') = Len(levels)
    BY <1>1, <1>5, FlushLevels
  <2>3. OrmType'
    BY <1>5, FlushEffect DEF Inv
  <2>4. QED
    BY <2>1, <2>2, <2>3 DEF BoundsInv, IndexType
<1>6. CASE BeginNested
  <2>1. /\ Len(levels) < MaxDepth
        /\ UNCHANGED <<orm, to_update, failed, index, undone>>
    BY <1>6 DEF BeginNested
  <2>2. Len(levels') = Len(levels) + 1 /\ Len(levels) \in Nat
    BY <1>1, <1>6, BeginNestedLevels, HereProperties
  <2>3. Len(levels') <= MaxDepth
    BY <1>2, <2>1, <2>2
  <2>4. QED
    BY <2>1, <2>3 DEF BoundsInv, IndexType, OrmType
<1>7. CASE CommitNested
  <2>1. UNCHANGED <<orm, to_update, failed, index, undone>>
    BY <1>7 DEF CommitNested
  <2>2. Len(levels') = Len(levels) - 1 /\ Len(levels) \in Nat
    BY <1>1, <1>7, CommitNestedLevels, HereProperties
  <2>3. Len(levels') <= MaxDepth
    BY <1>2, <2>2 DEF BoundsInv
  <2>4. QED
    BY <2>1, <2>3 DEF BoundsInv, IndexType, OrmType
<1>8. CASE Rollback
  <2>1. /\ orm' = [o \in Object |-> Restored(o)] /\ undone' = (undone \/ LeftInQueue)
        /\ UNCHANGED <<to_update, failed, index>>
    BY <1>8 DEF Rollback
  <2>2. OrmType'
    BY <1>1, <2>1, RestoredProperties DEF OrmType
  <2>3. Len(levels') <= MaxDepth
    <3>1. CASE Len(levels) = 1
      BY <1>2, <1>8, <3>1 DEF Rollback
    <3>2. CASE Len(levels) # 1
      <4>1. Len(levels') = Len(levels) - 1 /\ Len(levels) \in Nat
        BY <1>1, <1>8, <3>2, RollbackLevels, HereProperties
      <4>2. QED
        BY <1>2, <4>1 DEF BoundsInv
    <3>3. QED
      BY <3>1, <3>2
  <2>4. undone' \in BOOLEAN
    <3>1. LeftInQueue \in BOOLEAN
      BY DEF LeftInQueue
    <3>2. QED
      BY <2>1, <3>1 DEF BoundsInv
  <2>5. QED
    BY <2>1, <2>2, <2>3, <2>4 DEF BoundsInv, IndexType
<1>9. CASE Commit
  <2>1. /\ levels' = <<LevelOver(Here.rows)>> /\ to_update' = <<>>
        /\ index' = Ran(Items) /\ UNCHANGED <<failed, undone>>
    BY <1>9 DEF Commit
  <2>2. OrmType'
    BY <1>9 DEF Commit, OrmType, OrmStates
  <2>3. Here.rows \in [Object -> Row] /\ Items \in Seq(Item)
    BY <1>1, HereProperties, ItemsProperties
  <2>4. IndexType'
    BY <1>1, <2>1, <2>3, RanType DEF IndexType, Ran
  <2>5. Len(levels') <= MaxDepth /\ Len(to_update') <= MaxQueue
    BY <1>2, <2>1
  <2>6. QED
    BY <2>1, <2>2, <2>4, <2>5 DEF BoundsInv
<1>10. CASE CommitRaises
  BY <1>10 DEF CommitRaises, BoundsInv, OrmType, IndexType
<1>11. CASE NewContext
  <2>1. /\ levels' = <<LevelOver(db)>> /\ to_update' = <<>> /\ failed' = FALSE
        /\ orm' = [o \in Object |-> "transient"] /\ UNCHANGED <<index, undone>>
    BY <1>11 DEF NewContext
  <2>2. Len(levels') <= MaxDepth /\ Len(to_update') <= MaxQueue
    BY <1>2, <2>1
  <2>3. QED
    BY <2>1, <2>2 DEF BoundsInv, OrmType, OrmStates, IndexType
<1>12. QED
  BY <1>3, <1>4, <1>5, <1>6, <1>7, <1>8, <1>9, <1>10, <1>11 DEF Next

--------------------------------------------------------------------------------
(* The theorems.                                                           *)

\* A session starts with the committed rows and an empty queue.
LEMMA InitInvariant == Init => Inv /\ BoundsInv
<1> SUFFICES ASSUME Init PROVE Inv /\ BoundsInv
  OBVIOUS
<1>1. /\ db \in [Object -> Row] /\ levels = <<LevelOver(db)>>
      /\ orm = [o \in Object |-> "transient"]
      /\ pending = NothingPending /\ to_update = <<>>
      /\ failed = FALSE /\ undone = FALSE /\ index = IndexOf(db)
  BY DEF Init
<1>2. LevelOver(db) \in Level /\ LevelOver(db).rows = db
  BY <1>1, LevelOverType
<1>3. levels \in Seq(Level) /\ Len(levels) = 1 /\ levels[1].rows = db
  BY <1>1, <1>2
<1>4. pending \in [Object -> {<<>>} \cup {<<op, v>> : op \in Op, v \in Row}]
  BY <1>1 DEF NothingPending
<1>5. to_update \in Seq(Item) /\ Len(to_update) = 0
  BY <1>1, EmptySeq
<1>6. QueueInv
  BY <1>1, <1>3, <1>4, <1>5 DEF QueueInv, Covered
<1>7. OrmType /\ \A o \in Object : orm[o] = "transient"
  BY <1>1 DEF OrmType, OrmStates
<1>8. TransientQueued /\ QueueIsWritable
  BY <1>1 DEF TransientQueued, QueueIsWritable, Queues
<1>9. Fresh
  BY <1>1, <1>7, <1>8 DEF Fresh
<1>10. KnownInv
  BY <1>9, FreshSession
<1>11. FollowsInv
  BY <1>1, <1>8 DEF FollowsInv
<1>12. IndexType
  <2>1. \A o \in Object : db[o] # Absent => <<db[o]>> \in Seq(Value)
    BY <1>1 DEF Row
  <2>2. QED
    BY <1>1, <2>1, EmptySeq DEF IndexOf, IndexType
<1>13. BoundsInv
  <2>1. Len(levels) <= MaxDepth /\ Len(to_update) <= MaxQueue
    BY <1>3, <1>5, QueueAssumption
  <2>2. QED
    BY <1>1, <1>7, <1>12, <2>1 DEF BoundsInv
<1>14. QED
  BY <1>6, <1>10, <1>11, <1>13 DEF Inv

\* Every step keeps the three parts of the inductive invariant, in turn.
LEMMA QueueStep == QueueInv /\ [Next]_vars => QueueInv'
<1> SUFFICES ASSUME QueueInv, [Next]_vars PROVE QueueInv'
  OBVIOUS
<1>1. CASE UNCHANGED vars
  BY <1>1 DEF vars, QueueInv, Covered
<1>2. CASE \E o \in Object :
            \/ Load(o)
            \/ \E v \in Value : Add(o, v) \/ Change(o, v)
            \/ Delete(o)
  BY <1>2, ObjectStep
<1>3. CASE Flush
  BY <1>3, FlushStep
<1>4. CASE BeginNested \/ CommitNested
  BY <1>4, BeginNestedStep, CommitNestedStep
<1>5. CASE Rollback
  BY <1>5, RollbackStep
<1>6. CASE Commit \/ CommitRaises \/ NewContext
  BY <1>6, CommitStep, CommitRaisesStep, NewContextStep
<1>7. QED
  BY <1>1, <1>2, <1>3, <1>4, <1>5, <1>6 DEF Next

\* The rows, the marks and what the session knows of each object.
LEMMA KnownStep == QueueInv /\ KnownInv /\ [Next]_vars => KnownInv'
<1> SUFFICES ASSUME QueueInv, KnownInv, [Next]_vars PROVE KnownInv'
  OBVIOUS
<1>1. CASE UNCHANGED vars
  <2>1. UNCHANGED <<db, levels, orm, pending, to_update, failed>>
    BY <1>1 DEF vars
  <2>2. Here' = Here
    BY <2>1 DEF Here
  <2>3. (OrmType' <=> OrmType) /\ (PendingFits' <=> PendingFits)
    BY <2>1, <2>2 DEF OrmType, PendingFits
  <2>4. /\ UntouchedRows' <=> UntouchedRows
        /\ TouchedKnown' <=> TouchedKnown
        /\ NewRows' <=> NewRows
    BY <2>1 DEF UntouchedRows, TouchedKnown, NewRows
  <2>5. /\ DeletedRows' <=> DeletedRows
        /\ DeletedSomewhere' <=> DeletedSomewhere
        /\ TouchedQueued' <=> TouchedQueued
        /\ TransientQueued' <=> TransientQueued
    BY <2>1 DEF DeletedRows, DeletedSomewhere, TouchedQueued, TransientQueued
  <2>6. QED
    BY <2>1, <2>3, <2>4, <2>5 DEF KnownInv
<1>2. CASE \E o \in Object : Load(o)
  BY <1>2, LoadKnown
<1>3. CASE \E o \in Object :
            (\E v \in Value : Add(o, v) \/ Change(o, v)) \/ Delete(o)
  BY <1>3, PendKnown
<1>4. CASE Flush \/ BeginNested \/ CommitNested \/ Rollback
  BY <1>4, FlushKnown, BeginNestedKnown, CommitNestedKnown, RollbackKnown
<1>5. CASE Commit \/ NewContext
  BY <1>5, CommitKnown, NewContextKnown
<1>6. CASE CommitRaises
  BY <1>6 DEF CommitRaises, KnownInv
<1>7. QED
  BY <1>1, <1>2, <1>3, <1>4, <1>5, <1>6 DEF Next

\* The index and the queue, against the rows.
LEMMA FollowsStep == Inv /\ [Next]_vars => FollowsInv'
<1> SUFFICES ASSUME Inv, [Next]_vars PROVE FollowsInv'
  OBVIOUS
<1>1. CASE UNCHANGED vars
  BY <1>1 DEF vars, Inv, FollowsInv, QueueIsWritable
<1>2. CASE \E o \in Object : Load(o)
  BY <1>2, LoadFollows
<1>3. CASE \/ \E o \in Object :
                (\E v \in Value : Add(o, v) \/ Change(o, v)) \/ Delete(o)
           \/ BeginNested \/ CommitNested \/ NewContext
  BY <1>3, OtherFollows
<1>4. CASE Flush \/ Rollback
  BY <1>4, FlushFollows, RollbackFollows
<1>5. CASE Commit \/ CommitRaises
  BY <1>5, CommitFollows, CommitRaisesFollows
<1>6. QED
  BY <1>1, <1>2, <1>3, <1>4, <1>5 DEF Next

\* The three together, with the bounds.
LEMMA StepInvariant == Inv /\ BoundsInv /\ [Next]_vars => Inv' /\ BoundsInv'
<1> SUFFICES ASSUME Inv, BoundsInv, [Next]_vars PROVE Inv' /\ BoundsInv'
  OBVIOUS
<1>1. QueueInv' /\ KnownInv'
  BY QueueStep, KnownStep DEF Inv
<1>2. FollowsInv' /\ BoundsInv'
  BY FollowsStep, BoundsStep
<1>3. QED
  BY <1>1, <1>2 DEF Inv

\* The inductive invariant holds of every state of the specification.
LEMMA Invariant == Spec => [](Inv /\ BoundsInv)
  BY InitInvariant, StepInvariant, PTL DEF Spec

\* The queue is a list of items, the index maps each object to documents, and
\* savepoints are as deep as the bound allows.
THEOREM TypeCorrect == Spec => []TypeOK
<1>1. Inv /\ BoundsInv => TypeOK
  <2> SUFFICES ASSUME Inv, BoundsInv PROVE TypeOK
    OBVIOUS
  <2>1. Len(levels) \in 1 .. MaxDepth
    <3>1. Len(levels) \in Nat \ {0}
      BY HereProperties DEF Inv
    <3>2. QED
      BY <3>1, QueueAssumption DEF BoundsInv
  <2>2. QED
    BY <2>1 DEF TypeOK, Inv, QueueInv, BoundsInv, OrmType, IndexType
<1>2. QED
  BY <1>1, Invariant, PTL

(***************************************************************************)
(* Whatever savepoints are set, released and rolled back, each row that    *)
(* the open transactions would change by committing has an item in the     *)
(* queue that after_commit sends: the index misses no change.              *)
(***************************************************************************)
THEOREM ChangesAreQueued == Spec => []QueueCoversChanges
<1>1. Inv => QueueCoversChanges
  BY HereProperties DEF Inv, QueueCoversChanges, Covered, Queues
<1>2. QED
  BY <1>1, Invariant, PTL

(***************************************************************************)
(* "Any db updates go through here": as long as no rollback leaves what it *)
(* undid in the queue, after every commit the index has the document of    *)
(* each committed row and no other, whatever was added, changed, deleted,  *)
(* flushed in parts or rolled back before it; and after_commit never       *)
(* raises.                                                                 *)
(***************************************************************************)
THEOREM CommitsAreIndexed == Spec => []IndexFollowsRows
<1>1. Inv => IndexFollowsRows
  BY DEF Inv, FollowsInv, IndexFollowsRows, IndexAlwaysFollowsRows
<1>2. QED
  BY <1>1, Invariant, PTL

(***************************************************************************)
(* What a task writes for an object is its committed row or nothing, even  *)
(* when a rollback has left in the queue what it undid: a search never     *)
(* finds what only one transaction has seen.                               *)
(***************************************************************************)
THEOREM OnlyCommittedIndexed == Spec => OnlyCommittedRowsIndexed
<1>1. Inv /\ BoundsInv /\ [Next]_vars =>
        [\A o \in Object :
            index'[o] # index[o] => index'[o] \in {<<>>, IndexOf(db')[o]}]_vars
  <2> SUFFICES ASSUME Inv, BoundsInv, Next, NEW o \in Object, index'[o] # index[o]
               PROVE  index'[o] \in {<<>>, IndexOf(db')[o]}
    OBVIOUS
  <2>1. Commit
    BY DEF Next, Load, Add, Change, Delete, Flush, BeginNested, CommitNested,
           Rollback, CommitRaises, NewContext
  <2>2. db' = Here.rows /\ index' = Written(index, Processing(Items, Here.rows))
    BY <2>1 DEF Commit, Ran
  <2>3. IndexType /\ Here.rows \in [Object -> Row] /\ Items \in Seq(Item)
    BY HereProperties, ItemsProperties DEF Inv, QueueInv, BoundsInv
  <2>4. index'[o] = IF Wants(Items, o) /\ db'[o] # Absent THEN <<db'[o]>>
                    ELSE IF Queues(Items, o) THEN <<>> ELSE index[o]
    BY <2>2, <2>3, WrittenProperties
  <2>5. QED
    BY <2>4 DEF IndexOf
<1>2. QED
  BY <1>1, Invariant, PTL DEF Spec, OnlyCommittedRowsIndexed
================================================================================
