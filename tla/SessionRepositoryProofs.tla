------------------------ MODULE SessionRepositoryProofs ------------------------
(***************************************************************************)
(* Type correctness of SessionRepository and the invariants that make each *)
(* RepositoryTransaction usable, for any sessions, blobs, contents, depth  *)
(* and faults.                                                             *)
(*                                                                         *)
(* Then what is in the files.  What reaches them was committed: for any    *)
(* sessions, blobs, contents and depth, whatever is rolled back, and       *)
(* through errors and crashes, so long as nothing staged is rolled back or *)
(* closed behind the repository's back.  And what was committed reaches    *)
(* them, and is what the session reads meanwhile, when the session is      *)
(* alone and a failing write all that goes wrong.  And the repository      *)
(* implements BlobStore, for any sessions, under the first condition.      *)
(***************************************************************************)
EXTENDS SessionRepository, SequenceTheorems, WellFoundedInduction, TLAPS

(***************************************************************************)
(* The inductive invariant.  NoClearedParent and TransactionsWellFormed    *)
(* are not inductive alone: merging reads the parent, so a flush must have *)
(* one; rolling back reads the savepoint, so the bottom of the stack must  *)
(* be its only root; and an event is handled for a current transaction     *)
(* that is not cleared, except while SQLAlchemy is closing it.             *)
(***************************************************************************)
StackShape(stack) ==
    /\ Len(stack) > 0
    /\ stack[1].kind = "root"
    /\ \A i \in 2 .. Len(stack) : stack[i].kind # "root"

ChainShape(chain) ==
    /\ \A i \in 1 .. Len(chain) : WellFormed(chain[i])
    /\ \A i \in 1 .. Len(chain) - 1 : ~chain[i].cleared

SessionInv(stack, chain, event) ==
    /\ StackShape(stack)
    /\ ChainShape(chain)
    /\ Len(chain) = Len(stack)
    /\ event # "ending" => ~chain[Len(chain)].cleared
    /\ event = "flushing" => Len(stack) > 1
    /\ event \in {"publishing", "failed", "republishing", "broken"}
            => Len(stack) = 1

IndInv ==
    /\ TypeOK
    /\ \A s \in Session : SessionInv(sa[s], rt[s], pc[s])

\* No file is left open by a session that does not publish.
NothingOpen == \A s \in Session : ~Publishing(s) => publish[s].open = NullMark

--------------------------------------------------------------------------------
(* Lemmas on one RepositoryTransaction.                                    *)

\* New and cleared transactions are transactions, and well-formed.
LEMMA FreshTransactions ==
    /\ NewTransaction \in RepositoryTransactions
    /\ ClearedTransaction \in RepositoryTransactions
    /\ WellFormed(NewTransaction)
    /\ WellFormed(ClearedTransaction)
    /\ ~NewTransaction.cleared
    /\ ClearedTransaction.cleared
  BY DEF NewTransaction, ClearedTransaction, RepositoryTransactions, WellFormed,
         EmptyDir, Cell

\* set() keeps a transaction well-formed, and does not clear it.
LEMMA StagedProperties ==
  ASSUME NEW tr \in RepositoryTransactions, WellFormed(tr),
         NEW u \in UUID, NEW c \in Content
  PROVE  /\ Staged(tr, u, c) \in RepositoryTransactions
         /\ WellFormed(Staged(tr, u, c))
         /\ Staged(tr, u, c).cleared = tr.cleared
  BY DEF Staged, RepositoryTransactions, WellFormed, Cell

\* delete() keeps a transaction well-formed, and does not clear it.
LEMMA UnstagedProperties ==
  ASSUME NEW tr \in RepositoryTransactions, WellFormed(tr), NEW u \in UUID
  PROVE  /\ Unstaged(tr, u) \in RepositoryTransactions
         /\ WellFormed(Unstaged(tr, u))
         /\ Unstaged(tr, u).cleared = tr.cleared
  BY DEF Unstaged, RepositoryTransactions, WellFormed, Cell

\* _commit_parent keeps the parent well-formed, and does not clear it.
LEMMA MergedProperties ==
  ASSUME NEW p \in RepositoryTransactions, WellFormed(p),
         NEW c \in RepositoryTransactions, WellFormed(c)
  PROVE  /\ MergedInto(p, c) \in RepositoryTransactions
         /\ WellFormed(MergedInto(p, c))
         /\ MergedInto(p, c).cleared = p.cleared
  BY DEF MergedInto, RepositoryTransactions, WellFormed, Cell

--------------------------------------------------------------------------------
(* Lemmas on the chain of transactions of a session.                       *)

\* What Front keeps of a sequence.
LEMMA FrontProperties ==
  ASSUME NEW S, NEW q \in Seq(S), Len(q) > 0
  PROVE  /\ Front(q) \in Seq(S)
         /\ Len(Front(q)) = Len(q) - 1
         /\ \A i \in 1 .. Len(q) - 1 : Front(q)[i] = q[i]
<1> DEFINE n == Len(q) - 1
<1>1. n \in Nat
  BY LenProperties
<1>2. \A i \in 1 .. n : q[i] \in S
  BY ElementOfSeq
<1>3. /\ SubSeq(q, 1, n) \in Seq(S)
      /\ Len(SubSeq(q, 1, n)) = IF 1 <= n THEN n - 1 + 1 ELSE 0
      /\ \A i \in 1 .. n - 1 + 1 : SubSeq(q, 1, n)[i] = q[1 + i - 1]
  <2>1. 1 \in Int /\ n \in Int
    BY <1>1
  <2> HIDE DEF n
  <2>2. QED
    BY <2>1, <1>2, SubSeqProperties
<1>4. Front(q) = SubSeq(q, 1, n)
  BY DEF Front
<1> HIDE DEF n
<1>5. n - 1 + 1 = n /\ (1 <= n \/ n = 0) /\ \A i \in 1 .. n : 1 + i - 1 = i
  BY <1>1
<1>6. /\ Front(q) \in Seq(S)
      /\ Len(Front(q)) = n
      /\ \A i \in 1 .. n : Front(q)[i] = q[i]
  BY <1>3, <1>4, <1>5
<1>7. QED
  BY <1>6 DEF n

\* create_transaction: a live transaction on top of a live chain.
LEMMA ChainPush ==
  ASSUME NEW chain \in Seq(RepositoryTransactions), Len(chain) > 0,
         ChainShape(chain), ~chain[Len(chain)].cleared
  PROVE  LET longer == Append(chain, NewTransaction)
         IN  /\ longer \in Seq(RepositoryTransactions)
             /\ Len(longer) = Len(chain) + 1
             /\ ChainShape(longer)
             /\ ~longer[Len(longer)].cleared
  BY FreshTransactions, AppendProperties DEF ChainShape

\* Replacing the current transaction by a well-formed one.
LEMMA ChainReplaceTop ==
  ASSUME NEW chain \in Seq(RepositoryTransactions), Len(chain) > 0,
         ChainShape(chain),
         NEW tr \in RepositoryTransactions, WellFormed(tr)
  PROVE  LET other == [chain EXCEPT ![Len(chain)] = tr]
         IN  /\ other \in Seq(RepositoryTransactions)
             /\ Len(other) = Len(chain)
             /\ ChainShape(other)
             /\ other[Len(other)] = tr
  BY ExceptSeq DEF ChainShape

\* commit of a transaction that has a parent.
LEMMA ChainMerge ==
  ASSUME NEW chain \in Seq(RepositoryTransactions), Len(chain) > 1,
         ChainShape(chain)
  PROVE  /\ CommittedToParent(chain) \in Seq(RepositoryTransactions)
         /\ Len(CommittedToParent(chain)) = Len(chain)
         /\ ChainShape(CommittedToParent(chain))
<1> DEFINE n == Len(chain)
           merged == MergedInto(chain[n - 1], chain[n])
           half == [chain EXCEPT ![n - 1] = merged]
<1>1. /\ merged \in RepositoryTransactions
      /\ WellFormed(merged)
      /\ ~merged.cleared
  <2>1. chain[n - 1] \in RepositoryTransactions /\ chain[n] \in RepositoryTransactions
    BY ElementOfSeq
  <2>2. WellFormed(chain[n - 1]) /\ WellFormed(chain[n]) /\ ~chain[n - 1].cleared
    BY DEF ChainShape
  <2>3. QED
    BY <2>1, <2>2, MergedProperties
<1>2. /\ half \in Seq(RepositoryTransactions)
      /\ Len(half) = n
      /\ \A i \in 1 .. n : half[i] = IF i = n - 1 THEN merged ELSE chain[i]
  BY <1>1, ExceptSeq
<1>3. CommittedToParent(chain) = [half EXCEPT ![n] = ClearedTransaction]
  BY DEF CommittedToParent
<1>4. /\ CommittedToParent(chain) \in Seq(RepositoryTransactions)
      /\ Len(CommittedToParent(chain)) = n
      /\ \A i \in 1 .. n : CommittedToParent(chain)[i] =
                            IF i = n THEN ClearedTransaction ELSE half[i]
  BY <1>2, <1>3, FreshTransactions, ExceptSeq
<1> HIDE DEF merged, half
<1>5. ChainShape(CommittedToParent(chain))
  BY <1>1, <1>2, <1>4, FreshTransactions DEF ChainShape
<1>6. QED
  BY <1>4, <1>5

\* end_transaction of an inner transaction: its parent becomes the current one.
LEMMA ChainPop ==
  ASSUME NEW chain \in Seq(RepositoryTransactions), Len(chain) > 1,
         ChainShape(chain)
  PROVE  /\ Front(chain) \in Seq(RepositoryTransactions)
         /\ Len(Front(chain)) = Len(chain) - 1
         /\ ChainShape(Front(chain))
         /\ ~Front(chain)[Len(chain) - 1].cleared
  BY FrontProperties DEF ChainShape

\* A set of naturals has a least element.
LEMMA LeastNatural ==
  ASSUME NEW T \in SUBSET Nat, T # {}
  PROVE  \E d \in T : \A k \in T : d <= k
<1> DEFINE R == OpToRel(<, Nat)
<1>1. PICK d \in T : \A k \in T : <<k, d>> \notin R
  <2> HIDE DEF R
  <2>1. IsWellFoundedOn(R, Nat)
    BY NatLessThanWellFounded DEF R
  <2>2. QED
    BY <2>1, WFMin
<1>2. \A k \in T : ~(k < d)
  BY <1>1 DEF OpToRel
<1>3. QED
  BY <1>2

\* The boundary of a rollback is a transaction of the stack, no subtransaction.
LEMMA BoundaryInStack ==
  ASSUME NEW s \in Session, sa[s] \in Seq(SessionTransactions), StackShape(sa[s])
  PROVE  Boundary(s) \in 1 .. Len(sa[s]) /\ sa[s][Boundary(s)].kind # "sub"
<1> DEFINE Outer == {i \in 1 .. Len(sa[s]) : sa[s][i].kind # "sub"}
           n == Len(sa[s])
           Distance == {Len(sa[s]) - i : i \in Outer}
<1>1. 1 \in Outer
  BY DEF StackShape
<1>0. n \in Nat
  BY LenProperties
<1>2. Distance # {} /\ Distance \in SUBSET Nat
  <2>1. Len(sa[s]) - 1 \in Distance
    BY <1>1
  <2>2. \A i \in Outer : n - i \in Nat
    BY <1>0
  <2>3. QED
    BY <2>1, <2>2
<1>3. PICK d \in Distance : \A k \in Distance : d <= k
  BY <1>2, LeastNatural
<1>4. PICK b \in Outer : d = Len(sa[s]) - b
  OBVIOUS
<1>5. \A i \in Outer : i <= b
  <2> SUFFICES ASSUME NEW i \in Outer PROVE i <= b
    OBVIOUS
  <2>1. n - i \in Distance
    OBVIOUS
  <2>2. n - b <= n - i
    BY <2>1, <1>3, <1>4
  <2>3. QED
    BY <2>2, <1>0
<1>6. /\ b \in DOMAIN sa[s]
      /\ sa[s][b].kind # "sub"
      /\ \A j \in DOMAIN sa[s] : j > b => sa[s][j].kind = "sub"
  BY <1>5
<1>7. QED
  BY <1>6 DEF Boundary

--------------------------------------------------------------------------------
(* Lemmas on the stack of a session.                                       *)

\* A stack with the same kinds has the same shape.
LEMMA SameKinds ==
  ASSUME NEW stack \in Seq(SessionTransactions), StackShape(stack),
         NEW other \in Seq(SessionTransactions), Len(other) = Len(stack),
         \A i \in 1 .. Len(stack) : other[i].kind = stack[i].kind
  PROVE  StackShape(other)
<1>1. Len(stack) \in Nat /\ Len(stack) > 0
  BY LenProperties DEF StackShape
<1>2. 1 \in 1 .. Len(stack) /\ \A i \in 2 .. Len(stack) : i \in 1 .. Len(stack)
  BY <1>1
<1>3. QED
  BY <1>1, <1>2 DEF StackShape

\* Marking the innermost transaction committed.
LEMMA StackCommitted ==
  ASSUME NEW stack \in Seq(SessionTransactions), StackShape(stack)
  PROVE  LET other == [stack EXCEPT ![Len(stack)].state = "COMMITTED"]
         IN  /\ other \in Seq(SessionTransactions)
             /\ Len(other) = Len(stack)
             /\ StackShape(other)
<1> DEFINE n == Len(stack)
           top == [stack[n] EXCEPT !.state = "COMMITTED"]
           other == [stack EXCEPT ![n] = top]
<1>1. n \in 1 .. Len(stack) /\ stack[n] \in SessionTransactions
  BY LenProperties, ElementOfSeq DEF StackShape
<1>2. top \in SessionTransactions /\ top.kind = stack[n].kind
  BY <1>1 DEF SessionTransactions
<1> HIDE DEF top
<1>3. /\ other \in Seq(SessionTransactions)
      /\ Len(other) = n
      /\ \A i \in 1 .. n : other[i] = IF i = n THEN top ELSE stack[i]
  BY <1>1, <1>2, ExceptSeq
<1>4. StackShape(other)
  BY <1>2, <1>3, SameKinds
<1>5. QED
  BY <1>3, <1>4 DEF top

\* A transaction that is not a root is opened.
LEMMA StackPush ==
  ASSUME NEW stack \in Seq(SessionTransactions), StackShape(stack),
         NEW frame \in SessionTransactions, frame.kind # "root"
  PROVE  /\ Append(stack, frame) \in Seq(SessionTransactions)
         /\ Len(Append(stack, frame)) = Len(stack) + 1
         /\ StackShape(Append(stack, frame))
  BY LenProperties, AppendProperties DEF StackShape

\* An inner transaction is closed.
LEMMA StackPop ==
  ASSUME NEW stack \in Seq(SessionTransactions), StackShape(stack),
         Len(stack) > 1
  PROVE  /\ Front(stack) \in Seq(SessionTransactions)
         /\ Len(Front(stack)) = Len(stack) - 1
         /\ StackShape(Front(stack))
<1>1. Len(stack) \in Nat
  BY LenProperties
<1>2. /\ Front(stack) \in Seq(SessionTransactions)
      /\ Len(Front(stack)) = Len(stack) - 1
      /\ \A i \in 1 .. Len(stack) - 1 : Front(stack)[i] = stack[i]
  BY FrontProperties
<1>3. QED
  BY <1>1, <1>2 DEF StackShape

\* Deactivating the transactions from a savepoint up.
LEMMA StackDeactivated ==
  ASSUME NEW stack \in Seq(SessionTransactions), StackShape(stack), NEW b \in Nat
  PROVE  LET other == [i \in DOMAIN stack |->
                        IF i >= b THEN [stack[i] EXCEPT !.state = "DEACTIVE"]
                                  ELSE stack[i]]
         IN  /\ other \in Seq(SessionTransactions)
             /\ Len(other) = Len(stack)
             /\ StackShape(other)
<1> DEFINE off(i) == IF i >= b THEN [stack[i] EXCEPT !.state = "DEACTIVE"]
                               ELSE stack[i]
           n == Len(stack)
           other == [i \in 1 .. n |-> off(i)]
<1>1. n \in Nat /\ DOMAIN stack = 1 .. n
  BY LenProperties
<1>2. \A i \in 1 .. n : stack[i] \in SessionTransactions
  BY ElementOfSeq
<1>3. \A i \in 1 .. n : off(i) \in SessionTransactions /\ off(i).kind = stack[i].kind
  BY <1>2 DEF SessionTransactions
<1> HIDE DEF off
<1>4. other \in Seq(SessionTransactions)
  BY <1>1, <1>3, IsASeq
<1>5. Len(other) = n /\ \A i \in 1 .. n : other[i] = off(i)
  BY <1>1
<1>6. StackShape(other)
  BY <1>3, <1>4, <1>5, SameKinds
<1>7. QED
  BY <1>1, <1>4, <1>5, <1>6 DEF off

--------------------------------------------------------------------------------
(* The invariant, one action at a time.                                    *)

\* What the invariant says of the transactions of one session.
LEMMA SessionFacts ==
  ASSUME IndInv, NEW s \in Session
  PROVE  /\ SessionInv(sa[s], rt[s], pc[s])
         /\ sa[s] \in Seq(SessionTransactions)
         /\ rt[s] \in Seq(RepositoryTransactions)
         /\ Len(rt[s]) \in Nat
         /\ Len(rt[s]) > 0
         /\ Len(rt[s]) = Len(sa[s])
         /\ Last(rt[s]) = rt[s][Len(rt[s])]
         /\ Last(rt[s]) \in RepositoryTransactions
         /\ WellFormed(Last(rt[s]))
<1>1. SessionInv(sa[s], rt[s], pc[s])
  BY DEF IndInv
<1>2. sa[s] \in Seq(SessionTransactions) /\ rt[s] \in Seq(RepositoryTransactions)
  BY DEF IndInv, TypeOK
<1>3. Len(rt[s]) \in Nat
  BY <1>2, LenProperties
<1>4. Len(rt[s]) = Len(sa[s]) /\ Len(rt[s]) > 0
  BY <1>1 DEF SessionInv, StackShape
<1>5. Last(rt[s]) = rt[s][Len(rt[s])]
  BY DEF Last
<1>6. rt[s][Len(rt[s])] \in RepositoryTransactions
  BY <1>2, <1>3, <1>4, ElementOfSeq
<1>7. WellFormed(rt[s][Len(rt[s])])
  BY <1>1, <1>3, <1>4 DEF SessionInv, ChainShape
<1>8. QED
  BY <1>1, <1>2, <1>3, <1>4, <1>5, <1>6, <1>7

\* A step of one session leaves the transactions of the others alone.
LEMMA StepOfOne ==
  ASSUME IndInv, NEW s \in Session, TypeOK',
         SessionInv(sa'[s], rt'[s], pc'[s]),
         \A t \in Session \ {s} :
            sa'[t] = sa[t] /\ rt'[t] = rt[t] /\ pc'[t] = pc[t]
  PROVE  IndInv'
  BY DEF IndInv

\* A step that changes neither the stack nor the chain of its session.
LEMMA StepOfEvent ==
  ASSUME IndInv, NEW s \in Session, TypeOK', NEW e \in Events,
         pc' = [pc EXCEPT ![s] = e], UNCHANGED <<sa, rt>>,
         e # "ending" => ~Last(rt[s]).cleared,
         e = "flushing" => Len(sa[s]) > 1,
         e \in {"publishing", "failed", "republishing", "broken"}
            => Len(sa[s]) = 1
  PROVE  IndInv'
<1>1. pc \in [Session -> Events]
  BY DEF IndInv, TypeOK
<1>2. pc'[s] = e /\ \A t \in Session \ {s} : pc'[t] = pc[t]
  BY <1>1
<1>3. SessionInv(sa'[s], rt'[s], pc'[s])
  BY <1>2, SessionFacts DEF SessionInv
<1>4. QED
  BY <1>2, <1>3, StepOfOne

\* A step that replaces the current transaction by one that is not cleared.
LEMMA StepOfTop ==
  ASSUME IndInv, NEW s \in Session, TypeOK',
         NEW tr \in RepositoryTransactions, WellFormed(tr), ~tr.cleared,
         rt' = [rt EXCEPT ![s][Len(rt[s])] = tr], UNCHANGED <<sa, pc>>
  PROVE  IndInv'
<1> DEFINE chain == [rt[s] EXCEPT ![Len(rt[s])] = tr]
<1>1. SessionInv(sa[s], rt[s], pc[s]) /\ rt[s] \in Seq(RepositoryTransactions)
      /\ Len(rt[s]) > 0
  BY SessionFacts
<1>2. /\ Len(chain) = Len(rt[s])
      /\ ChainShape(chain)
      /\ chain[Len(chain)] = tr
  BY <1>1, ChainReplaceTop DEF SessionInv
<1>3. rt'[s] = chain /\ \A t \in Session \ {s} : rt'[t] = rt[t]
  BY DEF IndInv, TypeOK
<1> HIDE DEF chain
<1>4. SessionInv(sa'[s], rt'[s], pc'[s])
  BY <1>1, <1>2, <1>3 DEF SessionInv
<1>5. QED
  BY <1>3, <1>4, StepOfOne

\* set(): Staged keeps what the invariant says.
LEMMA SetContentStep ==
  ASSUME IndInv, NEW s \in Session, NEW u \in UUID, NEW c \in Content,
         SetContent(s, u, c)
  PROVE  IndInv'
<1> DEFINE tr == Staged(Last(rt[s]), u, c)
<1>1. /\ tr \in RepositoryTransactions
      /\ WellFormed(tr)
      /\ tr.cleared = Last(rt[s]).cleared
  BY SessionFacts, StagedProperties
<1>2. ~tr.cleared
  BY <1>1, SessionFacts DEF SetContent, Usable, Idle, SessionInv
<1>3. rt' = [rt EXCEPT ![s][Len(rt[s])] = tr] /\ UNCHANGED <<sa, pc>>
  BY DEF SetContent
<1> HIDE DEF tr
<1>4. TypeOK'
  <2>1. [rt[s] EXCEPT ![Len(rt[s])] = tr] \in Seq(RepositoryTransactions)
    BY <1>1, SessionFacts, ChainReplaceTop DEF SessionInv
  <2>2. rt' \in [Session -> Seq(RepositoryTransactions)]
    BY <1>3, <2>1 DEF IndInv, TypeOK
  <2>3. want' \in [Session -> [UUID -> Wish]]
    BY DEF SetContent, IndInv, TypeOK, Wish, Cell
  <2>4. QED
    BY <2>2, <2>3 DEF SetContent, IndInv, TypeOK, dbVars
<1>5. QED
  BY <1>1, <1>2, <1>3, <1>4, StepOfTop

\* delete(), of a transaction that is not cleared: Unstaged keeps it usable.
LEMMA UnstageStep ==
  ASSUME IndInv, NEW s \in Session, NEW u \in UUID,
         pc[s] # "ending",
         rt' = [rt EXCEPT ![s][Len(rt[s])] = Unstaged(Last(rt[s]), u)],
         want' = [want EXCEPT ![s][u] = Absent],
         doomed' \in [Session -> SUBSET UUID],
         UNCHANGED <<files, dbVars, sa, pc, publish>>
  PROVE  IndInv'
<1> DEFINE tr == Unstaged(Last(rt[s]), u)
<1>1. /\ tr \in RepositoryTransactions
      /\ WellFormed(tr)
      /\ tr.cleared = Last(rt[s]).cleared
  BY SessionFacts, UnstagedProperties
<1>2. ~tr.cleared
  BY <1>1, SessionFacts DEF SessionInv
<1>3. rt' = [rt EXCEPT ![s][Len(rt[s])] = tr]
  OBVIOUS
<1> HIDE DEF tr
<1>4. TypeOK'
  <2>1. [rt[s] EXCEPT ![Len(rt[s])] = tr] \in Seq(RepositoryTransactions)
    BY <1>1, SessionFacts, ChainReplaceTop DEF SessionInv
  <2>2. rt' \in [Session -> Seq(RepositoryTransactions)]
    BY <1>3, <2>1 DEF IndInv, TypeOK
  <2>3. want' \in [Session -> [UUID -> Wish]]
    BY DEF IndInv, TypeOK, Wish, Cell
  <2>4. QED
    BY <2>2, <2>3 DEF IndInv, TypeOK, dbVars
<1>5. QED
  BY <1>1, <1>2, <1>3, <1>4, StepOfTop

LEMMA DeleteContentStep ==
  ASSUME IndInv, NEW s \in Session, NEW u \in UUID, DeleteContent(s, u)
  PROVE  IndInv'
<1>1. doomed' \in [Session -> SUBSET UUID]
  BY DEF DeleteContent, IndInv, TypeOK
<1>2. QED
  BY <1>1, UnstageStep DEF DeleteContent, Usable, Idle

LEMMA PropagateDeleteStep ==
  ASSUME IndInv, NEW s \in Session, NEW u \in UUID, PropagateDelete(s, u)
  PROVE  IndInv'
<1>1. doomed' \in [Session -> SUBSET UUID]
  BY DEF PropagateDelete, IndInv, TypeOK
<1>2. CASE Get(s, u) = Absent
  <2>1. want' \in [Session -> [UUID -> Wish]]
    BY DEF PropagateDelete, IndInv, TypeOK, Wish, Cell
  <2>2. TypeOK'
    BY <1>1, <1>2, <2>1 DEF PropagateDelete, IndInv, TypeOK, dbVars
  <2>3. UNCHANGED <<sa, rt, pc>>
    BY <1>2 DEF PropagateDelete
  <2>4. QED
    BY <2>2, <2>3 DEF IndInv, SessionInv
<1>3. CASE Get(s, u) # Absent
  BY <1>1, <1>3, UnstageStep DEF PropagateDelete
<1>4. QED
  BY <1>2, <1>3

\* session.delete(blob) changes no transaction.
LEMMA DeleteBlobStep ==
  ASSUME IndInv, NEW s \in Session, NEW u \in UUID, DeleteBlob(s, u)
  PROVE  IndInv'
<1>1. TypeOK'
  BY DEF DeleteBlob, IndInv, TypeOK, dbVars
<1>2. UNCHANGED <<sa, rt, pc>>
  BY DEF DeleteBlob
<1>3. QED
  BY <1>1, <1>2 DEF IndInv, SessionInv

\* Opening a savepoint or a subtransaction pushes on the stack and the chain.
LEMMA PushStep ==
  ASSUME IndInv, NEW s \in Session, pc[s] = "idle",
         NEW frame \in SessionTransactions, frame.kind # "root",
         sa' = [sa EXCEPT ![s] = Append(@, frame)],
         CreateTransaction(s),
         NEW e \in {"idle", "flushing"},
         pc' = [pc EXCEPT ![s] = e],
         UNCHANGED <<files, dbVars, want, doomed, publish>>
  PROVE  IndInv'
<1> DEFINE stack == Append(sa[s], frame)
           chain == Append(rt[s], NewTransaction)
<1>1. /\ sa' = [sa EXCEPT ![s] = stack]
      /\ rt' = [rt EXCEPT ![s] = chain]
  BY DEF CreateTransaction
<1>2. /\ stack \in Seq(SessionTransactions)
      /\ Len(stack) = Len(sa[s]) + 1
      /\ StackShape(stack)
  BY SessionFacts, StackPush DEF SessionInv
<1>3. /\ chain \in Seq(RepositoryTransactions)
      /\ Len(chain) = Len(rt[s]) + 1
      /\ ChainShape(chain)
      /\ ~chain[Len(chain)].cleared
  BY SessionFacts, ChainPush DEF SessionInv
<1> HIDE DEF stack, chain
<1>4. TypeOK'
  BY <1>1, <1>2, <1>3 DEF Events, IndInv, TypeOK, dbVars
<1>5. /\ sa'[s] = stack /\ rt'[s] = chain /\ pc'[s] = e
      /\ \A t \in Session \ {s} :
            sa'[t] = sa[t] /\ rt'[t] = rt[t] /\ pc'[t] = pc[t]
  BY <1>1 DEF IndInv, TypeOK
<1>6. Len(stack) > 1 /\ Len(chain) = Len(stack)
  BY <1>2, <1>3, SessionFacts
<1>7. SessionInv(sa'[s], rt'[s], pc'[s])
  BY <1>2, <1>3, <1>5, <1>6 DEF SessionInv
<1>8. QED
  BY <1>4, <1>5, <1>7, StepOfOne

\* The transactions a session opens above its root.
LEMMA InnerFrames ==
  ASSUME IndInv, NEW s \in Session
  PROVE  /\ Frame("nested", want[s]) \in SessionTransactions
         /\ Frame("sub", NoWish) \in SessionTransactions
         /\ Frame("root", NoWish) \in SessionTransactions
         /\ Frame("nested", want[s]).kind = "nested"
         /\ Frame("sub", NoWish).kind = "sub"
         /\ Frame("root", NoWish).kind = "root"
  BY DEF IndInv, TypeOK, Frame, NoWish, SessionTransactions, Wish

LEMMA OpenStep ==
  ASSUME IndInv, NEW s \in Session,
         BeginNested(s) \/ BeginSub(s) \/ FlushBegin(s)
  PROVE  IndInv'
<1>1. pc \in [Session -> Events]
  BY DEF IndInv, TypeOK
<1>2. CASE BeginNested(s)
  <2>1. pc[s] = "idle" /\ pc' = [pc EXCEPT ![s] = "idle"]
    BY <1>1, <1>2 DEF BeginNested, Usable, Idle
  <2>2. QED
    BY <1>2, <2>1, InnerFrames, PushStep DEF BeginNested
<1>3. CASE BeginSub(s)
  <2>1. pc[s] = "idle" /\ pc' = [pc EXCEPT ![s] = "idle"]
    BY <1>1, <1>3 DEF BeginSub, Usable, Idle
  <2>2. QED
    BY <1>3, <2>1, InnerFrames, PushStep DEF BeginSub
<1>4. CASE FlushBegin(s)
  BY <1>4, InnerFrames, PushStep DEF FlushBegin, Usable, Idle
<1>5. QED
  BY <1>2, <1>3, <1>4

\* commit of an inner transaction, by a flush or by releasing a savepoint.
LEMMA MergeStep ==
  ASSUME IndInv, NEW s \in Session, Len(sa[s]) > 1,
         NEW stack \in Seq(SessionTransactions), StackShape(stack),
         Len(stack) = Len(sa[s]),
         sa' = [sa EXCEPT ![s] = stack],
         MergeTop(s),
         pc' = [pc EXCEPT ![s] = "ending"],
         UNCHANGED <<files, dbVars, want, doomed, publish>>
  PROVE  IndInv'
<1> DEFINE chain == CommittedToParent(rt[s])
<1>1. rt' = [rt EXCEPT ![s] = chain]
  BY DEF MergeTop
<1>2. /\ chain \in Seq(RepositoryTransactions)
      /\ Len(chain) = Len(rt[s])
      /\ ChainShape(chain)
  BY SessionFacts, ChainMerge DEF SessionInv
<1> HIDE DEF chain
<1>3. TypeOK'
  BY <1>1, <1>2 DEF Events, IndInv, TypeOK, dbVars
<1>4. /\ sa'[s] = stack /\ rt'[s] = chain /\ pc'[s] = "ending"
      /\ \A t \in Session \ {s} :
            sa'[t] = sa[t] /\ rt'[t] = rt[t] /\ pc'[t] = pc[t]
  BY <1>1 DEF IndInv, TypeOK
<1>5. SessionInv(sa'[s], rt'[s], pc'[s])
  BY <1>2, <1>4, SessionFacts DEF SessionInv
<1>6. QED
  BY <1>3, <1>4, <1>5, StepOfOne

LEMMA FlushCommitStep ==
  ASSUME IndInv, NEW s \in Session, FlushCommit(s)
  PROVE  IndInv'
<1>1. Len(sa[s]) > 1 /\ StackShape(sa[s]) /\ sa[s] \in Seq(SessionTransactions)
  BY SessionFacts DEF FlushCommit, SessionInv
<1>2. sa' = [sa EXCEPT ![s] = sa[s]]
  BY DEF FlushCommit, IndInv, TypeOK
<1>3. QED
  BY <1>1, <1>2, MergeStep DEF FlushCommit

\* The innermost transaction of a stack of one is its root, and only that one.
LEMMA RootIsAlone ==
  ASSUME IndInv, NEW s \in Session
  PROVE  /\ Len(sa[s]) = 1 \/ Len(sa[s]) > 1
         /\ Last(sa[s]).kind = "root" <=> Len(sa[s]) = 1
<1> DEFINE stack == sa[s]
           n == Len(sa[s])
<1>1. n \in Nat /\ StackShape(stack)
  BY SessionFacts DEF SessionInv
<1>2. Last(stack) = stack[n]
  BY DEF Last
<1>3. n > 0 /\ stack[1].kind = "root"
      /\ \A i \in 2 .. n : stack[i].kind # "root"
  BY <1>1 DEF StackShape
<1> HIDE DEF stack, n
<1>4. n = 1 \/ (n > 1 /\ n \in 2 .. n)
  BY <1>1, <1>3
<1>5. Last(stack).kind = "root" <=> n = 1
  BY <1>2, <1>3, <1>4
<1>6. QED
  BY <1>4, <1>5 DEF stack, n

LEMMA CommitNestedStep ==
  ASSUME IndInv, NEW s \in Session, CommitNested(s)
  PROVE  IndInv'
<1> DEFINE stack == [sa[s] EXCEPT ![Len(sa[s])].state = "COMMITTED"]
<1>1. Len(sa[s]) > 1
  <2>1. Len(sa[s]) # 1
    BY RootIsAlone DEF CommitNested, Top
  <2>2. QED
    BY <2>1, RootIsAlone
<1>2. /\ stack \in Seq(SessionTransactions)
      /\ StackShape(stack)
      /\ Len(stack) = Len(sa[s])
  BY SessionFacts, StackCommitted DEF SessionInv
<1>3. sa' = [sa EXCEPT ![s] = stack]
  BY DEF CommitNested
<1> HIDE DEF stack
<1>4. QED
  BY <1>1, <1>2, <1>3, MergeStep DEF CommitNested

\* A rollback clears the current transaction, and its session ends it next.
LEMMA RollbackStep ==
  ASSUME IndInv, NEW s \in Session, RollbackTo(s, Boundary(s))
  PROVE  IndInv'
<1> DEFINE b == Boundary(s)
           stack == [i \in DOMAIN sa[s] |->
                        IF i >= b THEN [sa[s][i] EXCEPT !.state = "DEACTIVE"]
                                  ELSE sa[s][i]]
           chain == [rt[s] EXCEPT ![Len(rt[s])] = ClearedTransaction]
<1>1. b \in 1 .. Len(sa[s])
  BY SessionFacts, BoundaryInStack DEF SessionInv
<1>2. sa' = [sa EXCEPT ![s] = stack] /\ rt' = [rt EXCEPT ![s] = chain]
  BY DEF RollbackTo, ClearTop
<1>3. /\ stack \in Seq(SessionTransactions)
      /\ Len(stack) = Len(sa[s])
      /\ StackShape(stack)
  BY <1>1, SessionFacts, StackDeactivated DEF SessionInv
<1>4. /\ chain \in Seq(RepositoryTransactions)
      /\ Len(chain) = Len(rt[s])
      /\ ChainShape(chain)
  BY SessionFacts, FreshTransactions, ChainReplaceTop DEF SessionInv
<1>5. sa[s][b].saved \in [UUID -> Wish]
  <2>1. sa[s][b] \in SessionTransactions
    BY <1>1, SessionFacts, ElementOfSeq
  <2>2. QED
    BY <2>1 DEF SessionTransactions
<1>6. want' = [want EXCEPT ![s] = sa[s][b].saved]
  BY DEF RollbackTo
<1> HIDE DEF b, stack, chain
<1>7. /\ pc' = [pc EXCEPT ![s] = "ending"]
      /\ doomed' = [doomed EXCEPT ![s] = {}]
      /\ UNCHANGED <<files, db, past, publish>>
  BY DEF RollbackTo, dbVars
<1>8. TypeOK'
  BY <1>2, <1>3, <1>4, <1>5, <1>6, <1>7 DEF Events, IndInv, TypeOK
<1>9. /\ sa'[s] = stack /\ rt'[s] = chain /\ pc'[s] = "ending"
      /\ \A t \in Session \ {s} :
            sa'[t] = sa[t] /\ rt'[t] = rt[t] /\ pc'[t] = pc[t]
  BY <1>2, <1>7 DEF IndInv, TypeOK
<1>10. SessionInv(sa'[s], rt'[s], pc'[s])
  BY <1>3, <1>4, <1>9, SessionFacts DEF SessionInv
<1>11. QED
  BY <1>8, <1>9, <1>10, StepOfOne

\* rollback() of a deactivated transaction, and commit() of a subtransaction.
LEMMA QuietEndStep ==
  ASSUME IndInv, NEW s \in Session, RollbackDeactivated(s) \/ CommitSub(s)
  PROVE  IndInv'
<1>1. /\ pc' = [pc EXCEPT ![s] = "ending"]
      /\ UNCHANGED <<files, db, past, sa, want, doomed, rt, publish>>
  BY DEF RollbackDeactivated, CommitSub, dbVars
<1>2. TypeOK'
  BY <1>1 DEF Events, IndInv, TypeOK
<1>3. QED
  BY <1>1, <1>2, StepOfEvent DEF Events

\* end_transaction of an inner transaction pops the stack and the chain.
LEMMA EndInnerStep ==
  ASSUME IndInv, NEW s \in Session, EndInner(s)
  PROVE  IndInv'
<1> DEFINE stack == Front(sa[s])
           whole == IF Last(rt[s]).cleared THEN rt[s] ELSE CommittedToParent(rt[s])
           chain == Front(whole)
           e == IF pc[s] = "ending" THEN "idle" ELSE pc[s]
<1>1. Len(sa[s]) > 1 /\ Len(rt[s]) > 1 /\ Len(rt[s]) = Len(sa[s])
  BY SessionFacts DEF EndInner
<1>2. /\ sa' = [sa EXCEPT ![s] = stack]
      /\ rt' = [rt EXCEPT ![s] = chain]
      /\ pc' = [pc EXCEPT ![s] = e]
      /\ UNCHANGED <<files, db, past, want, doomed, publish>>
  BY DEF EndInner, dbVars
<1>3. /\ stack \in Seq(SessionTransactions)
      /\ Len(stack) = Len(sa[s]) - 1
      /\ StackShape(stack)
  BY <1>1, SessionFacts, StackPop DEF SessionInv
<1>4. /\ whole \in Seq(RepositoryTransactions)
      /\ Len(whole) = Len(rt[s])
      /\ ChainShape(whole)
  <2>1. ChainShape(rt[s]) /\ rt[s] \in Seq(RepositoryTransactions)
    BY SessionFacts DEF SessionInv
  <2>2. QED
    BY <1>1, <2>1, ChainMerge
<1> HIDE DEF whole
<1>5. /\ chain \in Seq(RepositoryTransactions)
      /\ Len(chain) = Len(rt[s]) - 1
      /\ ChainShape(chain)
      /\ ~chain[Len(chain)].cleared
  BY <1>1, <1>4, ChainPop
<1>6. e \in {"idle", "closing"}
  BY DEF EndInner
<1> HIDE DEF stack, chain, e
<1>7. TypeOK'
  BY <1>2, <1>3, <1>5, <1>6 DEF Events, IndInv, TypeOK
<1>8. /\ sa'[s] = stack /\ rt'[s] = chain /\ pc'[s] = e
      /\ \A t \in Session \ {s} :
            sa'[t] = sa[t] /\ rt'[t] = rt[t] /\ pc'[t] = pc[t]
  BY <1>2 DEF IndInv, TypeOK
<1>9. Len(chain) = Len(stack)
  BY <1>1, <1>3, <1>5
<1>10. SessionInv(sa'[s], rt'[s], pc'[s])
  BY <1>3, <1>5, <1>6, <1>8, <1>9 DEF SessionInv
<1>11. QED
  BY <1>7, <1>8, <1>10, StepOfOne

\* A session starts again with a root transaction and nothing staged.
LEMMA ResetStep ==
  ASSUME IndInv, NEW s \in Session,
         sa' = [sa EXCEPT ![s] = <<Frame("root", NoWish)>>],
         rt' = [rt EXCEPT ![s] = <<NewTransaction>>],
         want' = [want EXCEPT ![s] = NoWish],
         doomed' \in [Session -> SUBSET UUID],
         pc' = [pc EXCEPT ![s] = "idle"],
         publish' \in [Session -> Publication],
         UNCHANGED <<files, dbVars>>
  PROVE  IndInv'
<1>1. /\ <<Frame("root", NoWish)>> \in Seq(SessionTransactions)
      /\ Len(<<Frame("root", NoWish)>>) = 1
      /\ StackShape(<<Frame("root", NoWish)>>)
  BY InnerFrames DEF StackShape
<1>2. /\ <<NewTransaction>> \in Seq(RepositoryTransactions)
      /\ Len(<<NewTransaction>>) = 1
      /\ ChainShape(<<NewTransaction>>)
      /\ ~(<<NewTransaction>>[1]).cleared
  BY FreshTransactions DEF ChainShape
<1>3. NoWish \in [UUID -> Wish]
  BY DEF NoWish, Wish
<1> DEFINE stack == <<Frame("root", NoWish)>>
           chain == <<NewTransaction>>
<1>4. sa' = [sa EXCEPT ![s] = stack] /\ rt' = [rt EXCEPT ![s] = chain]
  OBVIOUS
<1>5. /\ stack \in Seq(SessionTransactions)
      /\ Len(stack) = 1
      /\ StackShape(stack)
  BY <1>1
<1>6. /\ chain \in Seq(RepositoryTransactions)
      /\ Len(chain) = 1
      /\ ChainShape(chain)
      /\ ~chain[1].cleared
  BY <1>2
<1> HIDE DEF stack, chain
<1>7. TypeOK'
  <2>1. sa' \in [Session -> Seq(SessionTransactions)]
    BY <1>4, <1>5 DEF IndInv, TypeOK
  <2>2. rt' \in [Session -> Seq(RepositoryTransactions)]
    BY <1>4, <1>6 DEF IndInv, TypeOK
  <2>3. want' \in [Session -> [UUID -> Wish]]
    BY <1>3 DEF IndInv, TypeOK
  <2>4. pc' \in [Session -> Events]
    BY DEF Events, IndInv, TypeOK
  <2>5. QED
    BY <2>1, <2>2, <2>3, <2>4 DEF IndInv, TypeOK, dbVars
<1>8. /\ sa'[s] = stack /\ rt'[s] = chain /\ pc'[s] = "idle"
      /\ \A t \in Session \ {s} :
            sa'[t] = sa[t] /\ rt'[t] = rt[t] /\ pc'[t] = pc[t]
  BY <1>4 DEF IndInv, TypeOK
<1>9. SessionInv(sa'[s], rt'[s], pc'[s])
  BY <1>5, <1>6, <1>8 DEF SessionInv
<1>10. QED
  BY <1>7, <1>8, <1>9, StepOfOne

LEMMA EndRootStep ==
  ASSUME IndInv, NEW s \in Session, EndRoot(s)
  PROVE  IndInv'
<1>1. doomed' \in [Session -> SUBSET UUID] /\ publish' \in [Session -> Publication]
  BY DEF EndRoot, IndInv, TypeOK
<1>2. QED
  BY <1>1, ResetStep DEF EndRoot, dbVars

LEMMA AfreshStep ==
  ASSUME IndInv, NEW s \in Session, NewContext(s) \/ Crash(s)
  PROVE  IndInv'
<1>1. StartAfresh(s)
  BY DEF NewContext, Crash
<1>2. doomed' \in [Session -> SUBSET UUID] /\ publish' \in [Session -> Publication]
  BY <1>1 DEF StartAfresh, IndInv, TypeOK, NoPublication, Publication
<1>3. QED
  BY <1>1, <1>2, ResetStep DEF StartAfresh, dbVars

\* The root's transaction, which is all there is, starts to be published.
LEMMA RootSets ==
  ASSUME IndInv, NEW s \in Session, Len(sa[s]) = 1
  PROVE  /\ rt[s][1] = Last(rt[s])
         /\ rt[s][1].deleted \in SUBSET UUID
         /\ rt[s][1].set \in SUBSET UUID
         /\ rt[s][1].dir \in [UUID -> Cell]
  BY SessionFacts DEF RepositoryTransactions

\* What there is to publish, when the publication starts.
LEMMA PublicationStarts ==
  ASSUME IndInv, NEW s \in Session, NEW D \in SUBSET UUID, NEW W \in SUBSET UUID,
         publish[s].open = NullMark
  PROVE  [publish EXCEPT ![s].deleted = D, ![s].set = W] \in [Session -> Publication]
<1> DEFINE started == [publish[s] EXCEPT !.deleted = D, !.set = W]
<1>1. publish \in [Session -> Publication]
  BY DEF IndInv, TypeOK
<1>2. started \in Publication
  BY <1>1 DEF Publication
<1>3. [publish EXCEPT ![s].deleted = D, ![s].set = W] = [publish EXCEPT ![s] = started]
  BY <1>1 DEF Publication
<1> HIDE DEF started
<1>4. QED
  BY <1>1, <1>2, <1>3

LEMMA EndRootUnclearedStep ==
  ASSUME IndInv, NothingOpen, NEW s \in Session, EndRootUncleared(s)
  PROVE  IndInv'
<1>1. /\ pc' = [pc EXCEPT ![s] = "republishing"]
      /\ UNCHANGED <<files, db, past, sa, want, doomed, rt>>
      /\ Len(sa[s]) = 1 /\ ~Last(rt[s]).cleared
  BY DEF EndRootUncleared, dbVars
<1>2. publish' \in [Session -> Publication]
  BY <1>1, RootSets, PublicationStarts DEF EndRootUncleared, NothingOpen, Publishing
<1>3. TypeOK'
  BY <1>1, <1>2 DEF Events, IndInv, TypeOK
<1>4. QED
  BY <1>1, <1>3, StepOfEvent DEF Events

LEMMA CommitRootStep ==
  ASSUME IndInv, NothingOpen, NEW s \in Session, CommitRoot(s)
  PROVE  IndInv'
<1> DEFINE stack == [sa[s] EXCEPT ![Len(sa[s])].state = "COMMITTED"]
<1>1. Len(sa[s]) = 1
  BY RootIsAlone DEF CommitRoot, Top
<1>2. /\ stack \in Seq(SessionTransactions)
      /\ StackShape(stack)
      /\ Len(stack) = Len(sa[s])
  BY SessionFacts, StackCommitted DEF SessionInv
<1>3. sa' = [sa EXCEPT ![s] = stack]
  BY DEF CommitRoot
<1> HIDE DEF stack
<1>4. publish' \in [Session -> Publication]
  BY <1>1, RootSets, PublicationStarts
     DEF CommitRoot, Usable, Idle, NothingOpen, Publishing
<1>5. db' \in [UUID -> Cell]
  BY DEF CommitRoot, RowsAfter, IndInv, TypeOK, Wish
<1>6. past' \in [UUID -> SUBSET Cell]
  BY <1>5 DEF CommitRoot, IndInv, TypeOK
<1>7. /\ pc' = [pc EXCEPT ![s] = "publishing"]
      /\ UNCHANGED <<files, want, doomed, rt>>
  BY DEF CommitRoot
<1>8. TypeOK'
  BY <1>2, <1>3, <1>4, <1>5, <1>6, <1>7 DEF Events, IndInv, TypeOK
<1>9. /\ sa'[s] = stack /\ rt'[s] = rt[s] /\ pc'[s] = "publishing"
      /\ \A t \in Session \ {s} :
            sa'[t] = sa[t] /\ rt'[t] = rt[t] /\ pc'[t] = pc[t]
  BY <1>3, <1>7 DEF IndInv, TypeOK
<1>10. ~Last(rt[s]).cleared
  BY SessionFacts DEF CommitRoot, Usable, Idle, SessionInv
<1>11. SessionInv(sa'[s], rt'[s], pc'[s])
  BY <1>1, <1>2, <1>9, <1>10, SessionFacts DEF SessionInv
<1>12. QED
  BY <1>8, <1>9, <1>11, StepOfOne

\* One file is deleted, opened or written: no transaction changes.
LEMMA PublishFileStep ==
  ASSUME IndInv, NEW s \in Session,
         PublishWrite(s) \/ \E u \in UUID : PublishDelete(s, u) \/ PublishOpen(s, u)
  PROVE  IndInv'
<1>1. /\ publish[s] \in Publication
      /\ files \in [UUID -> Cell \cup {Torn}]
      /\ Len(sa[s]) = 1
  BY SessionFacts
     DEF Publishing, IndInv, TypeOK, SessionInv, PublishWrite, PublishDelete, PublishOpen
<1>2. UNCHANGED <<db, past, sa, want, doomed, rt, pc>>
  BY DEF PublishWrite, PublishDelete, PublishOpen, dbVars
<1>3. ASSUME NEW left \in Publication, publish' = [publish EXCEPT ![s] = left]
      PROVE  publish' \in [Session -> Publication]
  BY <1>3 DEF IndInv, TypeOK
<1>4. files' \in [UUID -> Cell \cup {Torn}] /\ publish' \in [Session -> Publication]
  <2>1. ASSUME NEW u \in UUID, PublishDelete(s, u)
        PROVE  files' \in [UUID -> Cell \cup {Torn}]
               /\ publish' \in [Session -> Publication]
    <3> DEFINE left == [publish[s] EXCEPT !.deleted = @ \ {u}]
    <3>1. left \in Publication
      BY <1>1 DEF Publication
    <3>2. publish' = [publish EXCEPT ![s] = left]
      BY <2>1 DEF PublishDelete
    <3> HIDE DEF left
    <3>3. QED
      BY <1>1, <1>3, <2>1, <3>1, <3>2 DEF PublishDelete, Cell
  <2>2. ASSUME NEW u \in UUID, PublishOpen(s, u)
        PROVE  files' \in [UUID -> Cell \cup {Torn}]
               /\ publish' \in [Session -> Publication]
    <3> DEFINE left == [publish[s] EXCEPT !.open = u]
    <3>1. left \in Publication
      BY <1>1, <2>2 DEF PublishOpen, Publication
    <3>2. publish' = [publish EXCEPT ![s] = left]
      BY <2>2 DEF PublishOpen
    <3> HIDE DEF left
    <3>3. QED
      BY <1>1, <1>3, <2>2, <3>1, <3>2 DEF PublishOpen
  <2>3. CASE PublishWrite(s)
    <3> DEFINE u == publish[s].open
               left == [publish[s] EXCEPT !.set = @ \ {u}, !.open = NullMark]
    <3>1. left \in Publication
      BY <1>1 DEF Publication
    <3>2. publish' = [publish EXCEPT ![s] = left]
      BY <2>3 DEF PublishWrite
    <3>3. u \in UUID
      BY <1>1, <2>3 DEF PublishWrite, Publication
    <3>4. rt[s][1].dir[u] \in Cell
      BY <1>1, <3>3, RootSets
    <3>5. files' = [files EXCEPT ![u] = rt[s][1].dir[u]]
      BY <2>3 DEF PublishWrite
    <3> HIDE DEF left, u
    <3>6. QED
      BY <1>1, <1>3, <3>1, <3>2, <3>4, <3>5
  <2>4. QED
    BY <2>1, <2>2, <2>3
<1>5. QED
  BY <1>2, <1>4 DEF IndInv, TypeOK, SessionInv

\* commit() of the root clears its transaction, which ends next.
LEMMA PublishEndStep ==
  ASSUME IndInv, NEW s \in Session, PublishEnd(s)
  PROVE  IndInv'
<1> DEFINE chain == [rt[s] EXCEPT ![Len(rt[s])] = ClearedTransaction]
<1>1. /\ chain \in Seq(RepositoryTransactions)
      /\ Len(chain) = Len(rt[s])
      /\ ChainShape(chain)
  BY SessionFacts, FreshTransactions, ChainReplaceTop DEF SessionInv
<1>2. /\ rt' = [rt EXCEPT ![s] = chain]
      /\ pc' = [pc EXCEPT ![s] = "ending"]
      /\ UNCHANGED <<files, db, past, sa, want, doomed, publish>>
  BY DEF PublishEnd, ClearTop, dbVars
<1> HIDE DEF chain
<1>3. TypeOK'
  BY <1>1, <1>2 DEF Events, IndInv, TypeOK
<1>4. /\ sa'[s] = sa[s] /\ rt'[s] = chain /\ pc'[s] = "ending"
      /\ \A t \in Session \ {s} :
            sa'[t] = sa[t] /\ rt'[t] = rt[t] /\ pc'[t] = pc[t]
  BY <1>2 DEF IndInv, TypeOK
<1>5. SessionInv(sa'[s], rt'[s], pc'[s])
  BY <1>1, <1>4, SessionFacts DEF SessionInv
<1>6. QED
  BY <1>3, <1>4, <1>5, StepOfOne

LEMMA PublishFailsStep ==
  ASSUME IndInv, NEW s \in Session, PublishFails(s) \/ RepublishFails(s)
  PROVE  IndInv'
<1> DEFINE e == IF pc[s] = "publishing" THEN "failed" ELSE "broken"
<1>1. /\ pc' = [pc EXCEPT ![s] = e]
      /\ UNCHANGED <<files, db, past, sa, want, doomed, rt>>
      /\ Len(sa[s]) = 1 /\ ~Last(rt[s]).cleared
  BY SessionFacts DEF PublishFails, RepublishFails, SessionInv, dbVars
<1>2. publish' \in [Session -> Publication]
  <2>1. NoPublication \in Publication
    BY DEF NoPublication, Publication
  <2>2. QED
    BY <2>1 DEF PublishFails, RepublishFails, IndInv, TypeOK
<1>3. e \in Events /\ e \in {"failed", "broken"}
  BY DEF Events
<1> HIDE DEF e
<1>4. TypeOK'
  BY <1>1, <1>2, <1>3 DEF IndInv, TypeOK
<1>5. QED
  BY <1>1, <1>3, <1>4, StepOfEvent

LEMMA CloseStep ==
  ASSUME IndInv, NEW s \in Session, Close(s)
  PROVE  IndInv'
<1>1. /\ pc' = [pc EXCEPT ![s] = "closing"]
      /\ UNCHANGED <<files, db, past, sa, rt, publish>>
      /\ ~Last(rt[s]).cleared
  BY SessionFacts DEF Close, Idle, SessionInv, dbVars
<1>2. want' \in [Session -> [UUID -> Wish]] /\ doomed' \in [Session -> SUBSET UUID]
  BY DEF Close, NoWish, Wish, IndInv, TypeOK
<1>3. TypeOK'
  BY <1>1, <1>2 DEF Events, IndInv, TypeOK
<1>4. QED
  BY <1>1, <1>3, StepOfEvent DEF Events

--------------------------------------------------------------------------------
(* The theorems.                                                           *)

\* Every session starts with a root, a new transaction and nothing to publish.
LEMMA InitInvariant == Init => IndInv
<1> SUFFICES ASSUME Init PROVE IndInv
  OBVIOUS
<1>1. Frame("root", NoWish) \in SessionTransactions /\ Frame("root", NoWish).kind = "root"
  BY DEF Frame, NoWish, SessionTransactions, Wish
<1>2. TypeOK
  <2>1. sa \in [Session -> Seq(SessionTransactions)]
    BY <1>1 DEF Init
  <2>2. rt \in [Session -> Seq(RepositoryTransactions)]
    BY FreshTransactions DEF Init
  <2>3. publish \in [Session -> Publication]
    BY DEF Init, NoPublication, Publication
  <2>4. files \in [UUID -> Cell \cup {Torn}] /\ db \in [UUID -> Cell]
        /\ past \in [UUID -> SUBSET Cell]
    BY DEF Init
  <2>5. want \in [Session -> [UUID -> Wish]] /\ doomed \in [Session -> SUBSET UUID]
    BY DEF Init, NoWish, Wish
  <2>6. pc \in [Session -> Events]
    BY DEF Events, Init
  <2>7. QED
    BY <2>1, <2>2, <2>3, <2>4, <2>5, <2>6 DEF TypeOK
<1>3. ASSUME NEW s \in Session
      PROVE  SessionInv(sa[s], rt[s], pc[s])
  <2>1. sa[s] = <<Frame("root", NoWish)>> /\ rt[s] = <<NewTransaction>>
        /\ pc[s] = "idle"
    BY DEF Init
  <2>2. StackShape(sa[s]) /\ Len(sa[s]) = 1
    BY <1>1, <2>1 DEF StackShape
  <2>3. ChainShape(rt[s]) /\ Len(rt[s]) = 1 /\ ~rt[s][1].cleared
    BY <2>1, FreshTransactions DEF ChainShape
  <2>4. QED
    BY <2>1, <2>2, <2>3 DEF SessionInv
<1>4. QED
  BY <1>2, <1>3 DEF IndInv

\* Every step of every session keeps the inductive invariant.
LEMMA StepInvariant == IndInv /\ NothingOpen /\ [Next]_vars => IndInv'
<1> SUFFICES ASSUME IndInv, NothingOpen, [Next]_vars PROVE IndInv'
  OBVIOUS
<1>1. CASE UNCHANGED vars
  BY <1>1 DEF vars, IndInv, TypeOK, SessionInv
<1>2. CASE Next
  <2> PICK s \in Session :
        \/ \E u \in UUID, c \in Content : SetContent(s, u, c)
        \/ \E u \in UUID : DeleteContent(s, u) \/ DeleteBlob(s, u)
        \/ BeginNested(s) \/ BeginSub(s)
        \/ Flush(s)
        \/ Rollback(s) \/ RollbackDeactivated(s)
        \/ CommitSub(s) \/ CommitNested(s) \/ CommitRoot(s)
        \/ Publish(s) \/ PublishFails(s) \/ RepublishFails(s)
        \/ End(s)
        \/ Close(s) \/ NewContext(s)
        \/ Crash(s)
    BY <1>2 DEF Next
  <2>1. CASE \E u \in UUID, c \in Content : SetContent(s, u, c)
    BY <2>1, SetContentStep
  <2>2. CASE \E u \in UUID : DeleteContent(s, u) \/ DeleteBlob(s, u)
    BY <2>2, DeleteContentStep, DeleteBlobStep
  <2>3. CASE BeginNested(s) \/ BeginSub(s)
    BY <2>3, OpenStep
  <2>4. CASE Flush(s)
    BY <2>4, OpenStep, PropagateDeleteStep, FlushCommitStep, RollbackStep
       DEF Flush, FlushFails
  <2>5. CASE Rollback(s) \/ RollbackDeactivated(s)
    BY <2>5, RollbackStep, QuietEndStep DEF Rollback
  <2>6. CASE CommitSub(s) \/ CommitNested(s) \/ CommitRoot(s)
    BY <2>6, QuietEndStep, CommitNestedStep, CommitRootStep
  <2>7. CASE Publish(s) \/ PublishFails(s) \/ RepublishFails(s)
    BY <2>7, PublishFileStep, PublishEndStep, PublishFailsStep DEF Publish
  <2>8. CASE End(s)
    BY <2>8, EndInnerStep, EndRootStep, EndRootUnclearedStep DEF End
  <2>9. CASE Close(s) \/ NewContext(s) \/ Crash(s)
    BY <2>9, CloseStep, AfreshStep
  <2>10. QED
    BY <2>1, <2>2, <2>3, <2>4, <2>5, <2>6, <2>7, <2>8, <2>9
<1>3. QED
  BY <1>1, <1>2

\* A publication ends with its last file written, or drops what it had left.
LEMMA NothingStaysOpen == IndInv /\ NothingOpen /\ [Next]_vars => NothingOpen'
<1> SUFFICES ASSUME IndInv, NothingOpen, [Next]_vars PROVE NothingOpen'
  OBVIOUS
<1>1. pc \in [Session -> Events] /\ publish \in [Session -> Publication]
  BY DEF IndInv, TypeOK
<1>2. CASE UNCHANGED vars
  BY <1>2 DEF vars, NothingOpen, Publishing
<1>3. ASSUME NEW s \in Session, NEW e \in Events, publish[s].open = NullMark,
             pc' = [pc EXCEPT ![s] = e], UNCHANGED publish
      PROVE  NothingOpen'
  BY <1>1, <1>3 DEF NothingOpen, Publishing
<1>4. ASSUME NEW s \in Session, NEW e \in Events,
             pc' = [pc EXCEPT ![s] = e],
             publish' = [publish EXCEPT ![s] = NoPublication]
      PROVE  NothingOpen'
  BY <1>1, <1>4 DEF NothingOpen, Publishing, NoPublication
<1>5. ASSUME NEW s \in Session, Publishing(s), UNCHANGED pc,
             \A t \in Session \ {s} : publish'[t] = publish[t]
      PROVE  NothingOpen'
  BY <1>1, <1>5 DEF NothingOpen, Publishing
<1>6. ASSUME NEW s \in Session, NEW e \in {"publishing", "republishing"},
             pc' = [pc EXCEPT ![s] = e],
             \A t \in Session \ {s} : publish'[t] = publish[t]
      PROVE  NothingOpen'
  BY <1>1, <1>6 DEF NothingOpen, Publishing
<1>7. CASE Next
  <2> PICK s \in Session :
        \/ \E u \in UUID, c \in Content : SetContent(s, u, c)
        \/ \E u \in UUID : DeleteContent(s, u) \/ DeleteBlob(s, u)
        \/ BeginNested(s) \/ BeginSub(s)
        \/ Flush(s)
        \/ Rollback(s) \/ RollbackDeactivated(s)
        \/ CommitSub(s) \/ CommitNested(s) \/ CommitRoot(s)
        \/ Publish(s) \/ PublishFails(s) \/ RepublishFails(s)
        \/ End(s)
        \/ Close(s) \/ NewContext(s)
        \/ Crash(s)
    BY <1>7 DEF Next
  <2>1. CASE UNCHANGED <<pc, publish>>
    BY <2>1 DEF NothingOpen, Publishing
  <2>2. CASE \/ FlushBegin(s) \/ FlushCommit(s) \/ FlushFails(s) \/ Rollback(s)
             \/ RollbackDeactivated(s) \/ CommitSub(s) \/ CommitNested(s)
             \/ EndRoot(s) \/ EndInner(s) \/ Close(s)
    <3> DEFINE e == pc'[s]
    <3>1. e \in Events /\ pc' = [pc EXCEPT ![s] = e] /\ UNCHANGED publish
      BY <1>1, <2>2
         DEF FlushBegin, FlushCommit, FlushFails, Rollback, RollbackTo,
             RollbackDeactivated, CommitSub, CommitNested, EndRoot, EndInner, Close,
             Events
    <3>2. pc[s] \notin {"publishing", "republishing"}
      BY <2>2
         DEF FlushBegin, FlushCommit, FlushFails, Rollback, RollbackDeactivated,
             CommitSub, CommitNested, EndRoot, EndInner, Close, Usable, Idle
    <3>3. publish[s].open = NullMark
      BY <3>2 DEF NothingOpen, Publishing
    <3> HIDE DEF e
    <3>4. QED
      BY <1>3, <3>1, <3>3
  <2>3. CASE PublishEnd(s)
    <3>1. publish[s].open = NullMark
      BY <2>3 DEF PublishEnd, NoPublication
    <3>2. "ending" \in Events /\ pc' = [pc EXCEPT ![s] = "ending"] /\ UNCHANGED publish
      BY <2>3 DEF PublishEnd, Events
    <3>3. QED
      BY <1>3, <3>1, <3>2
  <2>4. CASE PublishFails(s) \/ RepublishFails(s)
    BY <1>4, <2>4 DEF PublishFails, RepublishFails, Events
  <2>5. CASE NewContext(s) \/ Crash(s)
    BY <1>4, <2>5 DEF NewContext, Crash, StartAfresh, Events
  <2>6. CASE PublishWrite(s) \/ \E u \in UUID : PublishDelete(s, u) \/ PublishOpen(s, u)
    BY <1>1, <1>5, <2>6 DEF PublishWrite, PublishDelete, PublishOpen
  <2>7. CASE CommitRoot(s) \/ EndRootUncleared(s)
    BY <1>1, <1>6, <2>7 DEF CommitRoot, EndRootUncleared
  <2>8. ASSUME NEW u \in UUID,
               \/ \E c \in Content : SetContent(s, u, c)
               \/ DeleteContent(s, u) \/ DeleteBlob(s, u) \/ PropagateDelete(s, u)
        PROVE  UNCHANGED <<pc, publish>>
    BY <2>8 DEF SetContent, DeleteContent, DeleteBlob, PropagateDelete
  <2>9. CASE BeginNested(s) \/ BeginSub(s)
    BY <2>1, <2>9 DEF BeginNested, BeginSub
  <2>10. QED
    BY <2>1, <2>2, <2>3, <2>4, <2>5, <2>6, <2>7, <2>8, <2>9 DEF Flush, Publish, End
<1>8. QED
  BY <1>2, <1>7

LEMMA Invariant == Spec => []IndInv
<1>1. Init => NothingOpen
  BY DEF Init, NothingOpen, NoPublication
<1>2. QED
  BY <1>1, InitInvariant, StepInvariant, NothingStaysOpen, PTL DEF Spec

(***************************************************************************)
(* Type correctness: in particular a file is being written only if it is   *)
(* still to be written, and after every delete; it never stays open.       *)
(***************************************************************************)
THEOREM TypeCorrect == Spec => []TypeOK
<1>1. IndInv => TypeOK
  BY DEF IndInv
<1>2. QED
  BY <1>1, Invariant, PTL

(***************************************************************************)
(* However deep the savepoints and subtransactions, and whatever fails, no *)
(* RepositoryTransaction has a uuid both to write and to delete, or one to *)
(* write without its file: the assertion in get() holds.                   *)
(***************************************************************************)
THEOREM TransactionsStayWellFormed == Spec => []TransactionsWellFormed
<1>1. IndInv => TransactionsWellFormed
  <2> SUFFICES ASSUME IndInv, NEW s \in Session, NEW i \in DOMAIN rt[s]
               PROVE  WellFormed(rt[s][i])
    BY DEF TransactionsWellFormed
  <2>1. i \in 1 .. Len(rt[s])
    BY SessionFacts, LenProperties
  <2>2. QED
    BY <2>1, SessionFacts DEF SessionInv, ChainShape
<1>2. QED
  BY <1>1, Invariant, PTL

(***************************************************************************)
(* The RepositoryTransactions always mirror the session's transactions,    *)
(* and merging or reading never meets a cleared parent.                    *)
(***************************************************************************)
THEOREM ParentsAreNeverCleared == Spec => []NoClearedParent
<1>1. IndInv => NoClearedParent
  <2> SUFFICES ASSUME IndInv, NEW s \in Session
               PROVE  /\ Len(rt[s]) = Len(sa[s])
                      /\ \A i \in 1 .. Len(rt[s]) - 1 : ~rt[s][i].cleared
                      /\ pc[s] \in {"idle", "flushing"} => ~Last(rt[s]).cleared
    BY DEF NoClearedParent
  <2>1. QED
    BY SessionFacts DEF SessionInv, ChainShape
<1>2. QED
  BY <1>1, Invariant, PTL

(***************************************************************************)
(* Only a session whose one open transaction is its root writes files: the *)
(* commit of a savepoint or of a subtransaction never reaches the disk.    *)
(***************************************************************************)
THEOREM RootsAlonePublish == Spec => OnlyRootsPublish
<1> DEFINE ByARoot == \E s \in Session : Len(sa[s]) = 1 /\ publish'[s] # publish[s]
<1>1. IndInv /\ [Next]_vars => [files' # files => ByARoot]_vars
  <2> SUFFICES ASSUME IndInv, Next, files' # files PROVE ByARoot
    BY DEF vars
  <2> PICK s \in Session :
        PublishWrite(s) \/ \E u \in UUID : PublishDelete(s, u) \/ PublishOpen(s, u)
    BY DEF Next, SetContent, DeleteContent, DeleteBlob, BeginNested, BeginSub, Flush,
           FlushBegin, PropagateDelete, FlushCommit, FlushFails, Rollback, RollbackTo,
           RollbackDeactivated, CommitSub, CommitNested, CommitRoot, Publish,
           PublishEnd, PublishFails, RepublishFails, End, EndInner, EndRoot,
           EndRootUncleared, Close, NewContext, Crash, StartAfresh
  <2>1. publish[s] \in Publication /\ publish \in [Session -> Publication]
    BY DEF IndInv, TypeOK
  <2>2. Len(sa[s]) = 1
    BY SessionFacts DEF Publishing, SessionInv, PublishWrite, PublishDelete, PublishOpen
  <2>3. publish'[s] # publish[s]
    <3>1. ASSUME NEW u \in UUID, PublishDelete(s, u) PROVE publish'[s] # publish[s]
      <4>1. u \notin publish'[s].deleted /\ u \in publish[s].deleted
        BY <2>1, <3>1 DEF PublishDelete, Publication
      <4>2. QED
        BY <4>1
    <3>2. ASSUME NEW u \in UUID, PublishOpen(s, u) PROVE publish'[s] # publish[s]
      <4>1. publish'[s].open = u /\ publish[s].open = NullMark
        BY <2>1, <3>2 DEF PublishOpen, Publication
      <4>2. QED
        BY <4>1, ConstantsAssumption
    <3>3. CASE PublishWrite(s)
      <4>1. publish'[s].open = NullMark /\ publish[s].open # NullMark
        BY <2>1, <3>3 DEF PublishWrite, Publication
      <4>2. QED
        BY <4>1
    <3>4. QED
      BY <3>1, <3>2, <3>3
  <2>4. QED
    BY <2>2, <2>3
<1>2. QED
  BY <1>1, Invariant, PTL DEF Spec, OnlyRootsPublish

--------------------------------------------------------------------------------
(* What is in the files.                                                   *)

NothingStagedIsLost == Faults \cap {"rollback_staged", "close_staged"} = {}

(***************************************************************************)
(* The last of the first n transactions that knows a uuid says of it what  *)
(* the database transaction does.                                          *)
(***************************************************************************)
Agrees(chain, n, wish) ==
    \A u \in UUID : \A j \in 1 .. n :
        /\ Knows(chain[j], u)
        /\ \A k \in 1 .. n : k > j => ~Knows(chain[k], u)
        => wish[u] = Overlay(chain[j], u)

Recorded(tr, history) ==
    \A u \in UUID : Knows(tr, u) => Overlay(tr, u) \in history[u]

(***************************************************************************)
(* OnlyCommittedContent is about files, which only a commit changes; what  *)
(* it publishes is what the database committed, since at every moment the  *)
(* transactions of a session agree with what it wants, and with what it    *)
(* would want again if it went back to one of its savepoints.              *)
(***************************************************************************)
StatesInOrder(stack) ==
    \A i, j \in 1 .. Len(stack) : i < j =>
        /\ stack[i].state # "COMMITTED"
        /\ stack[i].state = "DEACTIVE" => stack[j].state = "DEACTIVE"

EventFitsState(stack, chain, event) ==
    LET top == stack[Len(stack)]
    IN  /\ event = "flushing" => top.state = "ACTIVE" /\ top.kind = "sub"
        /\ event = "ending" /\ ~chain[Len(stack)].cleared
                => top.state = "DEACTIVE" \/ top.kind = "sub"
        /\ event \in {"publishing", "failed"} => stack[1].state = "COMMITTED"
        /\ stack[1].state = "COMMITTED" => event \notin {"idle", "flushing"}

NothingLeft(stack, chain, event) ==
    /\ \A i \in 1 .. Len(stack) :
            stack[i].state = "DEACTIVE" \/ chain[i].cleared => StagesNothing(chain[i])
    /\ event = "closing" /\ stack[1].state # "COMMITTED"
            => \A i \in 1 .. Len(stack) : StagesNothing(chain[i])

AgreesWithRows(stack, chain, wish) ==
    /\ stack[1].state # "COMMITTED" => Agrees(chain, Len(stack), wish)
    /\ \A i \in 1 .. Len(stack) :
            stack[i].kind = "nested" /\ stack[i].state = "ACTIVE"
                => Agrees(chain, i - 1, stack[i].saved)

PublishesRows(stack, chain, event, pub, history) ==
    /\ stack[1].state = "COMMITTED" \/ event = "republishing"
            => Recorded(chain[1], history)
    /\ IF event \in {"publishing", "republishing"}
       THEN /\ pub.deleted \subseteq chain[1].deleted
            /\ pub.set \subseteq chain[1].set
            /\ pub.open \in pub.set \cup {NullMark}
       ELSE pub.open = NullMark

StagedInv(stack, chain, wish, event, pub, history) ==
    /\ StatesInOrder(stack)
    /\ EventFitsState(stack, chain, event)
    /\ NothingLeft(stack, chain, event)
    /\ AgreesWithRows(stack, chain, wish)
    /\ PublishesRows(stack, chain, event, pub, history)

StagedOf(s) == StagedInv(sa[s], rt[s], want[s], pc[s], publish[s], past)

ContentInv ==
    /\ IndInv
    /\ \A s \in Session : StagedOf(s)
    /\ OnlyCommittedContent

--------------------------------------------------------------------------------
(* Lemmas on what a transaction, and a chain of them, says of a uuid.      *)

\* What a well-formed transaction knows, it deletes or gives a content.
LEMMA OverlayType ==
  ASSUME NEW tr \in RepositoryTransactions, WellFormed(tr), NEW u \in UUID,
         Knows(tr, u)
  PROVE  Overlay(tr, u) \in Cell /\ Overlay(tr, u) # NullMark
  BY SentinelAssumption DEF Knows, Overlay, WellFormed, Cell

\* What stages nothing knows nothing.
LEMMA NothingKnown ==
  ASSUME NEW tr, StagesNothing(tr), NEW u
  PROVE  ~Knows(tr, u)
  BY DEF StagesNothing, Knows

\* New and cleared transactions stage nothing.
LEMMA FreshStagesNothing ==
  StagesNothing(NewTransaction) /\ StagesNothing(ClearedTransaction)
  BY DEF StagesNothing, NewTransaction, ClearedTransaction

\* set() and delete() change what is known of their uuid alone.
LEMMA StagedOverlay ==
  ASSUME NEW tr \in RepositoryTransactions, NEW u \in UUID, NEW c \in Content
  PROVE  /\ Knows(Staged(tr, u, c), u) /\ Overlay(Staged(tr, u, c), u) = c
         /\ \A v \in UUID : v # u =>
                /\ Knows(Staged(tr, u, c), v) = Knows(tr, v)
                /\ Overlay(Staged(tr, u, c), v) = Overlay(tr, v)
  BY DEF Staged, RepositoryTransactions, Knows, Overlay, Cell

LEMMA UnstagedOverlay ==
  ASSUME NEW tr \in RepositoryTransactions, NEW u \in UUID
  PROVE  /\ Knows(Unstaged(tr, u), u) /\ Overlay(Unstaged(tr, u), u) = Absent
         /\ \A v \in UUID : v # u =>
                /\ Knows(Unstaged(tr, u), v) = Knows(tr, v)
                /\ Overlay(Unstaged(tr, u), v) = Overlay(tr, v)
  BY DEF Unstaged, RepositoryTransactions, Knows, Overlay

\* _commit_parent: the child has the last word.
LEMMA MergedOverlay ==
  ASSUME NEW p \in RepositoryTransactions, WellFormed(p),
         NEW c \in RepositoryTransactions, WellFormed(c), NEW u \in UUID
  PROVE  /\ Knows(MergedInto(p, c), u) <=> Knows(p, u) \/ Knows(c, u)
         /\ Knows(c, u) => Overlay(MergedInto(p, c), u) = Overlay(c, u)
         /\ ~Knows(c, u) => Overlay(MergedInto(p, c), u) = Overlay(p, u)
  BY DEF MergedInto, RepositoryTransactions, WellFormed, Knows, Overlay

\* Merging what stages nothing leaves the parent staging what it did.
LEMMA MergedNothing ==
  ASSUME NEW p \in RepositoryTransactions, StagesNothing(p),
         NEW c \in RepositoryTransactions, StagesNothing(c)
  PROVE  StagesNothing(MergedInto(p, c))
  BY DEF MergedInto, RepositoryTransactions, StagesNothing

\* Only what is known by the first n transactions matters.
LEMMA AgreesSame ==
  ASSUME NEW chain, NEW other, NEW n \in Nat, NEW wish, Agrees(chain, n, wish),
         \A j \in 1 .. n : other[j] = chain[j]
  PROVE  Agrees(other, n, wish)
  BY DEF Agrees

\* Transactions that stage nothing, on top, change nothing.
LEMMA AgreesWithEmptyOnTop ==
  ASSUME NEW chain, NEW m \in Nat, NEW n \in Nat, m <= n, NEW wish,
         \A j \in m + 1 .. n : StagesNothing(chain[j])
  PROVE  Agrees(chain, n, wish) <=> Agrees(chain, m, wish)
<1>1. \A j \in m + 1 .. n, u \in UUID : ~Knows(chain[j], u)
  BY NothingKnown
<1>2. \A j : j \in 1 .. n <=> j \in 1 .. m \/ j \in m + 1 .. n
  OBVIOUS
<1>3. ASSUME Agrees(chain, n, wish) PROVE Agrees(chain, m, wish)
  BY <1>1, <1>2, <1>3 DEF Agrees
<1>4. ASSUME Agrees(chain, m, wish) PROVE Agrees(chain, n, wish)
  BY <1>1, <1>2, <1>4 DEF Agrees
<1>5. QED
  BY <1>3, <1>4

\* The last transaction is given a new word on one uuid.
LEMMA AgreesWithNewWord ==
  ASSUME NEW chain, NEW n \in Nat \ {0}, NEW wish \in [UUID -> Wish],
         Agrees(chain, n, wish),
         NEW other, \A j \in 1 .. n - 1 : other[j] = chain[j],
         NEW u \in UUID, NEW c \in Cell,
         Knows(other[n], u), Overlay(other[n], u) = c,
         \A v \in UUID : v # u =>
            /\ Knows(other[n], v) = Knows(chain[n], v)
            /\ Overlay(other[n], v) = Overlay(chain[n], v)
  PROVE  Agrees(other, n, [wish EXCEPT ![u] = c])
<1> DEFINE new == [wish EXCEPT ![u] = c]
<1>1. \A j : j \in 1 .. n <=> j \in 1 .. n - 1 \/ j = n
  OBVIOUS
<1>2. new[u] = c /\ \A v \in UUID : v # u => new[v] = wish[v]
  OBVIOUS
<1> HIDE DEF new
<1>3. ASSUME NEW v \in UUID, NEW j \in 1 .. n, Knows(other[j], v),
             \A k \in 1 .. n : k > j => ~Knows(other[k], v)
      PROVE  new[v] = Overlay(other[j], v)
  <2>1. CASE v = u
    <3>1. j = n
      BY <1>3, <2>1
    <3>2. QED
      BY <1>2, <2>1, <3>1
  <2>2. CASE v # u
    <3>1. \A k \in 1 .. n : Knows(other[k], v) = Knows(chain[k], v)
                            /\ Overlay(other[k], v) = Overlay(chain[k], v)
      BY <1>1, <2>2
    <3>2. QED
      BY <1>2, <1>3, <2>2, <3>1 DEF Agrees
  <2>3. QED
    BY <2>1, <2>2
<1>4. QED
  BY <1>3 DEF Agrees, new

\* The last two transactions become one.
LEMMA AgreesMerged ==
  ASSUME NEW chain, NEW n \in Nat, n > 1, NEW wish, Agrees(chain, n, wish),
         chain[n - 1] \in RepositoryTransactions, WellFormed(chain[n - 1]),
         chain[n] \in RepositoryTransactions, WellFormed(chain[n]),
         NEW other, \A j \in 1 .. n - 2 : other[j] = chain[j],
         other[n - 1] = MergedInto(chain[n - 1], chain[n])
  PROVE  Agrees(other, n - 1, wish)
<1>1. /\ \A j : j \in 1 .. n - 1 <=> j \in 1 .. n - 2 \/ j = n - 1
      /\ \A j : j \in 1 .. n <=> j \in 1 .. n - 2 \/ j = n - 1 \/ j = n
      /\ n - 1 \in 1 .. n /\ n \in 1 .. n
  OBVIOUS
<1>2. SUFFICES ASSUME NEW u \in UUID, NEW j \in 1 .. n - 1, Knows(other[j], u),
                      \A k \in 1 .. n - 1 : k > j => ~Knows(other[k], u)
               PROVE  wish[u] = Overlay(other[j], u)
  BY DEF Agrees
<1>3. /\ Knows(other[n - 1], u) <=> Knows(chain[n - 1], u) \/ Knows(chain[n], u)
      /\ Knows(chain[n], u) => Overlay(other[n - 1], u) = Overlay(chain[n], u)
      /\ ~Knows(chain[n], u) => Overlay(other[n - 1], u) = Overlay(chain[n - 1], u)
  BY MergedOverlay
<1>4. CASE j = n - 1 /\ Knows(chain[n], u)
  <2>1. wish[u] = Overlay(chain[n], u)
    BY <1>1, <1>4 DEF Agrees
  <2>2. QED
    BY <1>3, <1>4, <2>1
<1>5. CASE j = n - 1 /\ ~Knows(chain[n], u)
  <2>1. Knows(chain[n - 1], u)
    BY <1>2, <1>3, <1>5
  <2>2. \A k \in 1 .. n : k > n - 1 => ~Knows(chain[k], u)
    BY <1>5
  <2>3. wish[u] = Overlay(chain[n - 1], u)
    BY <1>1, <2>1, <2>2 DEF Agrees
  <2>4. QED
    BY <1>3, <1>5, <2>3
<1>6. CASE j \in 1 .. n - 2
  <2>1. ~Knows(other[n - 1], u)
    BY <1>1, <1>2, <1>6
  <2>2. \A k \in 1 .. n : k > j => ~Knows(chain[k], u)
    BY <1>1, <1>2, <1>3, <2>1
  <2>3. QED
    BY <1>1, <1>2, <1>6, <2>2 DEF Agrees
<1>7. QED
  BY <1>1, <1>4, <1>5, <1>6

\* What get() finds is the word of the last transaction that knows the uuid.
LEMMA LookupIsLastWord ==
  ASSUME NEW chain \in Seq(RepositoryTransactions), NEW u,
         NEW j \in 1 .. Len(chain), Knows(chain[j], u),
         \A k \in 1 .. Len(chain) : k > j => ~Knows(chain[k], u)
  PROVE  Lookup(chain, u) = Overlay(chain[j], u)
<1> DEFINE IsLast(i) ==
        /\ Knows(chain[i], u)
        /\ \A k \in DOMAIN chain : k > i => ~Knows(chain[k], u)
<1>1. DOMAIN chain = 1 .. Len(chain) /\ Len(chain) \in Nat
  BY LenProperties
<1>2. j \in DOMAIN chain /\ IsLast(j)
  BY <1>1
<1>3. \A i \in DOMAIN chain : IsLast(i) => i = j
  BY <1>1, <1>2
<1>4. (CHOOSE i \in DOMAIN chain : IsLast(i)) = j
  BY <1>2, <1>3
<1>5. ~\A i \in DOMAIN chain : ~Knows(chain[i], u)
  BY <1>2
<1>6. QED
  BY <1>4, <1>5 DEF Lookup

\* The transactions after commit() of the last one.
LEMMA MergedChain ==
  ASSUME NEW chain \in Seq(RepositoryTransactions), Len(chain) > 1,
         ChainShape(chain)
  PROVE  LET n == Len(chain)
             other == CommittedToParent(chain)
         IN  /\ Len(other) = n
             /\ \A i \in 1 .. n - 2 : other[i] = chain[i]
             /\ other[n - 1] = MergedInto(chain[n - 1], chain[n])
             /\ other[n] = ClearedTransaction
<1> DEFINE n == Len(chain)
           merged == MergedInto(chain[n - 1], chain[n])
           half == [chain EXCEPT ![n - 1] = merged]
<1>0. n \in Nat /\ n > 1
  BY LenProperties
<1>1. merged \in RepositoryTransactions
  <2>1. chain[n - 1] \in RepositoryTransactions /\ chain[n] \in RepositoryTransactions
    BY <1>0, ElementOfSeq
  <2>2. WellFormed(chain[n - 1]) /\ WellFormed(chain[n])
    BY <1>0 DEF ChainShape
  <2>3. QED
    BY <2>1, <2>2, MergedProperties
<1>2. /\ half \in Seq(RepositoryTransactions)
      /\ Len(half) = n
      /\ \A i \in 1 .. n : half[i] = IF i = n - 1 THEN merged ELSE chain[i]
  BY <1>0, <1>1, ExceptSeq
<1>3. CommittedToParent(chain) = [half EXCEPT ![n] = ClearedTransaction]
  BY DEF CommittedToParent
<1>4. /\ Len(CommittedToParent(chain)) = n
      /\ \A i \in 1 .. n : CommittedToParent(chain)[i] =
                            IF i = n THEN ClearedTransaction ELSE half[i]
  BY <1>0, <1>2, <1>3, FreshTransactions, ExceptSeq
<1> HIDE DEF merged, half
<1>5. /\ \A i \in 1 .. n - 2 : CommittedToParent(chain)[i] = chain[i]
      /\ CommittedToParent(chain)[n - 1] = merged
      /\ CommittedToParent(chain)[n] = ClearedTransaction
  BY <1>0, <1>2, <1>4
<1>6. QED
  BY <1>4, <1>5 DEF merged

--------------------------------------------------------------------------------
(* The invariant, one action at a time.                                    *)

\* What the invariant says of one session.
LEMMA ContentFacts ==
  ASSUME ContentInv, NEW s \in Session
  PROVE  /\ IndInv /\ TypeOK
         /\ StagedOf(s)
         /\ Len(sa[s]) \in Nat \ {0}
         /\ Len(rt[s]) = Len(sa[s])
         /\ Top(s) = sa[s][Len(sa[s])]
         /\ Last(rt[s]) = rt[s][Len(sa[s])]
         /\ \A i \in 1 .. Len(sa[s]) :
                /\ sa[s][i] \in SessionTransactions
                /\ rt[s][i] \in RepositoryTransactions
                /\ WellFormed(rt[s][i])
         /\ \A i \in 1 .. Len(sa[s]) - 1 : ~rt[s][i].cleared
         /\ pc[s] # "ending" => ~rt[s][Len(sa[s])].cleared
         /\ sa[s][1].kind = "root"
         /\ \A i \in 2 .. Len(sa[s]) : sa[s][i].kind # "root"
         /\ want[s] \in [UUID -> Wish]
<1>1. IndInv /\ TypeOK /\ StagedOf(s)
  BY DEF ContentInv, IndInv
<1>2. /\ SessionInv(sa[s], rt[s], pc[s])
      /\ sa[s] \in Seq(SessionTransactions)
      /\ rt[s] \in Seq(RepositoryTransactions)
      /\ Len(rt[s]) \in Nat
      /\ Len(rt[s]) > 0
      /\ Len(rt[s]) = Len(sa[s])
      /\ Last(rt[s]) = rt[s][Len(rt[s])]
  BY <1>1, SessionFacts
<1>3. Top(s) = sa[s][Len(sa[s])]
  BY DEF Top, Last
<1>4. \A i \in 1 .. Len(sa[s]) :
                /\ sa[s][i] \in SessionTransactions
                /\ rt[s][i] \in RepositoryTransactions
                /\ WellFormed(rt[s][i])
  BY <1>2, ElementOfSeq DEF SessionInv, ChainShape
<1>5. /\ \A i \in 1 .. Len(sa[s]) - 1 : ~rt[s][i].cleared
      /\ pc[s] # "ending" => ~rt[s][Len(sa[s])].cleared
      /\ sa[s][1].kind = "root"
      /\ \A i \in 2 .. Len(sa[s]) : sa[s][i].kind # "root"
  BY <1>2 DEF SessionInv, ChainShape, StackShape
<1>6. want[s] \in [UUID -> Wish]
  BY <1>1 DEF TypeOK
<1>7. QED
  BY <1>1, <1>2, <1>3, <1>4, <1>5, <1>6

\* While the innermost transaction is active, they all are.
LEMMA AllActive ==
  ASSUME ContentInv, NEW s \in Session, Top(s).state = "ACTIVE"
  PROVE  \A i \in 1 .. Len(sa[s]) : sa[s][i].state = "ACTIVE"
<1>1. \A i \in 1 .. Len(sa[s]) : i < Len(sa[s]) \/ i = Len(sa[s])
  BY ContentFacts
<1>2. \A i \in 1 .. Len(sa[s]) : sa[s][i].state \in {"ACTIVE", "DEACTIVE", "COMMITTED"}
  BY ContentFacts DEF SessionTransactions
<1>3. Len(sa[s]) \in 1 .. Len(sa[s]) /\ StatesInOrder(sa[s])
  BY ContentFacts DEF StagedOf, StagedInv
<1>4. sa[s][Len(sa[s])].state = "ACTIVE"
  BY ContentFacts
<1>5. QED
  BY <1>1, <1>2, <1>3, <1>4 DEF StatesInOrder

\* A step of one session leaves what the others have staged alone.
LEMMA ContentStepOfOne ==
  ASSUME ContentInv, NEW s \in Session, IndInv', StagedOf(s)',
         OnlyCommittedContent',
         \A u \in UUID : past[u] \subseteq past'[u],
         \A t \in Session \ {s} :
            /\ sa'[t] = sa[t] /\ rt'[t] = rt[t] /\ want'[t] = want[t]
            /\ pc'[t] = pc[t] /\ publish'[t] = publish[t]
  PROVE  ContentInv'
<1>1. ASSUME NEW t \in Session \ {s}
      PROVE  StagedOf(t)'
  <2>1. StagedOf(t)
    BY DEF ContentInv
  <2>2. Recorded(rt[t][1], past) => Recorded(rt[t][1], past')
    BY DEF Recorded
  <2>3. PublishesRows(sa[t], rt[t], pc[t], publish[t], past)
            => PublishesRows(sa[t], rt[t], pc[t], publish[t], past')
    BY <2>2 DEF PublishesRows
  <2>4. QED
    BY <2>1, <2>3 DEF StagedOf, StagedInv
<1>2. QED
  BY <1>1 DEF ContentInv

\* So is a step that changes no file and commits nothing.
LEMMA PrivateStep ==
  ASSUME ContentInv, NEW s \in Session, IndInv', StagedOf(s)',
         UNCHANGED <<files, past>>,
         \A t \in Session \ {s} :
            /\ sa'[t] = sa[t] /\ rt'[t] = rt[t] /\ want'[t] = want[t]
            /\ pc'[t] = pc[t] /\ publish'[t] = publish[t]
  PROVE  ContentInv'
<1>1. OnlyCommittedContent'
  BY DEF ContentInv, OnlyCommittedContent
<1>2. QED
  BY <1>1, ContentStepOfOne

\* The current transaction is given a word, and the row the same.
LEMMA NewWordStep ==
  ASSUME ContentInv, NEW s \in Session, IndInv',
         pc[s] \in {"idle", "flushing"}, Top(s).state = "ACTIVE",
         NEW u \in UUID, NEW c \in Cell,
         NEW tr \in RepositoryTransactions, WellFormed(tr), ~tr.cleared,
         Knows(tr, u), Overlay(tr, u) = c,
         \A v \in UUID : v # u =>
            /\ Knows(tr, v) = Knows(Last(rt[s]), v)
            /\ Overlay(tr, v) = Overlay(Last(rt[s]), v),
         rt' = [rt EXCEPT ![s][Len(rt[s])] = tr],
         want' = [want EXCEPT ![s][u] = c],
         UNCHANGED <<files, past, sa, pc, publish>>
  PROVE  ContentInv'
<1> DEFINE n == Len(sa[s])
           chain == [rt[s] EXCEPT ![n] = tr]
           wish == [want[s] EXCEPT ![u] = c]
<1>1. /\ rt'[s] = chain /\ want'[s] = wish
      /\ \A t \in Session \ {s} : rt'[t] = rt[t] /\ want'[t] = want[t]
  BY ContentFacts DEF TypeOK
<1>2. chain[n] = tr /\ \A i \in 1 .. n - 1 : chain[i] = rt[s][i]
  <2>1. rt[s] \in Seq(RepositoryTransactions) /\ n \in 1 .. Len(rt[s])
    BY ContentFacts DEF TypeOK
  <2>2. \A i \in 1 .. n : chain[i] = IF i = n THEN tr ELSE rt[s][i]
    BY <2>1, ContentFacts, ExceptSeq
  <2>3. QED
    BY <2>2, ContentFacts
<1> HIDE DEF chain, wish
<1>3. \A i \in 1 .. n : sa[s][i].state = "ACTIVE"
  BY AllActive
<1>4. /\ n \in Nat \ {0} /\ 1 \in 1 .. n
      /\ \A i : i \in 1 .. n <=> i \in 1 .. n - 1 \/ i = n
      /\ StagedInv(sa[s], rt[s], want[s], pc[s], publish[s], past)
  BY ContentFacts DEF StagedOf
<1>5. NothingLeft(sa[s], chain, pc[s])
  BY <1>2, <1>3, <1>4 DEF StagedInv, NothingLeft
<1>6. AgreesWithRows(sa[s], chain, wish)
  <2>1. Agrees(rt[s], n, want[s])
    BY <1>3, <1>4 DEF StagedInv, AgreesWithRows
  <2>2. Agrees(chain, n, wish)
    <3>1. /\ want[s] \in [UUID -> Wish] /\ Last(rt[s]) = rt[s][n]
          /\ n \in Nat \ {0}
      BY ContentFacts
    <3>2. /\ Knows(chain[n], u) /\ Overlay(chain[n], u) = c
          /\ \A v \in UUID : v # u =>
                /\ Knows(chain[n], v) = Knows(rt[s][n], v)
                /\ Overlay(chain[n], v) = Overlay(rt[s][n], v)
      BY <1>2, <3>1
    <3> HIDE DEF n
    <3>3. QED
      BY <1>2, <2>1, <3>1, <3>2, AgreesWithNewWord DEF wish
  <2>3. ASSUME NEW i \in 1 .. n, sa[s][i].kind = "nested"
        PROVE  Agrees(chain, i - 1, sa[s][i].saved)
    <3>1. Agrees(rt[s], i - 1, sa[s][i].saved)
      BY <1>3, <1>4, <2>3 DEF StagedInv, AgreesWithRows
    <3>2. i - 1 \in Nat /\ \A j \in 1 .. i - 1 : chain[j] = rt[s][j]
      BY <1>2, <1>4
    <3>3. QED
      BY <3>1, <3>2, AgreesSame
  <2>4. QED
    BY <2>2, <2>3 DEF AgreesWithRows
<1>7. PublishesRows(sa[s], chain, pc[s], publish[s], past)
  BY <1>3, <1>4 DEF StagedInv, PublishesRows
<1>8. EventFitsState(sa[s], chain, pc[s])
  BY <1>4 DEF StagedInv, EventFitsState
<1>9. StagedOf(s)'
  BY <1>1, <1>4, <1>5, <1>6, <1>7, <1>8 DEF StagedOf, StagedInv
<1>10. QED
  BY <1>1, <1>9, PrivateStep

LEMMA SetContentRows ==
  ASSUME ContentInv, NEW s \in Session, NEW u \in UUID, NEW c \in Content,
         SetContent(s, u, c), IndInv'
  PROVE  ContentInv'
<1> DEFINE tr == Staged(Last(rt[s]), u, c)
<1>1. /\ Last(rt[s]) \in RepositoryTransactions /\ WellFormed(Last(rt[s]))
      /\ ~Last(rt[s]).cleared
      /\ pc[s] = "idle" /\ Top(s).state = "ACTIVE"
  BY ContentFacts DEF SetContent, Usable, Idle
<1>2. /\ tr \in RepositoryTransactions /\ WellFormed(tr) /\ ~tr.cleared
      /\ Knows(tr, u) /\ Overlay(tr, u) = c
      /\ \A v \in UUID : v # u =>
            /\ Knows(tr, v) = Knows(Last(rt[s]), v)
            /\ Overlay(tr, v) = Overlay(Last(rt[s]), v)
  BY <1>1, StagedProperties, StagedOverlay
<1>3. /\ rt' = [rt EXCEPT ![s][Len(rt[s])] = tr]
      /\ want' = [want EXCEPT ![s][u] = c]
      /\ UNCHANGED <<files, past, sa, pc, publish>>
  BY DEF SetContent, dbVars
<1>4. c \in Cell
  BY DEF Cell
<1> HIDE DEF tr
<1>5. QED
  BY <1>1, <1>2, <1>3, <1>4, NewWordStep

\* delete(), by the user or for a deleted blob in a flush.
LEMMA DeleteContentRows ==
  ASSUME ContentInv, NEW s \in Session, NEW u \in UUID, IndInv',
         pc[s] \in {"idle", "flushing"}, Top(s).state = "ACTIVE",
         rt' = [rt EXCEPT ![s][Len(rt[s])] = Unstaged(Last(rt[s]), u)],
         want' = [want EXCEPT ![s][u] = Absent],
         UNCHANGED <<files, past, sa, pc, publish>>
  PROVE  ContentInv'
<1> DEFINE tr == Unstaged(Last(rt[s]), u)
<1>1. /\ Last(rt[s]) \in RepositoryTransactions /\ WellFormed(Last(rt[s]))
      /\ ~Last(rt[s]).cleared
  BY ContentFacts
<1>2. /\ tr \in RepositoryTransactions /\ WellFormed(tr) /\ ~tr.cleared
      /\ Knows(tr, u) /\ Overlay(tr, u) = Absent
      /\ \A v \in UUID : v # u =>
            /\ Knows(tr, v) = Knows(Last(rt[s]), v)
            /\ Overlay(tr, v) = Overlay(Last(rt[s]), v)
  BY <1>1, UnstagedProperties, UnstagedOverlay
<1>3. Absent \in Cell /\ rt' = [rt EXCEPT ![s][Len(rt[s])] = tr]
  BY DEF Cell
<1> HIDE DEF tr
<1>4. QED
  BY <1>2, <1>3, NewWordStep

\* In a flush the innermost transaction is its own, and active.
LEMMA FlushingFacts ==
  ASSUME ContentInv, NEW s \in Session, pc[s] = "flushing"
  PROVE  Top(s).state = "ACTIVE" /\ Top(s).kind = "sub" /\ Len(sa[s]) > 1
<1>1. EventFitsState(sa[s], rt[s], pc[s])
  BY ContentFacts DEF StagedOf, StagedInv
<1>2. Top(s).state = "ACTIVE" /\ Top(s).kind = "sub"
  BY <1>1, ContentFacts DEF EventFitsState
<1>3. QED
  BY <1>2, ContentFacts

(***************************************************************************)
(* A blob that has no file is deleted: nothing is staged, and whatever was *)
(* said of it said the same.                                               *)
(***************************************************************************)
LEMMA AlreadyAbsentRows ==
  ASSUME ContentInv, NEW s \in Session, NEW u \in UUID, IndInv',
         pc[s] = "flushing", Get(s, u) = Absent,
         want' = [want EXCEPT ![s][u] = Absent],
         UNCHANGED <<files, past, sa, rt, pc, publish>>
  PROVE  ContentInv'
<1> DEFINE n == Len(sa[s])
           wish == [want[s] EXCEPT ![u] = Absent]
<1>1. /\ want'[s] = wish
      /\ \A t \in Session \ {s} : want'[t] = want[t]
      /\ wish[u] = Absent /\ \A v \in UUID : v # u => wish[v] = want[s][v]
  BY ContentFacts DEF TypeOK
<1> HIDE DEF wish
<1>2. StagedInv(sa[s], rt[s], want[s], pc[s], publish[s], past)
  BY ContentFacts DEF StagedOf
<1>3. n \in Nat \ {0} /\ Len(rt[s]) = n /\ rt[s] \in Seq(RepositoryTransactions)
  BY ContentFacts DEF TypeOK
<1>4. sa[s][1].state = "ACTIVE"
  BY <1>3, FlushingFacts, AllActive
<1>5. Agrees(rt[s], n, want[s])
  BY <1>2, <1>4 DEF StagedInv, AgreesWithRows
<1>6. ASSUME NEW v \in UUID, NEW j \in 1 .. n, Knows(rt[s][j], v),
             \A k \in 1 .. n : k > j => ~Knows(rt[s][k], v)
      PROVE  wish[v] = Overlay(rt[s][j], v)
  <2>1. CASE v # u
    BY <1>1, <1>5, <1>6, <2>1 DEF Agrees
  <2>2. CASE v = u
    <3>1. Lookup(rt[s], u) = Overlay(rt[s][j], u)
      <4>1. /\ j \in 1 .. Len(rt[s]) /\ Knows(rt[s][j], u)
            /\ \A k \in 1 .. Len(rt[s]) : k > j => ~Knows(rt[s][k], u)
        BY <1>3, <1>6, <2>2
      <4>2. QED
        BY <1>3, <4>1, LookupIsLastWord
    <3>2. Overlay(rt[s][j], u) # NullMark
      BY <1>6, <2>2, ContentFacts, OverlayType
    <3>3. QED
      BY <1>1, <2>2, <3>1, <3>2 DEF Get
  <2>3. QED
    BY <2>1, <2>2
<1>7. Agrees(rt[s], n, wish)
  BY <1>6 DEF Agrees
<1>8. AgreesWithRows(sa[s], rt[s], wish)
  BY <1>2, <1>7 DEF StagedInv, AgreesWithRows
<1>9. StagedOf(s)'
  BY <1>1, <1>2, <1>8 DEF StagedOf, StagedInv
<1>10. QED
  BY <1>1, <1>9, PrivateStep

\* A transaction is opened: it says nothing yet.
LEMMA OpenRows ==
  ASSUME ContentInv, NEW s \in Session, IndInv', Usable(s),
         NEW frame \in SessionTransactions, frame.state = "ACTIVE",
         \/ frame.kind = "nested" /\ frame.saved = want[s]
         \/ frame.kind = "sub",
         NEW event \in {"idle", "flushing"},
         event = "flushing" => frame.kind = "sub",
         sa' = [sa EXCEPT ![s] = Append(@, frame)],
         CreateTransaction(s),
         pc' = [pc EXCEPT ![s] = event],
         UNCHANGED <<files, past, want, publish>>
  PROVE  ContentInv'
<1> DEFINE n == Len(sa[s])
           stack == Append(sa[s], frame)
           chain == Append(rt[s], NewTransaction)
<1>1. /\ sa'[s] = stack /\ rt'[s] = chain /\ pc'[s] = event
      /\ \A t \in Session \ {s} :
            sa'[t] = sa[t] /\ rt'[t] = rt[t] /\ pc'[t] = pc[t]
  BY ContentFacts DEF TypeOK, CreateTransaction
<1>2. /\ Len(stack) = n + 1
      /\ \A i \in 1 .. n : stack[i] = sa[s][i]
      /\ stack[n + 1] = frame
      /\ \A i \in 1 .. n : chain[i] = rt[s][i]
      /\ chain[n + 1] = NewTransaction
  <2>1. /\ sa[s] \in Seq(SessionTransactions) /\ rt[s] \in Seq(RepositoryTransactions)
        /\ Len(rt[s]) = n
    BY ContentFacts DEF TypeOK
  <2>2. /\ Len(stack) = n + 1
        /\ \A i \in 1 .. n : stack[i] = sa[s][i]
        /\ stack[n + 1] = frame
    BY <2>1, AppendProperties
  <2>3. /\ \A i \in 1 .. n : chain[i] = rt[s][i]
        /\ chain[n + 1] = NewTransaction
    <3> HIDE DEF n
    <3>1. QED
      BY <2>1, FreshTransactions, AppendProperties
  <2>4. QED
    BY <2>2, <2>3
<1> HIDE DEF stack, chain
<1>3. /\ n \in Nat \ {0} /\ 1 \in 1 .. n
      /\ \A i : i \in 1 .. n + 1 <=> i \in 1 .. n \/ i = n + 1
      /\ \A i \in 1 .. n : i < n + 1 /\ ~(n + 1 < i)
      /\ StagedInv(sa[s], rt[s], want[s], pc[s], publish[s], past)
  BY ContentFacts DEF StagedOf
<1>4. \A i \in 1 .. n : sa[s][i].state = "ACTIVE"
  BY AllActive DEF Usable
<1>5. StatesInOrder(stack)
  BY <1>2, <1>3, <1>4 DEF StatesInOrder
<1>6. EventFitsState(stack, chain, event)
  BY <1>2, <1>3, <1>4 DEF EventFitsState
<1>7. NothingLeft(stack, chain, event)
  BY <1>2, <1>3, <1>4, FreshTransactions DEF StagedInv, NothingLeft
<1>8. AgreesWithRows(stack, chain, want[s])
  <2>1. Agrees(rt[s], n, want[s])
    BY <1>3, <1>4 DEF StagedInv, AgreesWithRows
  <2>2. Agrees(chain, n, want[s])
    BY <1>2, <1>3, <2>1, AgreesSame
  <2>3. Agrees(chain, n + 1, want[s])
    <3>1. \A j \in n + 1 .. n + 1 : StagesNothing(chain[j])
      BY <1>2, <1>3, FreshStagesNothing
    <3>2. n \in Nat /\ n + 1 \in Nat /\ n <= n + 1
      BY <1>3
    <3> HIDE DEF n
    <3>3. QED
      BY <2>2, <3>1, <3>2, AgreesWithEmptyOnTop
  <2>4. ASSUME NEW i \in 1 .. n, sa[s][i].kind = "nested"
        PROVE  Agrees(chain, i - 1, sa[s][i].saved)
    <3>1. Agrees(rt[s], i - 1, sa[s][i].saved)
      BY <1>3, <1>4, <2>4 DEF StagedInv, AgreesWithRows
    <3>2. i - 1 \in Nat /\ \A j \in 1 .. i - 1 : chain[j] = rt[s][j]
      BY <1>2, <1>3
    <3>3. QED
      BY <3>1, <3>2, AgreesSame
  <2>5. n + 1 - 1 = n
    BY <1>3
  <2>6. QED
    BY <1>2, <1>3, <2>2, <2>3, <2>4, <2>5 DEF AgreesWithRows
<1>9. PublishesRows(stack, chain, event, publish[s], past)
  <2>1. pc[s] = "idle"
    BY DEF Usable, Idle
  <2>2. QED
    BY <1>2, <1>3, <1>4, <2>1 DEF StagedInv, PublishesRows
<1>10. StagedOf(s)'
  BY <1>1, <1>5, <1>6, <1>7, <1>8, <1>9 DEF StagedOf, StagedInv
<1>11. QED
  BY <1>1, <1>10, PrivateStep

(***************************************************************************)
(* A flush ends or a savepoint is released: the parent says what both did. *)
(***************************************************************************)
LEMMA MergeRows ==
  ASSUME ContentInv, NEW s \in Session, IndInv',
         pc[s] \in {"idle", "flushing"}, Top(s).state = "ACTIVE", Len(sa[s]) > 1,
         Len(sa'[s]) = Len(sa[s]),
         \A i \in 1 .. Len(sa[s]) - 1 : sa'[s][i] = sa[s][i],
         \/ sa'[s][Len(sa[s])].state = "COMMITTED"
         \/ /\ sa'[s][Len(sa[s])].state = "ACTIVE"
            /\ sa'[s][Len(sa[s])].kind = "sub",
         \A t \in Session \ {s} : sa'[t] = sa[t],
         MergeTop(s),
         pc' = [pc EXCEPT ![s] = "ending"],
         UNCHANGED <<files, past, want, publish>>
  PROVE  ContentInv'
<1> DEFINE n == Len(sa[s])
           stack == sa'[s]
           chain == CommittedToParent(rt[s])
<1>1. /\ rt'[s] = chain /\ pc'[s] = "ending"
      /\ \A t \in Session \ {s} : rt'[t] = rt[t] /\ pc'[t] = pc[t]
  BY ContentFacts DEF TypeOK, MergeTop
<1>2. /\ Len(chain) = n
      /\ \A i \in 1 .. n - 2 : chain[i] = rt[s][i]
      /\ chain[n - 1] = MergedInto(rt[s][n - 1], rt[s][n])
      /\ chain[n] = ClearedTransaction
  <2>1. /\ rt[s] \in Seq(RepositoryTransactions) /\ Len(rt[s]) = n
        /\ ChainShape(rt[s])
    BY ContentFacts, SessionFacts DEF SessionInv
  <2>2. QED
    BY <2>1, MergedChain
<1> HIDE DEF chain
<1>3. /\ n \in Nat /\ n > 1 /\ 1 \in 1 .. n - 1
      /\ \A i : i \in 1 .. n <=> i \in 1 .. n - 1 \/ i = n
      /\ \A i : i \in 1 .. n - 1 <=> i \in 1 .. n - 2 \/ i = n - 1
      /\ StagedInv(sa[s], rt[s], want[s], pc[s], publish[s], past)
  BY ContentFacts DEF StagedOf
<1>4. \A i \in 1 .. n : sa[s][i].state = "ACTIVE"
  BY AllActive
<1>5. \A i \in 1 .. n - 1 : stack[i].state = "ACTIVE" /\ stack[i] = sa[s][i]
  BY <1>3, <1>4
<1>6. StatesInOrder(stack)
  BY <1>3, <1>5 DEF StatesInOrder
<1>7. ClearedTransaction.cleared /\ StagesNothing(ClearedTransaction)
  BY FreshTransactions, FreshStagesNothing
<1>8. EventFitsState(stack, chain, "ending")
  BY <1>2, <1>3, <1>5, <1>7 DEF EventFitsState
<1>9. /\ rt[s][n - 1] \in RepositoryTransactions /\ WellFormed(rt[s][n - 1])
      /\ rt[s][n] \in RepositoryTransactions /\ WellFormed(rt[s][n])
      /\ ~rt[s][n - 1].cleared
  BY <1>3, ContentFacts
<1>10. NothingLeft(stack, chain, "ending")
  <2>1. ~chain[n - 1].cleared
    BY <1>2, <1>9, MergedProperties
  <2>2. \A i \in 1 .. n - 2 : ~chain[i].cleared
    BY <1>2, <1>3, ContentFacts
  <2>3. QED
    BY <1>2, <1>3, <1>5, <1>7, <2>1, <2>2 DEF NothingLeft
<1>11. AgreesWithRows(stack, chain, want[s])
  <2>1. Agrees(rt[s], n, want[s])
    BY <1>3, <1>4 DEF StagedInv, AgreesWithRows
  <2>2. Agrees(chain, n - 1, want[s])
    <3> HIDE DEF n
    <3>1. QED
      BY <1>2, <1>3, <1>9, <2>1, AgreesMerged
  <2>3. Agrees(chain, n, want[s])
    <3>1. \A j \in n - 1 + 1 .. n : StagesNothing(chain[j])
      BY <1>2, <1>3, <1>7
    <3>2. n - 1 \in Nat /\ n - 1 <= n
      BY <1>3
    <3> HIDE DEF n
    <3>3. QED
      BY <1>3, <2>2, <3>1, <3>2, AgreesWithEmptyOnTop
  <2>4. ASSUME NEW i \in 1 .. n - 1, sa[s][i].kind = "nested"
        PROVE  Agrees(chain, i - 1, sa[s][i].saved)
    <3>1. Agrees(rt[s], i - 1, sa[s][i].saved)
      BY <1>3, <1>4, <2>4 DEF StagedInv, AgreesWithRows
    <3>2. i - 1 \in Nat /\ \A j \in 1 .. i - 1 : chain[j] = rt[s][j]
      BY <1>2, <1>3
    <3>3. QED
      BY <3>1, <3>2, AgreesSame
  <2>5. QED
    BY <1>3, <1>5, <2>3, <2>4 DEF AgreesWithRows
<1>12. PublishesRows(stack, chain, "ending", publish[s], past)
  BY <1>3, <1>5 DEF StagedInv, PublishesRows
<1>13. StagedOf(s)'
  BY <1>1, <1>6, <1>8, <1>10, <1>11, <1>12 DEF StagedOf, StagedInv
<1>14. QED
  BY <1>1, <1>13, PrivateStep

LEMMA FlushCommitRows ==
  ASSUME ContentInv, NEW s \in Session, FlushCommit(s), IndInv'
  PROVE  ContentInv'
<1>1. /\ pc[s] = "flushing" /\ MergeTop(s) /\ pc' = [pc EXCEPT ![s] = "ending"]
      /\ UNCHANGED <<files, past, sa, want, publish>>
  BY DEF FlushCommit, dbVars
<1>2. Top(s).state = "ACTIVE" /\ Top(s).kind = "sub" /\ Len(sa[s]) > 1
  BY <1>1, FlushingFacts
<1>3. Top(s) = sa'[s][Len(sa[s])]
  BY <1>1, ContentFacts
<1>4. QED
  BY <1>1, <1>2, <1>3, MergeRows

LEMMA CommitNestedRows ==
  ASSUME ContentInv, NEW s \in Session, CommitNested(s), IndInv'
  PROVE  ContentInv'
<1> DEFINE n == Len(sa[s])
           frame == [sa[s][n] EXCEPT !.state = "COMMITTED"]
           stack == [sa[s] EXCEPT ![n] = frame]
<1>1. /\ pc[s] = "idle" /\ Top(s).state = "ACTIVE" /\ Top(s).kind = "nested"
      /\ MergeTop(s) /\ pc' = [pc EXCEPT ![s] = "ending"]
      /\ UNCHANGED <<files, past, want, publish>>
      /\ sa' = [sa EXCEPT ![s] = stack]
  BY DEF CommitNested, Usable, Idle, dbVars
<1>2. n \in Nat /\ n > 1 /\ sa[s] \in Seq(SessionTransactions)
  <2>1. n \in Nat \ {0} /\ sa[s][1].kind = "root" /\ Top(s) = sa[s][n]
        /\ sa[s] \in Seq(SessionTransactions)
    BY ContentFacts DEF TypeOK
  <2>2. n # 1
    BY <1>1, <2>1
  <2> HIDE DEF n
  <2>3. QED
    BY <2>1, <2>2
<1>3. frame \in SessionTransactions /\ frame.state = "COMMITTED"
  BY <1>2, ContentFacts DEF SessionTransactions
<1>4. sa'[s] = stack /\ \A t \in Session \ {s} : sa'[t] = sa[t]
  BY <1>1, ContentFacts DEF TypeOK
<1> HIDE DEF frame
<1>5. /\ Len(stack) = n
      /\ \A i \in 1 .. n : stack[i] = IF i = n THEN frame ELSE sa[s][i]
  BY <1>2, <1>3, ExceptSeq
<1> HIDE DEF stack
<1>6. /\ sa'[s][n].state = "COMMITTED"
      /\ \A i \in 1 .. n - 1 : sa'[s][i] = sa[s][i]
  BY <1>2, <1>3, <1>4, <1>5
<1>7. QED
  BY <1>1, <1>2, <1>4, <1>5, <1>6, MergeRows

\* The transactions after a rollback to the boundary.
LEMMA RollbackShape ==
  ASSUME NothingStagedIsLost, ContentInv, NEW s \in Session,
         Top(s).state = "ACTIVE", RollbackTo(s, Boundary(s))
  PROVE  LET n == Len(sa[s])
             b == Boundary(s)
         IN  /\ b \in 1 .. n /\ sa[s][b].kind # "sub"
             /\ Len(sa'[s]) = n
             /\ \A i \in 1 .. n :
                    /\ sa'[s][i].kind = sa[s][i].kind
                    /\ sa'[s][i].saved = sa[s][i].saved
                    /\ sa'[s][i].state = IF i >= b THEN "DEACTIVE" ELSE "ACTIVE"
             /\ rt'[s][n] = ClearedTransaction
             /\ \A i \in 1 .. n - 1 : rt'[s][i] = rt[s][i] /\ ~rt'[s][i].cleared
             /\ \A i \in b .. n : StagesNothing(rt'[s][i])
             /\ want'[s] = sa[s][b].saved /\ pc'[s] = "ending"
             /\ \A t \in Session \ {s} :
                    /\ sa'[t] = sa[t] /\ rt'[t] = rt[t] /\ want'[t] = want[t]
                    /\ pc'[t] = pc[t]
             /\ UNCHANGED <<files, db, past, publish>>
<1> DEFINE n == Len(sa[s])
           b == Boundary(s)
           off(i) == IF i >= b THEN [sa[s][i] EXCEPT !.state = "DEACTIVE"]
                               ELSE sa[s][i]
           stack == [i \in DOMAIN sa[s] |-> off(i)]
           chain == [rt[s] EXCEPT ![Len(rt[s])] = ClearedTransaction]
           wish == sa[s][b].saved
<1>1. /\ sa' = [sa EXCEPT ![s] = stack] /\ rt' = [rt EXCEPT ![s] = chain]
      /\ want' = [want EXCEPT ![s] = wish] /\ pc' = [pc EXCEPT ![s] = "ending"]
      /\ UNCHANGED <<files, db, past, publish>>
  BY DEF RollbackTo, ClearTop, dbVars
<1>2. /\ sa'[s] = stack /\ rt'[s] = chain /\ want'[s] = wish /\ pc'[s] = "ending"
      /\ \A t \in Session \ {s} :
            sa'[t] = sa[t] /\ rt'[t] = rt[t] /\ want'[t] = want[t] /\ pc'[t] = pc[t]
  BY <1>1, ContentFacts DEF TypeOK
<1>3. /\ n \in Nat \ {0} /\ n \in 1 .. n
      /\ sa[s] \in Seq(SessionTransactions) /\ rt[s] \in Seq(RepositoryTransactions)
      /\ Len(rt[s]) = n
      /\ \A i : i \in 1 .. n <=> i \in 1 .. n - 1 \/ i = n
  BY ContentFacts DEF TypeOK
<1>4. b \in 1 .. n /\ sa[s][b].kind # "sub"
  BY <1>3, ContentFacts, SessionFacts, BoundaryInStack DEF SessionInv
<1>5. \A i \in b .. n - 1 : StagesNothing(rt[s][i])
  BY <1>3 DEF RollbackTo, NothingStagedIsLost
<1>6. \A i \in 1 .. n : sa[s][i].state = "ACTIVE"
  BY AllActive
<1>7. DOMAIN sa[s] = 1 .. n
  BY <1>3, LenProperties
<1> HIDE DEF b
<1>8. \A i \in 1 .. n :
        /\ off(i).kind = sa[s][i].kind /\ off(i).saved = sa[s][i].saved
        /\ off(i).state = IF i >= b THEN "DEACTIVE" ELSE "ACTIVE"
  BY <1>6, ContentFacts DEF SessionTransactions
<1> HIDE DEF off
<1>9. Len(stack) = n /\ \A i \in 1 .. n : stack[i] = off(i)
  BY <1>3, <1>7
<1>10. /\ chain[n] = ClearedTransaction
       /\ \A i \in 1 .. n - 1 : chain[i] = rt[s][i] /\ ~chain[i].cleared
  <2>1. \A i \in 1 .. n : chain[i] = IF i = n THEN ClearedTransaction ELSE rt[s][i]
    BY <1>3, FreshTransactions, ExceptSeq
  <2>2. QED
    BY <1>3, <2>1, ContentFacts
<1> HIDE DEF stack, chain
<1>11. \A i \in b .. n : StagesNothing(chain[i])
  <2>1. \A i \in b .. n : (i \in b .. n - 1 /\ i \in 1 .. n - 1) \/ i = n
    BY <1>3, <1>4
  <2>2. QED
    BY <1>5, <1>10, <2>1, FreshStagesNothing
<1>12. /\ Len(stack) = n
       /\ \A i \in 1 .. n :
            /\ stack[i].kind = sa[s][i].kind /\ stack[i].saved = sa[s][i].saved
            /\ stack[i].state = IF i >= b THEN "DEACTIVE" ELSE "ACTIVE"
  BY <1>8, <1>9
<1>13. QED
  BY <1>1, <1>2, <1>4, <1>10, <1>11, <1>12 DEF b

(***************************************************************************)
(* Going back to the nearest root or savepoint: nothing that is staged     *)
(* from there up survives, and what is below agrees with the savepoint.    *)
(***************************************************************************)
LEMMA RollbackRows ==
  ASSUME NothingStagedIsLost, ContentInv, NEW s \in Session, IndInv',
         pc[s] \in {"idle", "flushing"}, Top(s).state = "ACTIVE",
         RollbackTo(s, Boundary(s))
  PROVE  ContentInv'
<1> DEFINE n == Len(sa[s])
           b == Boundary(s)
           stack == sa'[s]
           chain == rt'[s]
           wish == sa[s][b].saved
<1>1. /\ want'[s] = wish /\ pc'[s] = "ending"
      /\ UNCHANGED <<files, past, publish>>
      /\ \A t \in Session \ {s} :
            sa'[t] = sa[t] /\ rt'[t] = rt[t] /\ want'[t] = want[t] /\ pc'[t] = pc[t]
  BY RollbackShape
<1>2. b \in 1 .. n /\ sa[s][b].kind # "sub"
  BY RollbackShape
<1>3. /\ n \in Nat \ {0} /\ 1 \in 1 .. n /\ n \in 1 .. n
      /\ \A i : i \in 1 .. n <=> i \in 1 .. n - 1 \/ i = n
      /\ StagedInv(sa[s], rt[s], want[s], pc[s], publish[s], past)
  BY ContentFacts DEF StagedOf
<1>4. \A i \in 1 .. n : sa[s][i].state = "ACTIVE"
  BY AllActive
<1>5. /\ Len(stack) = n
      /\ \A i \in 1 .. n :
            /\ stack[i].kind = sa[s][i].kind /\ stack[i].saved = sa[s][i].saved
            /\ stack[i].state = IF i >= b THEN "DEACTIVE" ELSE "ACTIVE"
  BY RollbackShape
<1>6. /\ chain[n] = ClearedTransaction
      /\ \A i \in 1 .. n - 1 : chain[i] = rt[s][i] /\ ~chain[i].cleared
  BY RollbackShape
<1>7. \A i \in b .. n : StagesNothing(chain[i])
  BY RollbackShape
<1> HIDE DEF b, stack, chain
<1>8. StatesInOrder(stack)
  <2>1. \A i, j \in 1 .. n : i < j /\ i >= b => j >= b
    BY <1>2, <1>3
  <2>2. QED
    BY <1>5, <2>1 DEF StatesInOrder
<1>9. EventFitsState(stack, chain, "ending")
  BY <1>3, <1>5, <1>6, FreshTransactions DEF EventFitsState
<1>10. NothingLeft(stack, chain, "ending")
  <2>1. ASSUME NEW i \in 1 .. n, stack[i].state = "DEACTIVE" \/ chain[i].cleared
        PROVE  StagesNothing(chain[i])
    <3>1. i >= b \/ i = n
      BY <1>3, <1>5, <1>6, <2>1
    <3>2. i \in b .. n
      BY <1>2, <1>3, <3>1
    <3>3. QED
      BY <1>7, <3>2
  <2>2. QED
    BY <1>5, <2>1 DEF NothingLeft
<1>11. AgreesWithRows(stack, chain, wish)
  <2>1. ASSUME NEW i \in 1 .. b, sa[s][i].kind = "nested"
        PROVE  Agrees(chain, i - 1, sa[s][i].saved)
    <3>1. i \in 1 .. n
      BY <1>2, <1>3
    <3>2. Agrees(rt[s], i - 1, sa[s][i].saved)
      BY <1>3, <1>4, <2>1, <3>1 DEF StagedInv, AgreesWithRows
    <3>3. i - 1 \in Nat /\ \A j \in 1 .. i - 1 : chain[j] = rt[s][j]
      BY <1>3, <1>6, <3>1
    <3>4. QED
      BY <3>2, <3>3, AgreesSame
  <2>2. Agrees(chain, b - 1, wish)
    <3>1. CASE b = 1
      BY <3>1 DEF Agrees
    <3>2. CASE b # 1
      <4>1. b \in 2 .. n /\ b \in 1 .. b
        BY <1>2, <1>3, <3>2
      <4>2. sa[s][b].kind = "nested"
        BY <1>2, <4>1, ContentFacts DEF SessionTransactions
      <4>3. QED
        BY <2>1, <4>1, <4>2
    <3>3. QED
      BY <3>1, <3>2
  <2>3. Agrees(chain, n, wish)
    <3>1. \A j \in b - 1 + 1 .. n : StagesNothing(chain[j])
      BY <1>2, <1>7
    <3>2. b - 1 \in Nat /\ n \in Nat /\ b - 1 <= n
      BY <1>2, <1>3
    <3> HIDE DEF n, wish
    <3>3. QED
      BY <2>2, <3>1, <3>2, AgreesWithEmptyOnTop
  <2>4. ASSUME NEW i \in 1 .. n, stack[i].kind = "nested", stack[i].state = "ACTIVE"
        PROVE  Agrees(chain, i - 1, stack[i].saved)
    <3>1. i \in 1 .. b /\ sa[s][i].kind = "nested" /\ stack[i].saved = sa[s][i].saved
      BY <1>2, <1>3, <1>5, <2>4
    <3>2. QED
      BY <2>1, <3>1
  <2>5. QED
    BY <1>5, <2>3, <2>4 DEF AgreesWithRows
<1>12. PublishesRows(stack, chain, "ending", publish[s], past)
  BY <1>3, <1>5 DEF StagedInv, PublishesRows
<1> HIDE DEF wish
<1>13. StagedOf(s)'
  BY <1>1, <1>8, <1>9, <1>10, <1>11, <1>12 DEF StagedOf, StagedInv, stack, chain
<1>14. QED
  BY <1>1, <1>13, PrivateStep

\* A step that changes neither the transactions of its session nor its rows.
LEMMA EventRows ==
  ASSUME ContentInv, NEW s \in Session, IndInv', OnlyCommittedContent',
         NEW event, pc'[s] = event,
         \A t \in Session \ {s} : pc'[t] = pc[t] /\ publish'[t] = publish[t],
         UNCHANGED <<past, sa, rt, want>>,
         EventFitsState(sa[s], rt[s], event),
         NothingLeft(sa[s], rt[s], event),
         PublishesRows(sa[s], rt[s], event, publish'[s], past)
  PROVE  ContentInv'
<1>1. StagedInv(sa[s], rt[s], want[s], pc[s], publish[s], past)
  BY ContentFacts DEF StagedOf
<1>2. StagedOf(s)'
  BY <1>1 DEF StagedOf, StagedInv
<1>3. QED
  BY <1>2, ContentStepOfOne

\* Marking a blob to be deleted; ending what has nothing to commit.
LEMMA QuietRows ==
  ASSUME ContentInv, NEW s \in Session, IndInv',
         \/ \E u \in UUID : DeleteBlob(s, u)
         \/ RollbackDeactivated(s)
         \/ CommitSub(s)
  PROVE  ContentInv'
<1>1. StagedInv(sa[s], rt[s], want[s], pc[s], publish[s], past)
  BY ContentFacts DEF StagedOf
<1>2. OnlyCommittedContent'
  BY DEF ContentInv, OnlyCommittedContent, DeleteBlob, RollbackDeactivated,
         CommitSub, dbVars
<1>3. /\ pc[s] = "idle"
      /\ UNCHANGED <<past, sa, rt, want, publish>>
  BY DEF DeleteBlob, RollbackDeactivated, CommitSub, Usable, Idle, dbVars
<1>4. /\ pc'[s] \in {"idle", "ending"}
      /\ pc'[s] = "ending" => Top(s).state = "DEACTIVE" \/ Top(s).kind = "sub"
      /\ \A t \in Session \ {s} : pc'[t] = pc[t]
  BY <1>3, ContentFacts DEF DeleteBlob, RollbackDeactivated, CommitSub, TypeOK
<1>5. sa[s][1].state # "COMMITTED"
  BY <1>1, <1>3 DEF StagedInv, EventFitsState
<1>6. EventFitsState(sa[s], rt[s], pc'[s])
  BY <1>4, <1>5, ContentFacts DEF EventFitsState
<1>7. NothingLeft(sa[s], rt[s], pc'[s])
  BY <1>1, <1>4 DEF StagedInv, NothingLeft
<1>8. PublishesRows(sa[s], rt[s], pc'[s], publish'[s], past)
  BY <1>1, <1>3, <1>4, <1>5 DEF StagedInv, PublishesRows
<1>9. QED
  BY <1>2, <1>3, <1>4, <1>6, <1>7, <1>8, EventRows

\* In the commit of the root: what it stages is what the rows become.
LEMMA CommitRootRows ==
  ASSUME ContentInv, NEW s \in Session, CommitRoot(s), IndInv'
  PROVE  ContentInv'
<1> DEFINE frame == [sa[s][1] EXCEPT !.state = "COMMITTED"]
           stack == [sa[s] EXCEPT ![1] = frame]
           pub == [publish[s] EXCEPT !.deleted = rt[s][1].deleted,
                                     !.set = rt[s][1].set]
<1>1. Len(sa[s]) = 1 /\ sa[s] \in Seq(SessionTransactions)
  BY ContentFacts, RootIsAlone DEF CommitRoot, Top, TypeOK
<1>2. /\ pc[s] = "idle" /\ Top(s).state = "ACTIVE"
      /\ sa' = [sa EXCEPT ![s] = stack]
      /\ pc' = [pc EXCEPT ![s] = "publishing"]
      /\ publish' = [publish EXCEPT ![s] = pub]
      /\ UNCHANGED <<files, want, rt>>
      /\ past' = [u \in UUID |-> past[u] \cup {RowsAfter(s)[u]}]
  <2>1. [publish EXCEPT ![s].deleted = rt[s][1].deleted, ![s].set = rt[s][1].set]
            = [publish EXCEPT ![s] = pub]
    BY ContentFacts DEF TypeOK, Publication
  <2>2. QED
    BY <1>1, <2>1 DEF CommitRoot, Usable, Idle
<1>3. /\ frame \in SessionTransactions /\ frame.state = "COMMITTED"
      /\ frame.kind = "root"
  BY <1>1, ContentFacts DEF SessionTransactions
<1>4. /\ pub.deleted = rt[s][1].deleted /\ pub.set = rt[s][1].set
      /\ pub.open = publish[s].open
  BY ContentFacts DEF TypeOK, Publication
<1> HIDE DEF frame, pub
<1>5. Len(stack) = 1 /\ stack[1] = frame
  BY <1>1, <1>3, ExceptSeq
<1> HIDE DEF stack
<1>6. /\ sa'[s] = stack /\ rt'[s] = rt[s] /\ want'[s] = want[s]
      /\ pc'[s] = "publishing" /\ publish'[s] = pub
      /\ \A t \in Session \ {s} :
            /\ sa'[t] = sa[t] /\ rt'[t] = rt[t] /\ want'[t] = want[t]
            /\ pc'[t] = pc[t] /\ publish'[t] = publish[t]
  BY <1>2, ContentFacts DEF TypeOK
<1>7. StagedInv(sa[s], rt[s], want[s], pc[s], publish[s], past)
  BY ContentFacts DEF StagedOf
<1>8. ASSUME NEW u \in UUID, Knows(rt[s][1], u)
      PROVE  Overlay(rt[s][1], u) \in past'[u]
  <2>1. Agrees(rt[s], 1, want[s])
    BY <1>1, <1>2, <1>7, ContentFacts DEF StagedInv, AgreesWithRows
  <2>2. want[s][u] = Overlay(rt[s][1], u)
    BY <1>8, <2>1 DEF Agrees
  <2>3. Overlay(rt[s][1], u) # NullMark
    BY <1>1, <1>8, ContentFacts, OverlayType
  <2>4. RowsAfter(s)[u] = Overlay(rt[s][1], u)
    BY <2>2, <2>3 DEF RowsAfter
  <2>5. QED
    BY <1>2, <2>4
<1>9. PublishesRows(stack, rt[s], "publishing", pub, past')
  <2>1. publish[s].open = NullMark
    BY <1>2, <1>7 DEF StagedInv, PublishesRows
  <2>2. QED
    BY <1>4, <1>8, <2>1 DEF PublishesRows, Recorded
<1>10. NothingLeft(stack, rt[s], "publishing")
  BY <1>1, <1>2, <1>3, <1>5, ContentFacts DEF NothingLeft
<1>11. AgreesWithRows(stack, rt[s], want[s])
  BY <1>3, <1>5 DEF AgreesWithRows
<1>12. StatesInOrder(stack)
  BY <1>5 DEF StatesInOrder
<1>13. EventFitsState(stack, rt[s], "publishing")
  BY <1>3, <1>5 DEF EventFitsState
<1>14. StagedOf(s)'
  BY <1>6, <1>9, <1>10, <1>11, <1>12, <1>13 DEF StagedOf, StagedInv
<1>15. \A u \in UUID : past[u] \subseteq past'[u]
  BY <1>2
<1>16. OnlyCommittedContent'
  BY <1>2, <1>15 DEF ContentInv, OnlyCommittedContent
<1>17. QED
  BY <1>6, <1>14, <1>15, <1>16, ContentStepOfOne

\* While publishing, what is staged is recorded, and all there is to publish.
LEMMA PublishingFacts ==
  ASSUME ContentInv, NEW s \in Session, Publishing(s)
  PROVE  /\ Len(sa[s]) = 1
         /\ Recorded(rt[s][1], past)
         /\ publish[s].deleted \subseteq rt[s][1].deleted
         /\ publish[s].set \subseteq rt[s][1].set
         /\ publish[s].open \in publish[s].set \cup {NullMark}
         /\ StagedInv(sa[s], rt[s], want[s], pc[s], publish[s], past)
<1>1. Len(sa[s]) = 1
  BY ContentFacts, SessionFacts DEF SessionInv, Publishing
<1>2. StagedInv(sa[s], rt[s], want[s], pc[s], publish[s], past)
  BY ContentFacts DEF StagedOf
<1>3. EventFitsState(sa[s], rt[s], pc[s])
      /\ PublishesRows(sa[s], rt[s], pc[s], publish[s], past)
  BY <1>2 DEF StagedInv
<1>4. QED
  BY <1>1, <1>2, <1>3 DEF Publishing, EventFitsState, PublishesRows

\* One file is published: its content, or none, was committed.
LEMMA PublishFileRows ==
  ASSUME ContentInv, NEW s \in Session, IndInv',
         PublishWrite(s) \/ \E u \in UUID : PublishDelete(s, u) \/ PublishOpen(s, u)
  PROVE  ContentInv'
<1>1. /\ Publishing(s)
      /\ UNCHANGED <<past, sa, rt, want, pc>>
      /\ publish[s] \in Publication /\ publish \in [Session -> Publication]
      /\ files \in [UUID -> Cell \cup {Torn}]
  BY ContentFacts DEF PublishWrite, PublishDelete, PublishOpen, dbVars, TypeOK
<1>2. /\ Recorded(rt[s][1], past)
      /\ publish[s].deleted \subseteq rt[s][1].deleted
      /\ publish[s].set \subseteq rt[s][1].set
      /\ publish[s].open \in publish[s].set \cup {NullMark}
      /\ StagedInv(sa[s], rt[s], want[s], pc[s], publish[s], past)
      /\ WellFormed(rt[s][1])
  BY <1>1, PublishingFacts, ContentFacts
<1>3. OnlyCommittedContent
  BY DEF ContentInv
<1>4. /\ OnlyCommittedContent'
      /\ publish'[s].deleted \subseteq rt[s][1].deleted
      /\ publish'[s].set \subseteq rt[s][1].set
      /\ publish'[s].open \in publish'[s].set \cup {NullMark}
      /\ \A t \in Session \ {s} : publish'[t] = publish[t]
  <2>1. ASSUME NEW u \in UUID, PublishDelete(s, u)
        PROVE  <1>4
    <3>1. Absent \in past[u]
      BY <1>2, <2>1 DEF PublishDelete, Recorded, Knows, Overlay
    <3>2. files' = [files EXCEPT ![u] = Absent]
      BY <2>1 DEF PublishDelete
    <3>3. OnlyCommittedContent'
      BY <1>1, <1>3, <3>1, <3>2 DEF OnlyCommittedContent
    <3>4. /\ publish'[s] = [publish[s] EXCEPT !.deleted = @ \ {u}]
          /\ \A t \in Session \ {s} : publish'[t] = publish[t]
      BY <1>1, <2>1 DEF PublishDelete
    <3>5. QED
      BY <1>1, <1>2, <3>3, <3>4 DEF Publication
  <2>2. ASSUME NEW u \in UUID, PublishOpen(s, u)
        PROVE  <1>4
    <3>1. files' = [files EXCEPT ![u] = Torn] /\ u \in publish[s].set
      BY <2>2 DEF PublishOpen
    <3>2. OnlyCommittedContent'
      BY <1>1, <1>3, <3>1 DEF OnlyCommittedContent
    <3>3. /\ publish'[s] = [publish[s] EXCEPT !.open = u]
          /\ \A t \in Session \ {s} : publish'[t] = publish[t]
      BY <1>1, <2>2 DEF PublishOpen
    <3>4. QED
      BY <1>1, <1>2, <3>1, <3>2, <3>3 DEF Publication
  <2>3. CASE PublishWrite(s)
    <3> DEFINE u == publish[s].open
    <3>1. u \in publish[s].set /\ u \in UUID
      BY <1>1, <1>2, <2>3 DEF PublishWrite, Publication
    <3>2. rt[s][1].dir[u] \in past[u]
      BY <1>2, <3>1 DEF Recorded, Knows, Overlay, WellFormed
    <3>3. files' = [files EXCEPT ![u] = rt[s][1].dir[u]]
      BY <2>3 DEF PublishWrite
    <3>4. /\ publish'[s] = [publish[s] EXCEPT !.set = @ \ {u}, !.open = NullMark]
          /\ \A t \in Session \ {s} : publish'[t] = publish[t]
      BY <1>1, <2>3 DEF PublishWrite
    <3> HIDE DEF u
    <3>5. OnlyCommittedContent'
      BY <1>1, <1>3, <3>2, <3>3 DEF OnlyCommittedContent
    <3>6. QED
      BY <1>1, <1>2, <3>4, <3>5 DEF Publication
  <2>4. QED
    BY <2>1, <2>2, <2>3
<1>5. PublishesRows(sa[s], rt[s], pc[s], publish'[s], past)
  BY <1>1, <1>2, <1>4 DEF PublishesRows, Publishing
<1>6. EventFitsState(sa[s], rt[s], pc[s]) /\ NothingLeft(sa[s], rt[s], pc[s])
  BY <1>2 DEF StagedInv
<1>7. QED
  BY <1>1, <1>4, <1>5, <1>6, EventRows

\* Publishing fails: what is staged stays, and stays recorded.
LEMMA PublishFailsRows ==
  ASSUME ContentInv, NEW s \in Session, PublishFails(s) \/ RepublishFails(s), IndInv'
  PROVE  ContentInv'
<1>1. /\ Publishing(s)
      /\ UNCHANGED <<files, past, sa, rt, want>>
      /\ publish' = [publish EXCEPT ![s] = NoPublication]
      /\ publish \in [Session -> Publication] /\ pc \in [Session -> Events]
  BY ContentFacts DEF PublishFails, RepublishFails, Publishing, dbVars, TypeOK
<1>2. /\ (pc'[s] = "failed" /\ pc[s] = "publishing") \/ pc'[s] = "broken"
      /\ \A t \in Session \ {s} : pc'[t] = pc[t] /\ publish'[t] = publish[t]
      /\ publish'[s].open = NullMark
  BY <1>1 DEF PublishFails, RepublishFails, NoPublication
<1>3. /\ StagedInv(sa[s], rt[s], want[s], pc[s], publish[s], past)
      /\ Recorded(rt[s][1], past)
  BY <1>1, PublishingFacts
<1>4. OnlyCommittedContent'
  BY <1>1 DEF ContentInv, OnlyCommittedContent
<1>5. PublishesRows(sa[s], rt[s], pc'[s], publish'[s], past)
  BY <1>2, <1>3 DEF PublishesRows
<1>6. EventFitsState(sa[s], rt[s], pc'[s])
  BY <1>2, <1>3 DEF StagedInv, EventFitsState
<1>7. NothingLeft(sa[s], rt[s], pc'[s])
  BY <1>2, <1>3 DEF StagedInv, NothingLeft
<1>8. QED
  BY <1>1, <1>2, <1>4, <1>5, <1>6, <1>7, EventRows

\* The root's transaction is cleared: nothing is staged any more.
LEMMA PublishEndRows ==
  ASSUME ContentInv, NEW s \in Session, PublishEnd(s), IndInv'
  PROVE  ContentInv'
<1> DEFINE chain == [rt[s] EXCEPT ![Len(rt[s])] = ClearedTransaction]
<1>1. /\ Publishing(s)
      /\ UNCHANGED <<files, past, sa, want, publish>>
      /\ publish[s] = NoPublication
      /\ rt' = [rt EXCEPT ![s] = chain]
      /\ pc' = [pc EXCEPT ![s] = "ending"]
  BY DEF PublishEnd, ClearTop, dbVars
<1>2. /\ rt'[s] = chain /\ pc'[s] = "ending"
      /\ \A t \in Session \ {s} : rt'[t] = rt[t] /\ pc'[t] = pc[t]
  BY <1>1, ContentFacts DEF TypeOK
<1>3. /\ Len(sa[s]) = 1
      /\ StagedInv(sa[s], rt[s], want[s], pc[s], publish[s], past)
  BY <1>1, PublishingFacts
<1>4. chain[1] = ClearedTransaction
  <2>1. rt[s] \in Seq(RepositoryTransactions) /\ Len(rt[s]) = 1
    BY <1>3, ContentFacts DEF TypeOK
  <2>2. QED
    BY <2>1, FreshTransactions, ExceptSeq
<1> HIDE DEF chain
<1>5. /\ StagesNothing(chain[1]) /\ chain[1].cleared
      /\ \A u : ~Knows(chain[1], u)
  BY <1>4, FreshTransactions, FreshStagesNothing, NothingKnown
<1>6. EventFitsState(sa[s], chain, "ending")
  BY <1>3, <1>5 DEF EventFitsState
<1>7. NothingLeft(sa[s], chain, "ending")
  BY <1>3, <1>5 DEF NothingLeft
<1>8. AgreesWithRows(sa[s], chain, want[s])
  <2>1. Agrees(chain, 1, want[s])
    BY <1>5 DEF Agrees
  <2>2. \A i \in 1 .. Len(sa[s]) : sa[s][i].kind = "root"
    BY <1>3, ContentFacts
  <2>3. QED
    BY <1>3, <2>1, <2>2 DEF AgreesWithRows
<1>9. PublishesRows(sa[s], chain, "ending", publish[s], past)
  BY <1>1, <1>5 DEF PublishesRows, Recorded, NoPublication
<1>10. StagedOf(s)'
  BY <1>1, <1>2, <1>3, <1>6, <1>7, <1>8, <1>9 DEF StagedOf, StagedInv
<1>11. QED
  BY <1>1, <1>2, <1>10, PrivateStep

\* The transactions after an inner one is closed.
LEMMA EndInnerShape ==
  ASSUME ContentInv, NEW s \in Session, EndInner(s)
  PROVE  LET n == Len(sa[s])
         IN  /\ n \in Nat /\ n > 1 /\ Len(rt[s]) = n
             /\ Len(sa'[s]) = n - 1
             /\ \A i \in 1 .. n - 1 : sa'[s][i] = sa[s][i]
             /\ \A i \in 1 .. n - 2 : rt'[s][i] = rt[s][i]
             /\ \/ rt[s][n].cleared /\ rt'[s][n - 1] = rt[s][n - 1]
                \/ /\ ~rt[s][n].cleared
                   /\ rt'[s][n - 1] = MergedInto(rt[s][n - 1], rt[s][n])
             /\ pc[s] \in {"ending", "closing"} /\ pc'[s] \in {"idle", "closing"}
             /\ pc'[s] = "closing" => pc[s] = "closing"
             /\ \A t \in Session \ {s} :
                    sa'[t] = sa[t] /\ rt'[t] = rt[t] /\ pc'[t] = pc[t]
             /\ UNCHANGED <<files, db, past, want, publish>>
<1> DEFINE n == Len(sa[s])
           stack == Front(sa[s])
           merged == CommittedToParent(rt[s])
           chain == IF Last(rt[s]).cleared THEN Front(rt[s]) ELSE Front(merged)
           event == IF pc[s] = "ending" THEN "idle" ELSE pc[s]
<1>1. /\ sa' = [sa EXCEPT ![s] = stack] /\ rt' = [rt EXCEPT ![s] = chain]
      /\ pc' = [pc EXCEPT ![s] = event]
      /\ UNCHANGED <<files, db, past, want, publish>>
      /\ pc[s] \in {"ending", "closing"} /\ Len(sa[s]) > 1
  BY DEF EndInner, dbVars
<1>2. /\ sa'[s] = stack /\ rt'[s] = chain /\ pc'[s] = event
      /\ \A t \in Session \ {s} :
            sa'[t] = sa[t] /\ rt'[t] = rt[t] /\ pc'[t] = pc[t]
      /\ event \in {"idle", "closing"} /\ (event = "closing" => pc[s] = "closing")
  BY <1>1, ContentFacts DEF TypeOK
<1>3. /\ n \in Nat /\ n > 1 /\ Len(sa[s]) > 0 /\ Len(rt[s]) > 0
      /\ sa[s] \in Seq(SessionTransactions)
      /\ rt[s] \in Seq(RepositoryTransactions) /\ Len(rt[s]) = n
      /\ ChainShape(rt[s])
      /\ Last(rt[s]) = rt[s][n]
      /\ n - 1 \in 1 .. n - 1 /\ \A i \in 1 .. n - 2 : i \in 1 .. n - 1
  BY <1>1, ContentFacts, SessionFacts DEF TypeOK, SessionInv
<1>4. Len(stack) = n - 1 /\ \A i \in 1 .. n - 1 : stack[i] = sa[s][i]
  BY <1>3, FrontProperties
<1>5. /\ merged \in Seq(RepositoryTransactions) /\ Len(merged) = n
      /\ \A i \in 1 .. n - 2 : merged[i] = rt[s][i]
      /\ merged[n - 1] = MergedInto(rt[s][n - 1], rt[s][n])
  BY <1>3, ChainMerge, MergedChain
<1> HIDE DEF merged, stack, event
<1>6. CASE rt[s][n].cleared
  <2>1. chain = Front(rt[s])
    BY <1>3, <1>6
  <2>2. \A i \in 1 .. Len(rt[s]) - 1 : Front(rt[s])[i] = rt[s][i]
    BY <1>3, FrontProperties
  <2>3. \A i \in 1 .. n - 1 : chain[i] = rt[s][i]
    BY <1>3, <2>1, <2>2
  <2> HIDE DEF chain
  <2>4. QED
    BY <1>1, <1>2, <1>3, <1>4, <1>6, <2>3
<1>7. CASE ~rt[s][n].cleared
  <2>1. chain = Front(merged)
    BY <1>3, <1>7
  <2>2. \A i \in 1 .. Len(merged) - 1 : Front(merged)[i] = merged[i]
    BY <1>3, <1>5, FrontProperties
  <2>3. /\ \A i \in 1 .. n - 2 : chain[i] = rt[s][i]
        /\ chain[n - 1] = MergedInto(rt[s][n - 1], rt[s][n])
    BY <1>3, <1>5, <2>1, <2>2
  <2> HIDE DEF chain
  <2>4. QED
    BY <1>1, <1>2, <1>3, <1>4, <1>7, <2>3
<1>8. QED
  BY <1>6, <1>7

(***************************************************************************)
(* An inner transaction is closed.  One that was cleared says nothing, and *)
(* what another one says its parent says after end_transaction.            *)
(***************************************************************************)
LEMMA EndInnerRows ==
  ASSUME ContentInv, NEW s \in Session, EndInner(s), IndInv'
  PROVE  ContentInv'
<1> DEFINE n == Len(sa[s])
           stack == sa'[s]
           chain == rt'[s]
           event == pc'[s]
<1>1. /\ pc[s] \in {"ending", "closing"}
      /\ UNCHANGED <<files, past, want, publish>>
  BY EndInnerShape
<1>2. /\ \A t \in Session \ {s} :
            sa'[t] = sa[t] /\ rt'[t] = rt[t] /\ pc'[t] = pc[t]
      /\ event \in {"idle", "closing"} /\ (event = "closing" => pc[s] = "closing")
  BY EndInnerShape
<1>3. /\ n \in Nat /\ n > 1 /\ 1 \in 1 .. n - 1
      /\ \A i : i \in 1 .. n - 1 => i \in 1 .. n /\ i < n
      /\ n \in 1 .. n /\ n - 1 \in 1 .. n - 1
      /\ \A i : i \in 1 .. n - 1 <=> i \in 1 .. n - 2 \/ i = n - 1
      /\ StagedInv(sa[s], rt[s], want[s], pc[s], publish[s], past)
  <2>1. n \in Nat /\ n > 1
    BY EndInnerShape
  <2>2. StagedInv(sa[s], rt[s], want[s], pc[s], publish[s], past)
    BY ContentFacts DEF StagedOf
  <2>3. QED
    BY <2>1, <2>2
<1>4. /\ rt[s][n - 1] \in RepositoryTransactions /\ WellFormed(rt[s][n - 1])
      /\ rt[s][n] \in RepositoryTransactions /\ WellFormed(rt[s][n])
      /\ \A i \in 1 .. n - 1 : ~rt[s][i].cleared
  BY <1>3, ContentFacts
<1>5. Len(stack) = n - 1 /\ \A i \in 1 .. n - 1 : stack[i] = sa[s][i]
  BY EndInnerShape
<1>6. /\ \A i \in 1 .. n - 2 : chain[i] = rt[s][i]
      /\ \/ rt[s][n].cleared /\ chain[n - 1] = rt[s][n - 1]
         \/ /\ ~rt[s][n].cleared
            /\ chain[n - 1] = MergedInto(rt[s][n - 1], rt[s][n])
  BY EndInnerShape
<1> HIDE DEF stack, chain, event
<1>7. sa[s][1].state # "COMMITTED"
  BY <1>3 DEF StagedInv, StatesInOrder
<1>8. StatesInOrder(stack)
  BY <1>3, <1>5 DEF StagedInv, StatesInOrder
<1>9. EventFitsState(stack, chain, event)
  BY <1>2, <1>3, <1>5, <1>7 DEF EventFitsState
<1>10. \A i \in 1 .. n - 2 : chain[i] = rt[s][i]
  BY <1>3, <1>6
<1>11. ~chain[n - 1].cleared
  BY <1>3, <1>4, <1>6, MergedProperties
<1>12. NothingLeft(stack, chain, event)
  <2>1. ASSUME StagesNothing(rt[s][n - 1]), StagesNothing(rt[s][n])
        PROVE  StagesNothing(chain[n - 1])
    BY <1>3, <1>4, <1>6, <2>1, MergedNothing
  <2>2. ASSUME sa[s][n - 1].state = "DEACTIVE"
        PROVE  StagesNothing(chain[n - 1])
    <3>1. sa[s][n].state = "DEACTIVE"
      BY <1>3, <2>2 DEF StagedInv, StatesInOrder
    <3>2. QED
      BY <1>3, <2>1, <2>2, <3>1 DEF StagedInv, NothingLeft
  <2>3. ASSUME NEW i \in 1 .. n - 2, sa[s][i].state = "DEACTIVE" \/ chain[i].cleared
        PROVE  StagesNothing(chain[i])
    BY <1>3, <1>10, <2>3 DEF StagedInv, NothingLeft
  <2>4. ASSUME event = "closing", NEW i \in 1 .. n - 1
        PROVE  StagesNothing(chain[i])
    <3>1. \A j \in 1 .. n : StagesNothing(rt[s][j])
      BY <1>2, <1>3, <1>7, <2>4 DEF StagedInv, NothingLeft
    <3>2. QED
      BY <1>3, <1>10, <2>1, <3>1
  <2>5. QED
    BY <1>3, <1>5, <1>11, <2>2, <2>3, <2>4 DEF NothingLeft
<1>13. AgreesWithRows(stack, chain, want[s])
  <2>1. Agrees(rt[s], n, want[s])
    BY <1>3, <1>7 DEF StagedInv, AgreesWithRows
  <2>2. Agrees(chain, n - 1, want[s])
    <3>1. CASE rt[s][n].cleared
      <4>1. StagesNothing(rt[s][n])
        BY <1>3, <3>1 DEF StagedInv, NothingLeft
      <4>2. /\ \A j \in n - 1 + 1 .. n : StagesNothing(rt[s][j])
            /\ n - 1 \in Nat /\ n - 1 <= n
        BY <1>3, <4>1
      <4>3. \A i \in 1 .. n - 1 : chain[i] = rt[s][i]
        BY <1>3, <1>6, <3>1
      <4> HIDE DEF n
      <4>4. Agrees(rt[s], n - 1, want[s])
        BY <1>3, <2>1, <4>2, AgreesWithEmptyOnTop
      <4>5. QED
        BY <4>2, <4>3, <4>4, AgreesSame
    <3>2. CASE ~rt[s][n].cleared
      <4>1. chain[n - 1] = MergedInto(rt[s][n - 1], rt[s][n])
        BY <1>6, <3>2
      <4> HIDE DEF n
      <4>2. QED
        BY <1>3, <1>4, <1>10, <2>1, <4>1, AgreesMerged
    <3>3. QED
      BY <3>1, <3>2
  <2>3. ASSUME NEW i \in 1 .. n - 1, sa[s][i].kind = "nested",
               sa[s][i].state = "ACTIVE"
        PROVE  Agrees(chain, i - 1, sa[s][i].saved)
    <3>1. Agrees(rt[s], i - 1, sa[s][i].saved)
      BY <1>3, <2>3 DEF StagedInv, AgreesWithRows
    <3>2. i - 1 \in Nat /\ \A j \in 1 .. i - 1 : chain[j] = rt[s][j]
      BY <1>3, <1>10
    <3>3. QED
      BY <3>1, <3>2, AgreesSame
  <2>4. QED
    BY <1>5, <2>2, <2>3 DEF AgreesWithRows
<1>14. PublishesRows(stack, chain, event, publish[s], past)
  BY <1>1, <1>2, <1>3, <1>5, <1>7 DEF StagedInv, PublishesRows
<1>15. StagedOf(s)'
  BY <1>1, <1>8, <1>9, <1>12, <1>13, <1>14
     DEF StagedOf, StagedInv, stack, chain, event
<1>16. QED
  BY <1>1, <1>2, <1>15, PrivateStep

\* The root ends uncleared: what it commits now is recorded, or is nothing.
LEMMA EndRootUnclearedRows ==
  ASSUME ContentInv, NEW s \in Session, EndRootUncleared(s), IndInv'
  PROVE  ContentInv'
<1> DEFINE pub == [publish[s] EXCEPT !.deleted = rt[s][1].deleted,
                                     !.set = rt[s][1].set]
<1>1. /\ pc[s] \in {"ending", "closing"} /\ Len(sa[s]) = 1
      /\ ~rt[s][1].cleared
      /\ UNCHANGED <<files, past, sa, want, rt>>
      /\ pc' = [pc EXCEPT ![s] = "republishing"]
      /\ publish' = [publish EXCEPT ![s] = pub]
  <2>1. [publish EXCEPT ![s].deleted = rt[s][1].deleted, ![s].set = rt[s][1].set]
            = [publish EXCEPT ![s] = pub]
    BY ContentFacts DEF TypeOK, Publication
  <2>2. QED
    BY <2>1, ContentFacts DEF EndRootUncleared, dbVars
<1>2. /\ pub.deleted = rt[s][1].deleted /\ pub.set = rt[s][1].set
      /\ pub.open = publish[s].open
  BY ContentFacts DEF TypeOK, Publication
<1> HIDE DEF pub
<1>3. /\ pc'[s] = "republishing" /\ publish'[s] = pub
      /\ \A t \in Session \ {s} : pc'[t] = pc[t] /\ publish'[t] = publish[t]
  BY <1>1, ContentFacts DEF TypeOK
<1>4. StagedInv(sa[s], rt[s], want[s], pc[s], publish[s], past)
  BY ContentFacts DEF StagedOf
<1>5. sa[s][1].state # "COMMITTED" => StagesNothing(rt[s][1])
  <2>1. sa[s][1].kind = "root"
    BY ContentFacts
  <2>2. pc[s] = "ending" => sa[s][1].state = "DEACTIVE"
    BY <1>1, <1>4, <2>1 DEF StagedInv, EventFitsState
  <2>3. QED
    BY <1>1, <1>4, <2>2 DEF StagedInv, NothingLeft
<1>6. Recorded(rt[s][1], past)
  <2>1. CASE sa[s][1].state = "COMMITTED"
    BY <1>4, <2>1 DEF StagedInv, PublishesRows
  <2>2. CASE sa[s][1].state # "COMMITTED"
    BY <1>5, <2>2, NothingKnown DEF Recorded
  <2>3. QED
    BY <2>1, <2>2
<1>7. publish[s].open = NullMark
  BY <1>1, <1>4 DEF StagedInv, PublishesRows
<1>8. PublishesRows(sa[s], rt[s], "republishing", pub, past)
  BY <1>2, <1>6, <1>7 DEF PublishesRows
<1>9. EventFitsState(sa[s], rt[s], "republishing")
  BY DEF EventFitsState
<1>10. NothingLeft(sa[s], rt[s], "republishing")
  BY <1>4 DEF StagedInv, NothingLeft
<1>11. OnlyCommittedContent'
  BY <1>1 DEF ContentInv, OnlyCommittedContent
<1>12. QED
  BY <1>1, <1>3, <1>8, <1>9, <1>10, <1>11, EventRows

\* A session is closed: it has committed, or it has nothing staged.
LEMMA CloseRows ==
  ASSUME NothingStagedIsLost, ContentInv, NEW s \in Session, Close(s), IndInv'
  PROVE  ContentInv'
<1>1. /\ UNCHANGED <<files, past, sa, rt, publish>>
      /\ want' = [want EXCEPT ![s] = NoWish]
      /\ pc' = [pc EXCEPT ![s] = "closing"]
      /\ pc[s] \in {"failed", "idle"}
  BY DEF Close, Idle, dbVars
<1>2. /\ want'[s] = NoWish /\ pc'[s] = "closing"
      /\ \A t \in Session \ {s} : want'[t] = want[t] /\ pc'[t] = pc[t]
  BY <1>1, ContentFacts DEF TypeOK
<1>3. StagedInv(sa[s], rt[s], want[s], pc[s], publish[s], past)
  BY ContentFacts DEF StagedOf
<1>4. pc[s] = "failed" => sa[s][1].state = "COMMITTED"
  BY <1>3 DEF StagedInv, EventFitsState
<1>5. pc[s] = "idle" => \A i \in 1 .. Len(sa[s]) : StagesNothing(rt[s][i])
  <2>1. DOMAIN rt[s] = 1 .. Len(sa[s])
    BY ContentFacts, LenProperties DEF TypeOK
  <2>2. QED
    BY <2>1 DEF Close, NothingStagedIsLost
<1>6. EventFitsState(sa[s], rt[s], "closing")
  BY DEF EventFitsState
<1>7. NothingLeft(sa[s], rt[s], "closing")
  BY <1>1, <1>3, <1>4, <1>5 DEF StagedInv, NothingLeft
<1>8. AgreesWithRows(sa[s], rt[s], NoWish)
  <2>1. ASSUME sa[s][1].state # "COMMITTED"
        PROVE  Agrees(rt[s], Len(sa[s]), NoWish)
    BY <1>1, <1>4, <1>5, <2>1, NothingKnown DEF Agrees
  <2>2. QED
    BY <1>3, <2>1 DEF StagedInv, AgreesWithRows
<1>9. PublishesRows(sa[s], rt[s], "closing", publish[s], past)
  BY <1>1, <1>3 DEF StagedInv, PublishesRows
<1>10. StagedOf(s)'
  BY <1>1, <1>2, <1>3, <1>6, <1>7, <1>8, <1>9 DEF StagedOf, StagedInv
<1>11. QED
  BY <1>1, <1>2, <1>10, PrivateStep

\* What a session starts with says nothing of any file.
LEMMA FreshSession ==
  ASSUME NEW pub, pub.open = NullMark, NEW history
  PROVE  StagedInv(<<Frame("root", NoWish)>>, <<NewTransaction>>, NoWish, "idle",
                   pub, history)
<1> DEFINE stack == <<Frame("root", NoWish)>>
           chain == <<NewTransaction>>
<1>1. /\ Len(stack) = 1 /\ stack[1].state = "ACTIVE" /\ stack[1].kind = "root"
      /\ chain[1] = NewTransaction
  BY DEF Frame
<1> HIDE DEF stack, chain
<1>2. StagesNothing(chain[1]) /\ \A u : ~Knows(chain[1], u)
  BY <1>1, FreshStagesNothing, NothingKnown
<1>3. StatesInOrder(stack) /\ EventFitsState(stack, chain, "idle")
  BY <1>1 DEF StatesInOrder, EventFitsState
<1>4. NothingLeft(stack, chain, "idle")
  BY <1>1, <1>2 DEF NothingLeft
<1>5. AgreesWithRows(stack, chain, NoWish)
  BY <1>1, <1>2 DEF AgreesWithRows, Agrees
<1>6. PublishesRows(stack, chain, "idle", pub, history)
  BY <1>1 DEF PublishesRows
<1>7. QED
  BY <1>3, <1>4, <1>5, <1>6 DEF StagedInv, stack, chain

LEMMA AfreshRows ==
  ASSUME ContentInv, NEW s \in Session, IndInv',
         EndRoot(s) \/ NewContext(s) \/ Crash(s)
  PROVE  ContentInv'
<1>1. /\ sa' = [sa EXCEPT ![s] = <<Frame("root", NoWish)>>]
      /\ rt' = [rt EXCEPT ![s] = <<NewTransaction>>]
      /\ want' = [want EXCEPT ![s] = NoWish]
      /\ pc' = [pc EXCEPT ![s] = "idle"]
      /\ UNCHANGED <<files, past>>
  BY DEF EndRoot, NewContext, Crash, StartAfresh, dbVars
<1>2. /\ publish'[s].open = NullMark
      /\ \A t \in Session \ {s} : publish'[t] = publish[t]
  <2>1. CASE EndRoot(s)
    <3>1. PublishesRows(sa[s], rt[s], pc[s], publish[s], past)
      BY ContentFacts DEF StagedOf, StagedInv
    <3>2. QED
      BY <2>1, <3>1 DEF EndRoot, PublishesRows
  <2>2. CASE NewContext(s) \/ Crash(s)
    BY <2>2, ContentFacts DEF NewContext, Crash, StartAfresh, NoPublication, TypeOK
  <2>3. QED
    BY <2>1, <2>2
<1>3. /\ sa'[s] = <<Frame("root", NoWish)>> /\ rt'[s] = <<NewTransaction>>
      /\ want'[s] = NoWish /\ pc'[s] = "idle"
      /\ \A t \in Session \ {s} :
            sa'[t] = sa[t] /\ rt'[t] = rt[t] /\ want'[t] = want[t] /\ pc'[t] = pc[t]
  BY <1>1, ContentFacts DEF TypeOK
<1>4. StagedOf(s)'
  BY <1>2, <1>3, FreshSession DEF StagedOf
<1>5. QED
  BY <1>1, <1>2, <1>3, <1>4, PrivateStep

--------------------------------------------------------------------------------
(* The theorem.                                                            *)

\* At first nothing is staged, and the files are the rows.
LEMMA InitContent == Init => ContentInv
<1> SUFFICES ASSUME Init PROVE ContentInv
  OBVIOUS
<1>1. IndInv
  BY InitInvariant
<1>2. \A s \in Session : StagedOf(s)
  BY FreshSession DEF Init, StagedOf, NoPublication
<1>3. OnlyCommittedContent
  BY DEF Init, OnlyCommittedContent
<1>4. QED
  BY <1>1, <1>2, <1>3 DEF ContentInv

\* Every step of every session keeps it, if nothing staged is lost.
LEMMA StepContent ==
  ASSUME NothingStagedIsLost, ContentInv, [Next]_vars
  PROVE  ContentInv'
<1>0. IndInv'
  <2>1. NothingOpen
    BY DEF NothingOpen, Publishing, ContentInv, StagedOf, StagedInv, PublishesRows
  <2>2. QED
    BY <2>1, StepInvariant DEF ContentInv
<1>1. CASE UNCHANGED vars
  <2>1. OnlyCommittedContent'
    BY <1>1 DEF vars, ContentInv, OnlyCommittedContent
  <2>2. \A s \in Session : StagedOf(s)'
    BY <1>1 DEF vars, ContentInv, StagedOf
  <2>3. QED
    BY <1>0, <2>1, <2>2 DEF ContentInv
<1>2. CASE Next
  <2> PICK s \in Session :
        \/ \E u \in UUID, c \in Content : SetContent(s, u, c)
        \/ \E u \in UUID : DeleteContent(s, u) \/ DeleteBlob(s, u)
        \/ BeginNested(s) \/ BeginSub(s)
        \/ Flush(s)
        \/ Rollback(s) \/ RollbackDeactivated(s)
        \/ CommitSub(s) \/ CommitNested(s) \/ CommitRoot(s)
        \/ Publish(s) \/ PublishFails(s) \/ RepublishFails(s)
        \/ End(s)
        \/ Close(s) \/ NewContext(s)
        \/ Crash(s)
    BY <1>2 DEF Next
  <2>1. CASE \E u \in UUID, c \in Content : SetContent(s, u, c)
    BY <1>0, <2>1, SetContentRows
  <2>2. CASE \E u \in UUID : DeleteContent(s, u)
    BY <1>0, <2>2, DeleteContentRows DEF DeleteContent, Usable, Idle, dbVars
  <2>3. CASE BeginNested(s) \/ BeginSub(s) \/ FlushBegin(s)
    <3> DEFINE savepoint == Frame("nested", want[s])
               sub == Frame("sub", NoWish)
    <3>1. /\ savepoint \in SessionTransactions /\ savepoint.state = "ACTIVE"
          /\ savepoint.kind = "nested" /\ savepoint.saved = want[s]
          /\ sub \in SessionTransactions /\ sub.state = "ACTIVE" /\ sub.kind = "sub"
      BY ContentFacts DEF Frame, SessionTransactions, NoWish, Wish
    <3> HIDE DEF savepoint, sub
    <3>2. CASE BeginNested(s)
      <4>1. /\ Usable(s) /\ sa' = [sa EXCEPT ![s] = Append(@, savepoint)]
            /\ CreateTransaction(s) /\ UNCHANGED <<files, past, want, publish>>
            /\ pc' = [pc EXCEPT ![s] = "idle"]
        BY <3>2, ContentFacts DEF BeginNested, Usable, Idle, dbVars, savepoint, TypeOK
      <4>2. PICK frame \in SessionTransactions : frame = savepoint
        BY <3>1
      <4>3. /\ frame.state = "ACTIVE"
            /\ frame.kind = "nested" /\ frame.saved = want[s]
            /\ sa' = [sa EXCEPT ![s] = Append(@, frame)]
        BY <3>1, <4>1, <4>2
      <4>4. QED
        BY <1>0, <4>1, <4>3, OpenRows
    <3>3. CASE BeginSub(s)
      <4>1. /\ Usable(s) /\ sa' = [sa EXCEPT ![s] = Append(@, sub)]
            /\ CreateTransaction(s) /\ UNCHANGED <<files, past, want, publish>>
            /\ pc' = [pc EXCEPT ![s] = "idle"]
        BY <3>3, ContentFacts DEF BeginSub, Usable, Idle, dbVars, sub, TypeOK
      <4>2. QED
        BY <1>0, <3>1, <4>1, OpenRows
    <3>4. CASE FlushBegin(s)
      <4>1. /\ Usable(s) /\ sa' = [sa EXCEPT ![s] = Append(@, sub)]
            /\ CreateTransaction(s) /\ UNCHANGED <<files, past, want, publish>>
            /\ pc' = [pc EXCEPT ![s] = "flushing"]
        BY <3>4 DEF FlushBegin, dbVars, sub
      <4>2. QED
        BY <1>0, <3>1, <4>1, OpenRows
    <3>5. QED
      BY <2>3, <3>2, <3>3, <3>4
  <2>4. CASE \E u \in UUID : PropagateDelete(s, u)
    <3> PICK u \in UUID : PropagateDelete(s, u)
      BY <2>4
    <3>1. /\ pc[s] = "flushing" /\ want' = [want EXCEPT ![s][u] = Absent]
          /\ UNCHANGED <<files, past, sa, pc, publish>>
      BY DEF PropagateDelete, dbVars
    <3>2. CASE Get(s, u) = Absent
      BY <1>0, <3>1, <3>2, AlreadyAbsentRows DEF PropagateDelete
    <3>3. CASE Get(s, u) # Absent
      BY <1>0, <3>1, <3>3, FlushingFacts, DeleteContentRows DEF PropagateDelete
    <3>4. QED
      BY <3>2, <3>3
  <2>5. CASE FlushCommit(s) \/ CommitNested(s) \/ CommitRoot(s)
    BY <1>0, <2>5, FlushCommitRows, CommitNestedRows, CommitRootRows
  <2>6. CASE FlushFails(s) \/ Rollback(s)
    BY <1>0, <2>6, FlushingFacts, RollbackRows DEF FlushFails, Rollback, Usable, Idle
  <2>7. CASE (\E u \in UUID : DeleteBlob(s, u)) \/ RollbackDeactivated(s) \/ CommitSub(s)
    BY <1>0, <2>7, QuietRows
  <2>8. CASE Publish(s) \/ PublishFails(s) \/ RepublishFails(s)
    BY <1>0, <2>8, PublishFileRows, PublishEndRows, PublishFailsRows DEF Publish
  <2>9. CASE EndInner(s) \/ EndRoot(s) \/ EndRootUncleared(s)
    BY <1>0, <2>9, EndInnerRows, EndRootUnclearedRows, AfreshRows
  <2>10. CASE Close(s) \/ NewContext(s) \/ Crash(s)
    BY <1>0, <2>10, CloseRows, AfreshRows
  <2>11. QED
    BY <2>1, <2>2, <2>3, <2>4, <2>5, <2>6, <2>7, <2>8, <2>9, <2>10 DEF Flush, End
<1>3. QED
  BY <1>1, <1>2

(***************************************************************************)
(* If nothing staged is rolled back or closed behind the repository's back *)
(* a file is always what some commit gave its blob, or is being written:   *)
(* whatever else is rolled back, by any number of sessions at a time, and  *)
(* whichever publications fail or processes die.                           *)
(***************************************************************************)
THEOREM FilesWereCommitted ==
  Spec => [](NothingStagedIsLost => OnlyCommittedContent)
<1>1. Init => (NothingStagedIsLost => ContentInv)
  BY InitContent
<1>2. (NothingStagedIsLost => ContentInv) /\ [Next]_vars
        => (NothingStagedIsLost => ContentInv)'
  BY StepContent DEF NothingStagedIsLost
<1>3. (NothingStagedIsLost => ContentInv)
        => (NothingStagedIsLost => OnlyCommittedContent)
  BY DEF ContentInv
<1>4. QED
  BY <1>1, <1>2, <1>3, PTL DEF Spec

--------------------------------------------------------------------------------
(***************************************************************************)
(* One session, whose publications may fail, but no more than that.  With  *)
(* several, two may publish one file; after a crash, or an error in the    *)
(* second attempt to publish, files stay out of date.                      *)
(***************************************************************************)
Alone == (\E s : Session = {s}) /\ Faults \subseteq {"io_error"}

Known(chain, n, u) == \E j \in 1 .. n : Knows(chain[j], u)

\* Of what the first n transactions do not know, no row was changed.
Tells(chain, n, wish, rows) ==
    \A u \in UUID : Known(chain, n, u) \/ wish[u] \in {NullMark, rows[u]}

(***************************************************************************)
(* FilesFollowRows says nothing of a session in the middle of its work.    *)
(* There, every row it has changed must be staged, also if it goes back to *)
(* one of its savepoints; and from its commit to the end, every file that  *)
(* is not as the rows say must still be staged, and to be published until  *)
(* a publication fails.                                                    *)
(***************************************************************************)
StagesItsRows(stack, chain, wish, rows) ==
    /\ Tells(chain, Len(stack), wish, rows)
    /\ \A i \in 1 .. Len(stack) :
            stack[i].kind # "sub" /\ stack[i].state = "ACTIVE"
                => Tells(chain, i - 1, stack[i].saved, rows)

Before(stack, chain, wish, event, disk, rows) ==
    /\ disk = rows
    /\ StagesItsRows(stack, chain, wish, rows)
    /\ event = "republishing" => StagesNothing(chain[1])

After(tr, event, pub, disk, rows) ==
    \A u \in UUID :
        /\ Knows(tr, u) => rows[u] = Overlay(tr, u)
        /\ \/ ~Knows(tr, u)
           \/ event \in {"publishing", "republishing"} /\ u \notin pub.deleted \cup pub.set
           => disk[u] = rows[u]

FollowInv(stack, chain, wish, event, pub, disk, rows) ==
    /\ event # "broken"
    /\ IF stack[1].state = "COMMITTED"
       THEN After(chain[1], event, pub, disk, rows)
       ELSE Before(stack, chain, wish, event, disk, rows)

Follows(s) == FollowInv(sa[s], rt[s], want[s], pc[s], publish[s], files, db)

\* More is known, and less is wanted: no row is forgotten.
LEMMA TellsMore ==
  ASSUME NEW chain, NEW n, NEW wish, NEW rows, Tells(chain, n, wish, rows),
         NEW other, NEW m,
         \A u \in UUID : Known(chain, n, u) => Known(other, m, u)
  PROVE  Tells(other, m, wish, rows)
  BY DEF Tells

\* So it is when the transactions stay, whatever comes after them.
LEMMA TellsSame ==
  ASSUME NEW chain, NEW n \in Nat, NEW wish, NEW rows, Tells(chain, n, wish, rows),
         NEW other, NEW m \in Nat, n <= m, \A j \in 1 .. n : other[j] = chain[j]
  PROVE  Tells(other, m, wish, rows)
<1>1. \A j \in 1 .. n : j \in 1 .. m /\ other[j] = chain[j]
  OBVIOUS
<1>2. \A u \in UUID : Known(chain, n, u) => Known(other, m, u)
  BY <1>1 DEF Known
<1>3. QED
  BY <1>2 DEF Tells

\* A session that is at work has not committed.
LEMMA AtWork ==
  ASSUME ContentInv, NEW s \in Session, Follows(s), pc[s] \in {"idle", "flushing"}
  PROVE  /\ sa[s][1].state # "COMMITTED"
         /\ Before(sa[s], rt[s], want[s], pc[s], files, db)
<1>1. EventFitsState(sa[s], rt[s], pc[s])
  BY ContentFacts DEF StagedOf, StagedInv
<1>2. QED
  BY <1>1 DEF EventFitsState, Follows, FollowInv

\* A word on one uuid, and the row the same.
LEMMA NewWordFollows ==
  ASSUME ContentInv, NEW s \in Session, Follows(s), pc[s] \in {"idle", "flushing"},
         NEW u \in UUID, NEW c,
         NEW tr \in RepositoryTransactions, Knows(tr, u),
         \A v \in UUID : v # u => Knows(tr, v) = Knows(Last(rt[s]), v),
         rt' = [rt EXCEPT ![s][Len(rt[s])] = tr],
         want' = [want EXCEPT ![s][u] = c],
         UNCHANGED <<files, db, sa, pc>>
  PROVE  Follows(s)'
<1> DEFINE n == Len(sa[s])
           chain == [rt[s] EXCEPT ![n] = tr]
           wish == [want[s] EXCEPT ![u] = c]
<1>1. rt'[s] = chain /\ want'[s] = wish
  BY ContentFacts DEF TypeOK
<1>2. \A v \in UUID : v # u => wish[v] = want[s][v]
  OBVIOUS
<1>3. \A i \in 1 .. n : chain[i] = IF i = n THEN tr ELSE rt[s][i]
  <2>1. rt[s] \in Seq(RepositoryTransactions) /\ n \in 1 .. Len(rt[s])
    BY ContentFacts DEF TypeOK
  <2>2. QED
    BY <2>1, ContentFacts, ExceptSeq
<1> HIDE DEF chain, wish
<1>4. /\ Before(sa[s], rt[s], want[s], pc[s], files, db)
      /\ sa[s][1].state # "COMMITTED"
  BY AtWork
<1>5. n \in Nat \ {0} /\ n \in 1 .. n /\ Last(rt[s]) = rt[s][n]
  BY ContentFacts
<1>6. Tells(chain, n, wish, db)
  <2>1. \A v \in UUID : Known(rt[s], n, v) \/ v = u => Known(chain, n, v)
    BY <1>3, <1>5 DEF Known
  <2>2. Tells(rt[s], n, want[s], db)
    BY <1>4 DEF Before, StagesItsRows
  <2>3. QED
    BY <1>2, <2>1, <2>2 DEF Tells
<1>7. ASSUME NEW i \in 1 .. n, Tells(rt[s], i - 1, sa[s][i].saved, db)
      PROVE  Tells(chain, i - 1, sa[s][i].saved, db)
  <2>1. i - 1 \in Nat /\ i - 1 <= i - 1 /\ \A j \in 1 .. i - 1 : chain[j] = rt[s][j]
    BY <1>3, <1>5
  <2>2. QED
    BY <1>7, <2>1, TellsSame
<1>8. StagesItsRows(sa[s], chain, wish, db)
  BY <1>4, <1>6, <1>7 DEF Before, StagesItsRows
<1>9. QED
  BY <1>1, <1>4, <1>8 DEF Follows, FollowInv, Before

\* A blob whose file is absent is deleted: if nothing was staged, it is absent.
LEMMA AlreadyAbsentFollows ==
  ASSUME ContentInv, NEW s \in Session, Follows(s), pc[s] = "flushing",
         NEW u \in UUID, Get(s, u) = Absent,
         want' = [want EXCEPT ![s][u] = Absent],
         UNCHANGED <<files, db, sa, rt, pc>>
  PROVE  Follows(s)'
<1> DEFINE n == Len(sa[s])
           wish == [want[s] EXCEPT ![u] = Absent]
<1>1. want'[s] = wish
  BY ContentFacts DEF TypeOK
<1>2. wish[u] = Absent /\ \A v \in UUID : v # u => wish[v] = want[s][v]
  BY ContentFacts
<1> HIDE DEF wish
<1>3. /\ Before(sa[s], rt[s], want[s], pc[s], files, db)
      /\ sa[s][1].state # "COMMITTED"
  BY AtWork
<1>4. ~Known(rt[s], n, u) => files[u] = Absent
  <2>1. DOMAIN rt[s] = 1 .. n
    BY ContentFacts, LenProperties DEF TypeOK
  <2>2. ~Known(rt[s], n, u) => Lookup(rt[s], u) = NullMark
    BY <2>1 DEF Known, Lookup
  <2>3. QED
    BY <2>2 DEF Get
<1>5. Tells(rt[s], n, wish, db)
  BY <1>2, <1>3, <1>4 DEF Before, StagesItsRows, Tells
<1>6. QED
  BY <1>1, <1>3, <1>5 DEF Follows, FollowInv, Before, StagesItsRows

\* What is opened on top says nothing, and goes back to where it was opened.
LEMMA OpenFollows ==
  ASSUME ContentInv, NEW s \in Session, Follows(s), Usable(s),
         NEW frame \in SessionTransactions,
         frame.kind = "nested" => frame.saved = want[s], frame.kind # "root",
         NEW event \in {"idle", "flushing"},
         sa' = [sa EXCEPT ![s] = Append(@, frame)],
         CreateTransaction(s),
         pc' = [pc EXCEPT ![s] = event],
         UNCHANGED <<files, db, want>>
  PROVE  Follows(s)'
<1> DEFINE n == Len(sa[s])
           stack == Append(sa[s], frame)
           chain == Append(rt[s], NewTransaction)
<1>1. sa'[s] = stack /\ rt'[s] = chain /\ pc'[s] = event
  BY ContentFacts DEF TypeOK, CreateTransaction
<1>2. /\ Len(stack) = n + 1
      /\ \A i \in 1 .. n : stack[i] = sa[s][i] /\ chain[i] = rt[s][i]
      /\ stack[n + 1] = frame
  <2>1. /\ sa[s] \in Seq(SessionTransactions) /\ rt[s] \in Seq(RepositoryTransactions)
        /\ Len(rt[s]) = n
    BY ContentFacts DEF TypeOK
  <2>2. /\ Len(stack) = n + 1
        /\ \A i \in 1 .. n : stack[i] = sa[s][i]
        /\ stack[n + 1] = frame
    BY <2>1, AppendProperties
  <2>3. \A i \in 1 .. n : chain[i] = rt[s][i]
    <3> HIDE DEF n
    <3>1. QED
      BY <2>1, FreshTransactions, AppendProperties
  <2>4. QED
    BY <2>2, <2>3
<1> HIDE DEF stack, chain
<1>3. pc[s] = "idle"
  BY DEF Usable, Idle
<1>4. /\ Before(sa[s], rt[s], want[s], pc[s], files, db)
      /\ sa[s][1].state # "COMMITTED"
  BY <1>3, AtWork
<1>5. n \in Nat \ {0} /\ 1 \in 1 .. n /\ \A i \in 1 .. n + 1 : i \in 1 .. n \/ i = n + 1
  BY ContentFacts
<1>6. Tells(chain, n, want[s], db) /\ Tells(chain, n + 1, want[s], db)
  <2>1. Tells(rt[s], n, want[s], db)
    BY <1>4 DEF Before, StagesItsRows
  <2>2. n \in Nat /\ n + 1 \in Nat /\ n <= n /\ n <= n + 1
    BY <1>5
  <2> HIDE DEF n
  <2>3. QED
    BY <1>2, <2>1, <2>2, TellsSame
<1>7. ASSUME NEW i \in 1 .. n, Tells(rt[s], i - 1, sa[s][i].saved, db)
      PROVE  Tells(chain, i - 1, sa[s][i].saved, db)
  <2>1. i - 1 \in Nat /\ i - 1 <= i - 1 /\ \A j \in 1 .. i - 1 : chain[j] = rt[s][j]
    BY <1>2, <1>5
  <2>2. QED
    BY <1>7, <2>1, TellsSame
<1>8. StagesItsRows(stack, chain, want[s], db)
  <2>1. frame.kind # "sub" => frame.kind = "nested"
    BY DEF SessionTransactions
  <2>2. ASSUME NEW i \in 1 .. n + 1,
               stack[i].kind # "sub", stack[i].state = "ACTIVE"
        PROVE  Tells(chain, i - 1, stack[i].saved, db)
    <3>1. CASE i \in 1 .. n
      <4>1. stack[i] = sa[s][i]
        BY <1>2, <3>1
      <4>2. Tells(rt[s], i - 1, sa[s][i].saved, db)
        BY <1>4, <2>2, <3>1, <4>1 DEF Before, StagesItsRows
      <4>3. QED
        BY <1>7, <3>1, <4>1, <4>2
    <3>2. CASE i = n + 1
      <4>1. i - 1 = n
        BY <1>5, <3>2
      <4>2. stack[i] = frame
        BY <1>2, <3>2
      <4>3. stack[i].saved = want[s]
        BY <2>1, <2>2, <4>2
      <4>4. QED
        BY <1>6, <4>1, <4>3
    <3>3. QED
      BY <1>5, <3>1, <3>2
  <2>3. QED
    BY <1>2, <1>6, <2>2 DEF StagesItsRows
<1>9. Before(stack, chain, want[s], event, files, db)
  BY <1>4, <1>8 DEF Before
<1>10. QED
  BY <1>1, <1>2, <1>4, <1>5, <1>9 DEF Follows, FollowInv

\* What the last of n transactions knows, its parent knows once merged.
LEMMA MergedKnown ==
  ASSUME NEW chain, NEW n \in Nat, n > 1,
         chain[n - 1] \in RepositoryTransactions, WellFormed(chain[n - 1]),
         chain[n] \in RepositoryTransactions, WellFormed(chain[n]),
         NEW other, \A j \in 1 .. n - 2 : other[j] = chain[j],
         other[n - 1] = MergedInto(chain[n - 1], chain[n]),
         NEW u \in UUID, Known(chain, n, u)
  PROVE  Known(other, n - 1, u)
<1>1. /\ \A j \in 1 .. n : j \in 1 .. n - 2 \/ j = n - 1 \/ j = n
      /\ n - 1 \in 1 .. n - 1 /\ \A j \in 1 .. n - 2 : j \in 1 .. n - 1
  OBVIOUS
<1>2. Knows(other[n - 1], u) <=> Knows(chain[n - 1], u) \/ Knows(chain[n], u)
  BY MergedOverlay
<1>3. QED
  BY <1>1, <1>2 DEF Known

\* A flush ends, or a savepoint is released.
LEMMA MergeFollows ==
  ASSUME ContentInv, NEW s \in Session, Follows(s), pc[s] \in {"idle", "flushing"},
         Len(sa[s]) > 1, Len(sa'[s]) = Len(sa[s]),
         \A i \in 1 .. Len(sa[s]) - 1 : sa'[s][i] = sa[s][i],
         sa'[s][Len(sa[s])].state = "COMMITTED" \/ sa'[s][Len(sa[s])].kind = "sub",
         MergeTop(s),
         pc' = [pc EXCEPT ![s] = "ending"],
         UNCHANGED <<files, db, want>>
  PROVE  Follows(s)'
<1> DEFINE n == Len(sa[s])
           stack == sa'[s]
           chain == CommittedToParent(rt[s])
<1>1. rt'[s] = chain /\ pc'[s] = "ending"
  BY ContentFacts DEF TypeOK, MergeTop
<1>2. /\ \A i \in 1 .. n - 2 : chain[i] = rt[s][i]
      /\ chain[n - 1] = MergedInto(rt[s][n - 1], rt[s][n])
  <2>1. /\ rt[s] \in Seq(RepositoryTransactions) /\ Len(rt[s]) = n
        /\ ChainShape(rt[s])
    BY ContentFacts, SessionFacts DEF SessionInv
  <2>2. QED
    BY <2>1, MergedChain
<1> HIDE DEF chain, stack
<1>3. /\ Before(sa[s], rt[s], want[s], pc[s], files, db)
      /\ sa[s][1].state # "COMMITTED"
  BY AtWork
<1>4. /\ n \in Nat /\ n > 1 /\ n - 1 \in Nat /\ n - 1 <= n /\ 1 \in 1 .. n - 1
      /\ \A i \in 1 .. n : i \in 1 .. n - 1 \/ i = n
      /\ \A i \in 1 .. n - 1 : i \in 1 .. n
  BY ContentFacts
<1>5. Tells(chain, n - 1, want[s], db) /\ Tells(chain, n, want[s], db)
  <2>1. Tells(rt[s], n, want[s], db)
    BY <1>3 DEF Before, StagesItsRows
  <2>2. /\ rt[s][n - 1] \in RepositoryTransactions /\ WellFormed(rt[s][n - 1])
        /\ rt[s][n] \in RepositoryTransactions /\ WellFormed(rt[s][n])
    <3>1. n - 1 \in 1 .. n /\ n \in 1 .. n
      BY <1>4
    <3>2. QED
      BY <3>1, ContentFacts
  <2> HIDE DEF n
  <2>3. \A u \in UUID : Known(rt[s], n, u) => Known(chain, n - 1, u)
    BY <1>2, <1>4, <2>2, MergedKnown
  <2>4. Tells(chain, n - 1, want[s], db)
    BY <2>1, <2>3, TellsMore
  <2>5. QED
    BY <1>4, <2>4, TellsSame
<1>6. ASSUME NEW i \in 1 .. n - 1, Tells(rt[s], i - 1, sa[s][i].saved, db)
      PROVE  Tells(chain, i - 1, sa[s][i].saved, db)
  <2>1. i - 1 \in Nat /\ i - 1 <= i - 1 /\ \A j \in 1 .. i - 1 : chain[j] = rt[s][j]
    BY <1>2, <1>4
  <2>2. QED
    BY <1>6, <2>1, TellsSame
<1>7. \A i \in 1 .. n - 1 : stack[i] = sa[s][i]
  BY DEF stack
<1>8. Len(stack) = n /\ (stack[n].state = "COMMITTED" \/ stack[n].kind = "sub")
  BY DEF stack
<1>9. StagesItsRows(stack, chain, want[s], db)
  <2>1. ASSUME NEW i \in 1 .. n,
               stack[i].kind # "sub", stack[i].state = "ACTIVE"
        PROVE  Tells(chain, i - 1, stack[i].saved, db)
    <3>1. i \in 1 .. n - 1
      BY <1>4, <1>8, <2>1
    <3>2. stack[i] = sa[s][i]
      BY <1>7, <3>1
    <3>3. Tells(rt[s], i - 1, sa[s][i].saved, db)
      BY <1>3, <2>1, <3>2 DEF Before, StagesItsRows
    <3>4. QED
      BY <1>6, <3>1, <3>2, <3>3
  <2>2. QED
    BY <1>5, <1>8, <2>1 DEF StagesItsRows
<1>10. Before(stack, chain, want[s], "ending", files, db)
  BY <1>3, <1>9 DEF Before
<1>11. stack[1].state # "COMMITTED"
  BY <1>3, <1>4, <1>7
<1>12. QED
  BY <1>1, <1>10, <1>11 DEF Follows, FollowInv, stack

LEMMA FlushCommitFollows ==
  ASSUME ContentInv, NEW s \in Session, Follows(s), FlushCommit(s)
  PROVE  Follows(s)'
<1>1. /\ pc[s] = "flushing" /\ MergeTop(s) /\ pc' = [pc EXCEPT ![s] = "ending"]
      /\ UNCHANGED <<files, db, sa, want>>
  BY DEF FlushCommit, dbVars
<1>2. Top(s).kind = "sub" /\ Len(sa[s]) > 1
  BY <1>1, FlushingFacts
<1>3. Top(s) = sa'[s][Len(sa[s])]
  BY <1>1, ContentFacts
<1>4. QED
  BY <1>1, <1>2, <1>3, MergeFollows

LEMMA CommitNestedFollows ==
  ASSUME ContentInv, NEW s \in Session, Follows(s), CommitNested(s)
  PROVE  Follows(s)'
<1> DEFINE n == Len(sa[s])
           frame == [sa[s][n] EXCEPT !.state = "COMMITTED"]
           stack == [sa[s] EXCEPT ![n] = frame]
<1>1. /\ pc[s] = "idle" /\ Top(s).kind = "nested"
      /\ MergeTop(s) /\ pc' = [pc EXCEPT ![s] = "ending"]
      /\ UNCHANGED <<files, db, want>>
      /\ sa' = [sa EXCEPT ![s] = stack]
  BY DEF CommitNested, Usable, Idle, dbVars
<1>2. n \in Nat /\ n > 1 /\ sa[s] \in Seq(SessionTransactions)
  <2>1. n \in Nat \ {0} /\ sa[s][1].kind = "root" /\ Top(s) = sa[s][n]
        /\ sa[s] \in Seq(SessionTransactions)
    BY ContentFacts DEF TypeOK
  <2>2. n # 1
    BY <1>1, <2>1
  <2> HIDE DEF n
  <2>3. QED
    BY <2>1, <2>2
<1>3. frame \in SessionTransactions /\ frame.state = "COMMITTED"
  BY <1>2, ContentFacts DEF SessionTransactions
<1>4. sa'[s] = stack
  BY <1>1, ContentFacts DEF TypeOK
<1> HIDE DEF frame
<1>5. /\ Len(stack) = n
      /\ \A i \in 1 .. n : stack[i] = IF i = n THEN frame ELSE sa[s][i]
  BY <1>2, <1>3, ExceptSeq
<1> HIDE DEF stack
<1>6. /\ sa'[s][n].state = "COMMITTED"
      /\ \A i \in 1 .. n - 1 : sa'[s][i] = sa[s][i]
  BY <1>2, <1>3, <1>4, <1>5
<1>7. QED
  BY <1>1, <1>2, <1>4, <1>5, <1>6, MergeFollows

\* After a rollback, rows are those of the savepoint, which were staged.
LEMMA RollbackFollows ==
  ASSUME NothingStagedIsLost, ContentInv, NEW s \in Session, Follows(s),
         pc[s] \in {"idle", "flushing"},
         Top(s).state = "ACTIVE", RollbackTo(s, Boundary(s))
  PROVE  Follows(s)'
<1> DEFINE n == Len(sa[s])
           b == Boundary(s)
           stack == sa'[s]
           chain == rt'[s]
<1>1. /\ want'[s] = sa[s][b].saved /\ pc'[s] = "ending"
      /\ UNCHANGED <<files, db>>
  BY RollbackShape
<1>2. b \in 1 .. n /\ sa[s][b].kind # "sub"
  BY RollbackShape
<1>3. \A i \in 1 .. n : sa[s][i].state = "ACTIVE"
  BY AllActive
<1>4. /\ Len(stack) = n
      /\ \A i \in 1 .. n :
            /\ stack[i].kind = sa[s][i].kind /\ stack[i].saved = sa[s][i].saved
            /\ stack[i].state = IF i >= b THEN "DEACTIVE" ELSE "ACTIVE"
  BY RollbackShape
<1>5. \A i \in 1 .. n - 1 : chain[i] = rt[s][i]
  BY RollbackShape
<1> HIDE DEF b, stack, chain
<1>6. /\ Before(sa[s], rt[s], want[s], pc[s], files, db)
      /\ sa[s][1].state # "COMMITTED"
  BY AtWork
<1>7. n \in Nat \ {0} /\ 1 \in 1 .. n
  BY ContentFacts
<1>8. ASSUME NEW i \in 1 .. n, sa[s][i].kind # "sub", NEW m \in Nat, i - 1 <= m
      PROVE  Tells(chain, m, sa[s][i].saved, db)
  <2>1. Tells(rt[s], i - 1, sa[s][i].saved, db)
    BY <1>3, <1>6, <1>8 DEF Before, StagesItsRows
  <2>2. i - 1 \in Nat /\ \A j \in 1 .. i - 1 : chain[j] = rt[s][j]
    BY <1>5, <1>7
  <2>3. QED
    BY <1>8, <2>1, <2>2, TellsSame
<1>9. Tells(chain, n, sa[s][b].saved, db)
  <2>1. n \in Nat /\ b - 1 <= n
    BY <1>2, <1>7
  <2> HIDE DEF n
  <2>2. QED
    BY <1>2, <1>8, <2>1
<1>10. ASSUME NEW i \in 1 .. n, stack[i].kind # "sub"
       PROVE  Tells(chain, i - 1, stack[i].saved, db)
  <2>1. i - 1 \in Nat /\ i - 1 <= i - 1
    BY <1>7
  <2>2. QED
    BY <1>4, <1>8, <1>10, <2>1
<1>11. Before(stack, chain, sa[s][b].saved, "ending", files, db)
  BY <1>4, <1>6, <1>9, <1>10 DEF Before, StagesItsRows
<1>12. stack[1].state # "COMMITTED"
  BY <1>4, <1>7
<1>13. QED
  BY <1>1, <1>11, <1>12 DEF Follows, FollowInv, stack, chain

\* An inner transaction is closed: its parent knows what it knew.
LEMMA EndInnerFollows ==
  ASSUME ContentInv, NEW s \in Session, Follows(s), EndInner(s)
  PROVE  Follows(s)'
<1> DEFINE n == Len(sa[s])
           stack == sa'[s]
           chain == rt'[s]
<1>1. pc'[s] \in {"idle", "closing"} /\ UNCHANGED <<files, db, want>>
  BY EndInnerShape
<1>2. Len(stack) = n - 1 /\ \A i \in 1 .. n - 1 : stack[i] = sa[s][i]
  BY EndInnerShape
<1>3. /\ \A i \in 1 .. n - 2 : chain[i] = rt[s][i]
      /\ \/ rt[s][n].cleared /\ chain[n - 1] = rt[s][n - 1]
         \/ chain[n - 1] = MergedInto(rt[s][n - 1], rt[s][n])
  BY EndInnerShape
<1>4. n \in Nat /\ n > 1
  BY EndInnerShape
<1> HIDE DEF stack, chain
<1>5. /\ n - 1 \in Nat /\ 1 \in 1 .. n - 1 /\ 1 \in 1 .. n /\ n \in 1 .. n /\ 1 < n
      /\ \A i \in 1 .. n : i \in 1 .. n - 1 \/ i = n
      /\ \A i \in 1 .. n - 1 : i \in 1 .. n /\ (i \in 1 .. n - 2 \/ i = n - 1)
  BY <1>4
<1>6. StagedInv(sa[s], rt[s], want[s], pc[s], publish[s], past)
  BY ContentFacts DEF StagedOf
<1>7. sa[s][1].state # "COMMITTED"
  BY <1>5, <1>6 DEF StagedInv, StatesInOrder
<1>8. Before(sa[s], rt[s], want[s], pc[s], files, db)
  BY <1>7 DEF Follows, FollowInv
<1>9. Tells(chain, n - 1, want[s], db)
  <2>1. Tells(rt[s], n, want[s], db)
    BY <1>8 DEF Before, StagesItsRows
  <2>2. /\ rt[s][n - 1] \in RepositoryTransactions /\ WellFormed(rt[s][n - 1])
        /\ rt[s][n] \in RepositoryTransactions /\ WellFormed(rt[s][n])
    BY <1>5, ContentFacts
  <2>3. \A u \in UUID : Known(rt[s], n, u) => Known(chain, n - 1, u)
    <3>1. CASE rt[s][n].cleared /\ chain[n - 1] = rt[s][n - 1]
      <4>1. \A u \in UUID : ~Knows(rt[s][n], u)
        BY <1>5, <1>6, <3>1, NothingKnown DEF StagedInv, NothingLeft
      <4>2. \A i \in 1 .. n - 1 : chain[i] = rt[s][i]
        BY <1>3, <1>5, <3>1
      <4>3. QED
        BY <1>5, <4>1, <4>2 DEF Known
    <3>2. CASE chain[n - 1] = MergedInto(rt[s][n - 1], rt[s][n])
      <4> HIDE DEF n
      <4>1. QED
        BY <1>3, <1>4, <2>2, <3>2, MergedKnown
    <3>3. QED
      BY <1>3, <3>1, <3>2
  <2>4. QED
    BY <2>1, <2>3, TellsMore
<1>10. ASSUME NEW i \in 1 .. n - 1, Tells(rt[s], i - 1, sa[s][i].saved, db)
       PROVE  Tells(chain, i - 1, sa[s][i].saved, db)
  <2>1. i - 1 \in Nat /\ i - 1 <= i - 1 /\ \A j \in 1 .. i - 1 : chain[j] = rt[s][j]
    BY <1>3, <1>5
  <2>2. QED
    BY <1>10, <2>1, TellsSame
<1>11. StagesItsRows(stack, chain, want[s], db)
  BY <1>2, <1>5, <1>8, <1>9, <1>10 DEF Before, StagesItsRows
<1>12. Before(stack, chain, want[s], pc'[s], files, db)
  BY <1>1, <1>8, <1>11 DEF Before
<1>13. stack[1].state # "COMMITTED"
  BY <1>2, <1>5, <1>7
<1>14. QED
  BY <1>1, <1>12, <1>13 DEF Follows, FollowInv, stack, chain

\* Marking a blob to be deleted; ending what has nothing to commit.
LEMMA QuietFollows ==
  ASSUME ContentInv, NEW s \in Session, Follows(s),
         \/ \E u \in UUID : DeleteBlob(s, u)
         \/ RollbackDeactivated(s)
         \/ CommitSub(s)
  PROVE  Follows(s)'
<1>1. pc[s] = "idle" /\ UNCHANGED <<files, db, sa, rt, want>>
  BY DEF DeleteBlob, RollbackDeactivated, CommitSub, Usable, Idle, dbVars
<1>2. pc'[s] \in {"idle", "ending"}
  BY <1>1, ContentFacts DEF DeleteBlob, RollbackDeactivated, CommitSub, TypeOK
<1>3. /\ Before(sa[s], rt[s], want[s], pc[s], files, db)
      /\ sa[s][1].state # "COMMITTED"
  BY <1>1, AtWork
<1>4. QED
  BY <1>1, <1>2, <1>3 DEF Follows, FollowInv, Before

\* The commit of the root: what rows it changed is staged, and to be published.
LEMMA CommitRootFollows ==
  ASSUME ContentInv, NEW s \in Session, Follows(s), CommitRoot(s)
  PROVE  Follows(s)'
<1> DEFINE frame == [sa[s][1] EXCEPT !.state = "COMMITTED"]
           stack == [sa[s] EXCEPT ![1] = frame]
           pub == [publish[s] EXCEPT !.deleted = rt[s][1].deleted,
                                     !.set = rt[s][1].set]
<1>1. Len(sa[s]) = 1 /\ sa[s] \in Seq(SessionTransactions)
  BY ContentFacts, RootIsAlone DEF CommitRoot, Top, TypeOK
<1>2. /\ pc[s] = "idle" /\ Top(s).state = "ACTIVE"
      /\ sa' = [sa EXCEPT ![s] = stack]
      /\ pc' = [pc EXCEPT ![s] = "publishing"]
      /\ publish' = [publish EXCEPT ![s] = pub]
      /\ UNCHANGED <<files, rt>>
      /\ db' = RowsAfter(s)
  <2>1. [publish EXCEPT ![s].deleted = rt[s][1].deleted, ![s].set = rt[s][1].set]
            = [publish EXCEPT ![s] = pub]
    BY ContentFacts DEF TypeOK, Publication
  <2>2. QED
    BY <1>1, <2>1 DEF CommitRoot, Usable, Idle
<1>3. frame \in SessionTransactions /\ frame.state = "COMMITTED"
  BY <1>1, ContentFacts DEF SessionTransactions
<1>4. pub.deleted = rt[s][1].deleted /\ pub.set = rt[s][1].set
  BY ContentFacts DEF TypeOK, Publication
<1> HIDE DEF frame, pub
<1>5. stack[1] = frame
  BY <1>1, <1>3, ExceptSeq
<1> HIDE DEF stack
<1>6. /\ sa'[s] = stack /\ rt'[s] = rt[s]
      /\ pc'[s] = "publishing" /\ publish'[s] = pub
  BY <1>2, ContentFacts DEF TypeOK
<1>7. /\ Before(sa[s], rt[s], want[s], pc[s], files, db)
      /\ sa[s][1].state # "COMMITTED"
  BY <1>2, AtWork
<1>8. Agrees(rt[s], 1, want[s]) /\ Tells(rt[s], 1, want[s], db)
  BY <1>1, <1>7, ContentFacts
     DEF StagedOf, StagedInv, AgreesWithRows, Before, StagesItsRows
<1>9. ASSUME NEW u \in UUID
      PROVE  /\ Knows(rt[s][1], u) => RowsAfter(s)[u] = Overlay(rt[s][1], u)
             /\ ~Knows(rt[s][1], u) => files[u] = RowsAfter(s)[u]
  <2>1. CASE Knows(rt[s][1], u)
    <3>1. want[s][u] = Overlay(rt[s][1], u)
      BY <1>8, <2>1 DEF Agrees
    <3>2. Overlay(rt[s][1], u) # NullMark
      BY <1>1, <2>1, ContentFacts, OverlayType
    <3>3. QED
      BY <2>1, <3>1, <3>2 DEF RowsAfter
  <2>2. CASE ~Knows(rt[s][1], u)
    <3>1. want[s][u] \in {NullMark, db[u]}
      BY <1>8, <2>2 DEF Tells, Known
    <3>2. QED
      BY <1>7, <2>2, <3>1 DEF RowsAfter, Before
  <2>3. QED
    BY <2>1, <2>2
<1>10. \A u \in UUID : Knows(rt[s][1], u) <=> u \in pub.deleted \cup pub.set
  BY <1>4 DEF Knows
<1>11. After(rt[s][1], "publishing", pub, files, RowsAfter(s))
  BY <1>9, <1>10 DEF After
<1>12. QED
  BY <1>2, <1>3, <1>5, <1>6, <1>11 DEF Follows, FollowInv

\* One file is published: it becomes what the rows say, unless it is torn.
LEMMA PublishFileFollows ==
  ASSUME ContentInv, NEW s \in Session, Follows(s),
         PublishWrite(s) \/ \E u \in UUID : PublishDelete(s, u) \/ PublishOpen(s, u)
  PROVE  Follows(s)'
<1>1. /\ Publishing(s)
      /\ UNCHANGED <<db, sa, rt, want, pc>>
      /\ publish[s] \in Publication /\ publish \in [Session -> Publication]
      /\ files \in [UUID -> Cell \cup {Torn}]
  BY ContentFacts DEF PublishWrite, PublishDelete, PublishOpen, dbVars, TypeOK
<1>2. /\ publish[s].deleted \subseteq rt[s][1].deleted
      /\ publish[s].set \subseteq rt[s][1].set
      /\ publish[s].open \in publish[s].set \cup {NullMark}
      /\ WellFormed(rt[s][1])
  BY <1>1, PublishingFacts, ContentFacts
<1>3. CASE sa[s][1].state # "COMMITTED"
  <2>1. Before(sa[s], rt[s], want[s], pc[s], files, db)
    BY <1>3 DEF Follows, FollowInv
  <2>2. EventFitsState(sa[s], rt[s], pc[s])
    BY ContentFacts DEF StagedOf, StagedInv
  <2>3. pc[s] = "republishing"
    BY <1>1, <1>3, <2>2 DEF Publishing, EventFitsState
  <2>4. publish[s].deleted = {} /\ publish[s].set = {} /\ publish[s].open = NullMark
    BY <1>2, <2>1, <2>3 DEF Before, StagesNothing
  <2>5. QED
    BY <2>4 DEF PublishWrite, PublishDelete, PublishOpen
<1>4. CASE sa[s][1].state = "COMMITTED"
  <2> DEFINE pub == publish'[s]
             left == pub.deleted \cup pub.set
             todo == publish[s].deleted \cup publish[s].set
  <2>1. After(rt[s][1], pc[s], publish[s], files, db)
    BY <1>4 DEF Follows, FollowInv
  <2>2. ASSUME NEW u \in UUID, u \notin todo
        PROVE  files[u] = db[u]
    BY <1>1, <2>1, <2>2 DEF After, Publishing
  <2>3. ASSUME NEW u \in UUID, u \in rt[s][1].deleted
        PROVE  db[u] = Absent
    BY <2>1, <2>3 DEF After, Knows, Overlay
  <2>4. ASSUME NEW u \in UUID, u \in rt[s][1].set
        PROVE  db[u] = rt[s][1].dir[u]
    BY <1>2, <2>1, <2>4 DEF After, Knows, Overlay, WellFormed
  <2>5. /\ left \subseteq todo
        /\ \A v \in UUID : v \notin left => files'[v] = db[v]
        /\ \A v \in UUID : v \notin todo => files'[v] = files[v]
    <3>1. ASSUME NEW u \in UUID, PublishDelete(s, u)
          PROVE  <2>5
      <4>1. publish'[s] = [publish[s] EXCEPT !.deleted = @ \ {u}]
        BY <1>1, <3>1 DEF PublishDelete
      <4>2. files' = [files EXCEPT ![u] = Absent] /\ u \in publish[s].deleted
        BY <3>1 DEF PublishDelete
      <4>3. pub.deleted = publish[s].deleted \ {u} /\ pub.set = publish[s].set
        BY <1>1, <4>1 DEF Publication
      <4>4. files'[u] = Absent /\ \A v \in UUID : v # u => files'[v] = files[v]
        BY <1>1, <4>2
      <4>5. db[u] = Absent
        BY <1>2, <2>3, <4>2
      <4> HIDE DEF pub
      <4>6. QED
        BY <2>2, <4>2, <4>3, <4>4, <4>5
    <3>2. ASSUME NEW u \in UUID, PublishOpen(s, u)
          PROVE  <2>5
      <4>1. publish'[s] = [publish[s] EXCEPT !.open = u]
        BY <1>1, <3>2 DEF PublishOpen
      <4>2. files' = [files EXCEPT ![u] = Torn] /\ u \in publish[s].set
        BY <3>2 DEF PublishOpen
      <4>3. pub.deleted = publish[s].deleted /\ pub.set = publish[s].set
        BY <1>1, <4>1 DEF Publication
      <4>4. \A v \in UUID : v # u => files'[v] = files[v]
        BY <1>1, <4>2
      <4> HIDE DEF pub
      <4>5. QED
        BY <2>2, <4>2, <4>3, <4>4
    <3>3. CASE PublishWrite(s)
      <4> DEFINE u == publish[s].open
      <4>1. u \in publish[s].set /\ u \in UUID
        BY <1>1, <1>2, <3>3 DEF PublishWrite, Publication
      <4>2. files' = [files EXCEPT ![u] = rt[s][1].dir[u]]
        BY <3>3 DEF PublishWrite
      <4>3. publish'[s] = [publish[s] EXCEPT !.set = @ \ {u}, !.open = NullMark]
        BY <1>1, <3>3 DEF PublishWrite
      <4> HIDE DEF u
      <4>4. pub.deleted = publish[s].deleted /\ pub.set = publish[s].set \ {u}
        BY <1>1, <4>3 DEF Publication
      <4>5. files'[u] = rt[s][1].dir[u] /\ \A v \in UUID : v # u => files'[v] = files[v]
        BY <1>1, <4>1, <4>2
      <4>6. db[u] = rt[s][1].dir[u]
        BY <1>2, <2>4, <4>1
      <4> HIDE DEF pub
      <4>7. QED
        BY <2>2, <4>1, <4>4, <4>5, <4>6
    <3>4. QED
      BY <3>1, <3>2, <3>3
  <2> HIDE DEF pub
  <2>6. todo \subseteq rt[s][1].deleted \cup rt[s][1].set
    BY <1>2
  <2>7. After(rt[s][1], pc[s], pub, files', db)
    <3>1. ASSUME NEW u \in UUID, ~Knows(rt[s][1], u)
          PROVE  files'[u] = db[u]
      BY <2>5, <2>6, <3>1 DEF Knows
    <3>2. QED
      BY <2>1, <2>5, <3>1 DEF After
  <2>8. QED
    BY <1>1, <1>4, <2>7 DEF Follows, FollowInv, Publishing, pub
<1>5. QED
  BY <1>3, <1>4

\* All is published.
LEMMA PublishEndFollows ==
  ASSUME ContentInv, NEW s \in Session, Follows(s), PublishEnd(s)
  PROVE  Follows(s)'
<1> DEFINE chain == [rt[s] EXCEPT ![Len(rt[s])] = ClearedTransaction]
<1>1. /\ Publishing(s) /\ publish[s] = NoPublication
      /\ UNCHANGED <<files, db, sa, want, publish>>
      /\ rt'[s] = chain /\ pc'[s] = "ending"
  BY ContentFacts DEF PublishEnd, ClearTop, dbVars, TypeOK
<1>2. Len(sa[s]) = 1
  BY <1>1, PublishingFacts
<1>3. chain[1] = ClearedTransaction
  <2>1. rt[s] \in Seq(RepositoryTransactions) /\ Len(rt[s]) = 1
    BY <1>2, ContentFacts DEF TypeOK
  <2>2. QED
    BY <2>1, FreshTransactions, ExceptSeq
<1> HIDE DEF chain
<1>4. \A u : ~Knows(chain[1], u)
  BY <1>3, FreshStagesNothing, NothingKnown
<1>5. CASE sa[s][1].state # "COMMITTED"
  <2>1. Before(sa[s], rt[s], want[s], pc[s], files, db)
    BY <1>5 DEF Follows, FollowInv
  <2>2. EventFitsState(sa[s], rt[s], pc[s])
    BY ContentFacts DEF StagedOf, StagedInv
  <2>3. pc[s] = "republishing"
    BY <1>1, <1>5, <2>2 DEF Publishing, EventFitsState
  <2>4. \A u : ~Knows(rt[s][1], u)
    BY <2>1, <2>3, NothingKnown DEF Before
  <2>5. \A i \in 0 .. 1, u \in UUID : ~Known(rt[s], i, u)
    BY <2>4 DEF Known
  <2>6. StagesItsRows(sa[s], chain, want[s], db)
    BY <1>2, <2>1, <2>5 DEF Before, StagesItsRows, Tells
  <2>7. QED
    BY <1>1, <1>5, <2>1, <2>6 DEF Follows, FollowInv, Before
<1>6. CASE sa[s][1].state = "COMMITTED"
  <2>1. After(rt[s][1], pc[s], publish[s], files, db)
    BY <1>6 DEF Follows, FollowInv
  <2>2. \A u \in UUID : files[u] = db[u]
    BY <1>1, <2>1 DEF After, Publishing, NoPublication
  <2>3. After(chain[1], "ending", publish[s], files, db)
    BY <1>4, <2>2 DEF After
  <2>4. QED
    BY <1>1, <1>6, <2>3 DEF Follows, FollowInv
<1>7. QED
  BY <1>5, <1>6

\* Publishing fails after the commit: what is staged stays.
LEMMA PublishFailsFollows ==
  ASSUME ContentInv, NEW s \in Session, Follows(s), PublishFails(s)
  PROVE  Follows(s)'
<1>1. /\ pc[s] = "publishing" /\ pc'[s] = "failed"
      /\ UNCHANGED <<files, db, sa, rt, want>>
  BY ContentFacts DEF PublishFails, dbVars, TypeOK
<1>2. EventFitsState(sa[s], rt[s], pc[s])
  BY ContentFacts DEF StagedOf, StagedInv
<1>3. sa[s][1].state = "COMMITTED"
  BY <1>1, <1>2 DEF EventFitsState
<1>4. After(rt[s][1], pc[s], publish[s], files, db)
  BY <1>3 DEF Follows, FollowInv
<1>5. After(rt[s][1], "failed", publish'[s], files, db)
  BY <1>4 DEF After
<1>6. QED
  BY <1>1, <1>3, <1>5 DEF Follows, FollowInv

\* Closing: rows that were not committed are not wanted any more.
LEMMA CloseFollows ==
  ASSUME ContentInv, NEW s \in Session, Follows(s), Close(s)
  PROVE  Follows(s)'
<1>1. /\ UNCHANGED <<files, db, sa, rt, publish>>
      /\ want'[s] = NoWish /\ pc'[s] = "closing"
      /\ pc[s] \in {"failed", "idle"}
  BY ContentFacts DEF Close, Idle, dbVars, TypeOK
<1>2. CASE sa[s][1].state = "COMMITTED"
  <2>1. After(rt[s][1], pc[s], publish[s], files, db)
    BY <1>2 DEF Follows, FollowInv
  <2>2. After(rt[s][1], "closing", publish[s], files, db)
    BY <2>1 DEF After
  <2>3. QED
    BY <1>1, <1>2, <2>2 DEF Follows, FollowInv
<1>3. CASE sa[s][1].state # "COMMITTED"
  <2>1. Before(sa[s], rt[s], want[s], pc[s], files, db)
    BY <1>3 DEF Follows, FollowInv
  <2>2. \A n : Tells(rt[s], n, NoWish, db)
    BY DEF Tells, NoWish
  <2>3. Before(sa[s], rt[s], NoWish, "closing", files, db)
    BY <2>1, <2>2 DEF Before, StagesItsRows
  <2>4. QED
    BY <1>1, <1>3, <2>3 DEF Follows, FollowInv
<1>4. QED
  BY <1>2, <1>3

\* The root ends uncleared: what is staged is published again, if anything is.
LEMMA EndRootUnclearedFollows ==
  ASSUME ContentInv, NEW s \in Session, Follows(s), EndRootUncleared(s)
  PROVE  Follows(s)'
<1>1. /\ pc[s] \in {"ending", "closing"} /\ Len(sa[s]) = 1
      /\ ~rt[s][1].cleared
      /\ UNCHANGED <<files, db, sa, want, rt>>
      /\ pc'[s] = "republishing"
  BY ContentFacts DEF EndRootUncleared, dbVars, TypeOK
<1>2. publish'[s].deleted = rt[s][1].deleted /\ publish'[s].set = rt[s][1].set
  BY ContentFacts DEF EndRootUncleared, TypeOK, Publication
<1>3. CASE sa[s][1].state # "COMMITTED"
  <2>1. StagedInv(sa[s], rt[s], want[s], pc[s], publish[s], past)
    BY ContentFacts DEF StagedOf
  <2>2. sa[s][1].kind = "root"
    BY ContentFacts
  <2>3. pc[s] = "ending" => sa[s][1].state = "DEACTIVE"
    BY <1>1, <2>1, <2>2 DEF StagedInv, EventFitsState
  <2>4. StagesNothing(rt[s][1])
    BY <1>1, <1>3, <2>1, <2>3 DEF StagedInv, NothingLeft
  <2>5. Before(sa[s], rt[s], want[s], pc[s], files, db)
    BY <1>3 DEF Follows, FollowInv
  <2>6. QED
    BY <1>1, <1>3, <2>4, <2>5 DEF Follows, FollowInv, Before
<1>4. CASE sa[s][1].state = "COMMITTED"
  <2>1. After(rt[s][1], pc[s], publish[s], files, db)
    BY <1>4 DEF Follows, FollowInv
  <2>2. After(rt[s][1], "republishing", publish'[s], files, db)
    BY <1>1, <1>2, <2>1 DEF After, Knows
  <2>3. QED
    BY <1>1, <1>4, <2>2 DEF Follows, FollowInv
<1>5. QED
  BY <1>3, <1>4

\* A session starts with files that are as the rows say.
LEMMA FreshFollows ==
  ASSUME NEW pub, NEW disk
  PROVE  FollowInv(<<Frame("root", NoWish)>>, <<NewTransaction>>, NoWish, "idle",
                   pub, disk, disk)
<1> DEFINE stack == <<Frame("root", NoWish)>>
           chain == <<NewTransaction>>
<1>1. Len(stack) = 1 /\ stack[1] = Frame("root", NoWish)
  OBVIOUS
<1> HIDE DEF stack, chain
<1>2. \A n : Tells(chain, n, NoWish, disk)
  BY DEF Tells, NoWish
<1>3. stack[1].state = "ACTIVE" /\ stack[1].saved = NoWish
  BY <1>1 DEF Frame
<1>4. StagesItsRows(stack, chain, NoWish, disk)
  BY <1>1, <1>2, <1>3 DEF StagesItsRows
<1>5. QED
  BY <1>3, <1>4 DEF FollowInv, Before, stack, chain

\* The root ended: files are as the rows say.
LEMMA EndRootFollows ==
  ASSUME ContentInv, NEW s \in Session, Follows(s), EndRoot(s)
  PROVE  Follows(s)'
<1>1. /\ sa'[s] = <<Frame("root", NoWish)>> /\ rt'[s] = <<NewTransaction>>
      /\ want'[s] = NoWish /\ pc'[s] = "idle"
      /\ UNCHANGED <<files, db, publish>>
      /\ Len(sa[s]) = 1 /\ rt[s][1].cleared
  BY ContentFacts DEF EndRoot, dbVars, TypeOK
<1>2. files = db
  <2>1. CASE sa[s][1].state # "COMMITTED"
    BY <2>1 DEF Follows, FollowInv, Before
  <2>2. CASE sa[s][1].state = "COMMITTED"
    <3>1. StagesNothing(rt[s][1])
      BY <1>1, ContentFacts DEF StagedOf, StagedInv, NothingLeft
    <3>2. \A u \in UUID : files[u] = db[u]
      BY <2>2, <3>1, NothingKnown DEF Follows, FollowInv, After
    <3>3. files \in [UUID -> Cell \cup {Torn}] /\ db \in [UUID -> Cell]
      BY ContentFacts DEF TypeOK
    <3>4. QED
      BY <3>2, <3>3
  <2>3. QED
    BY <2>1, <2>2
<1>3. QED
  BY <1>1, <1>2, FreshFollows DEF Follows

\* If one of n transactions knows a uuid, one is the last to.
LEMMA LastKnower ==
  ASSUME NEW chain, NEW n \in Nat, NEW u, Known(chain, n, u)
  PROVE  \E j \in 1 .. n : /\ Knows(chain[j], u)
                           /\ \A k \in 1 .. n : k > j => ~Knows(chain[k], u)
<1> DEFINE K == {j \in 1 .. n : Knows(chain[j], u)}
           Distance == {n - j : j \in K}
<1>1. K # {} /\ \A j \in K : n - j \in Nat
  BY DEF Known
<1>2. Distance # {} /\ Distance \in SUBSET Nat
  BY <1>1
<1>3. PICK d \in Distance : \A e \in Distance : d <= e
  BY <1>2, LeastNatural
<1>4. PICK j \in K : d = n - j
  OBVIOUS
<1>5. ASSUME NEW k \in K
      PROVE  k <= j
  <2>1. n - j <= n - k
    BY <1>3, <1>4
  <2>2. QED
    BY <2>1
<1>6. \A k \in 1 .. n : k > j => ~Knows(chain[k], u)
  BY <1>5
<1>7. QED
  BY <1>4, <1>6

--------------------------------------------------------------------------------
(* Files follow rows.                                                      *)

FollowsInv == ContentInv /\ \A s \in Session : Follows(s)

\* Nothing else may go wrong, then.
LEMMA AloneLosesNothing ==
  ASSUME Alone
  PROVE  /\ NothingStagedIsLost
         /\ "io_error_at_end" \notin Faults /\ "crash" \notin Faults
  BY DEF Alone, NothingStagedIsLost

LEMMA StepFollows ==
  ASSUME Alone, FollowsInv, [Next]_vars
  PROVE  FollowsInv'
<1>1. NothingStagedIsLost /\ ContentInv
  BY AloneLosesNothing DEF FollowsInv
<1>2. ContentInv'
  BY <1>1, StepContent
<1>3. CASE UNCHANGED vars
  <2>1. ASSUME NEW s \in Session
        PROVE  Follows(s)'
    BY <1>3 DEF vars, dbVars, FollowsInv, Follows
  <2>2. QED
    BY <1>2, <2>1 DEF FollowsInv
<1>4. CASE Next
  <2> PICK s \in Session :
        \/ \E u \in UUID, c \in Content : SetContent(s, u, c)
        \/ \E u \in UUID : DeleteContent(s, u) \/ DeleteBlob(s, u)
        \/ BeginNested(s) \/ BeginSub(s)
        \/ Flush(s)
        \/ Rollback(s) \/ RollbackDeactivated(s)
        \/ CommitSub(s) \/ CommitNested(s) \/ CommitRoot(s)
        \/ Publish(s) \/ PublishFails(s) \/ RepublishFails(s)
        \/ End(s)
        \/ Close(s) \/ NewContext(s)
        \/ Crash(s)
    BY <1>4 DEF Next
  <2>. SUFFICES Follows(s)'
    <3>1. \A t \in Session : t = s
      BY DEF Alone
    <3>2. QED
      BY <1>2, <3>1 DEF FollowsInv
  <2>0. Follows(s) /\ pc[s] # "broken"
    BY DEF FollowsInv, Follows, FollowInv
  <2>a. /\ Last(rt[s]) \in RepositoryTransactions /\ WellFormed(Last(rt[s]))
    BY <1>1, ContentFacts
  <2>1. ASSUME NEW u \in UUID, NEW c \in Content, SetContent(s, u, c)
        PROVE  Follows(s)'
    <3> DEFINE tr == Staged(Last(rt[s]), u, c)
    <3>1. /\ tr \in RepositoryTransactions /\ Knows(tr, u)
          /\ \A v \in UUID : v # u => Knows(tr, v) = Knows(Last(rt[s]), v)
      BY <2>a, StagedProperties, StagedOverlay
    <3>2. /\ rt' = [rt EXCEPT ![s][Len(rt[s])] = tr]
          /\ want' = [want EXCEPT ![s][u] = c]
          /\ UNCHANGED <<files, db, sa, pc>> /\ pc[s] \in {"idle", "flushing"}
      BY <2>1 DEF SetContent, dbVars, Usable, Idle
    <3> HIDE DEF tr
    <3>3. QED
      BY <1>1, <2>0, <3>1, <3>2, NewWordFollows
  <2>2. ASSUME NEW u \in UUID, pc[s] \in {"idle", "flushing"},
               rt' = [rt EXCEPT ![s][Len(rt[s])] = Unstaged(Last(rt[s]), u)],
               want' = [want EXCEPT ![s][u] = Absent],
               UNCHANGED <<files, db, sa, pc>>
        PROVE  Follows(s)'
    <3> DEFINE tr == Unstaged(Last(rt[s]), u)
    <3>1. /\ tr \in RepositoryTransactions /\ Knows(tr, u)
          /\ \A v \in UUID : v # u => Knows(tr, v) = Knows(Last(rt[s]), v)
      BY <2>a, UnstagedProperties, UnstagedOverlay
    <3>2. rt' = [rt EXCEPT ![s][Len(rt[s])] = tr]
      BY <2>2
    <3> HIDE DEF tr
    <3>3. QED
      BY <1>1, <2>0, <2>2, <3>1, <3>2, NewWordFollows
  <2>3. ASSUME NEW u \in UUID, DeleteContent(s, u)
        PROVE  Follows(s)'
    BY <2>2, <2>3 DEF DeleteContent, Usable, Idle, dbVars
  <2>4. ASSUME NEW u \in UUID, PropagateDelete(s, u)
        PROVE  Follows(s)'
    <3>1. /\ pc[s] = "flushing" /\ want' = [want EXCEPT ![s][u] = Absent]
          /\ UNCHANGED <<files, db, sa, pc>>
      BY <2>4 DEF PropagateDelete, dbVars
    <3>2. CASE Get(s, u) = Absent
      BY <1>1, <2>0, <2>4, <3>1, <3>2, AlreadyAbsentFollows DEF PropagateDelete
    <3>3. CASE Get(s, u) # Absent
      BY <2>2, <2>4, <3>1, <3>3 DEF PropagateDelete
    <3>4. QED
      BY <3>2, <3>3
  <2>5. CASE BeginNested(s) \/ BeginSub(s) \/ FlushBegin(s)
    <3> DEFINE savepoint == Frame("nested", want[s])
               sub == Frame("sub", NoWish)
    <3>1. /\ savepoint \in SessionTransactions
          /\ savepoint.kind = "nested" /\ savepoint.saved = want[s]
          /\ sub \in SessionTransactions /\ sub.kind = "sub"
      BY <1>1, ContentFacts DEF Frame, SessionTransactions, NoWish, Wish
    <3> HIDE DEF savepoint, sub
    <3>2. CASE BeginNested(s)
      <4>1. /\ Usable(s) /\ sa' = [sa EXCEPT ![s] = Append(@, savepoint)]
            /\ CreateTransaction(s) /\ UNCHANGED <<files, db, want>>
            /\ pc' = [pc EXCEPT ![s] = "idle"]
        BY <1>1, <3>2, ContentFacts
           DEF BeginNested, Usable, Idle, dbVars, savepoint, TypeOK
      <4>2. PICK frame \in SessionTransactions : frame = savepoint
        BY <3>1
      <4>3. /\ frame.kind = "nested" /\ frame.saved = want[s]
            /\ sa' = [sa EXCEPT ![s] = Append(@, frame)]
        BY <3>1, <4>1, <4>2
      <4>4. QED
        BY <1>1, <2>0, <4>1, <4>3, OpenFollows
    <3>3. CASE BeginSub(s)
      <4>1. /\ Usable(s) /\ sa' = [sa EXCEPT ![s] = Append(@, sub)]
            /\ CreateTransaction(s) /\ UNCHANGED <<files, db, want>>
            /\ pc' = [pc EXCEPT ![s] = "idle"]
        BY <1>1, <3>3, ContentFacts DEF BeginSub, Usable, Idle, dbVars, sub, TypeOK
      <4>2. QED
        BY <1>1, <2>0, <3>1, <4>1, OpenFollows
    <3>4. CASE FlushBegin(s)
      <4>1. /\ Usable(s) /\ sa' = [sa EXCEPT ![s] = Append(@, sub)]
            /\ CreateTransaction(s) /\ UNCHANGED <<files, db, want>>
            /\ pc' = [pc EXCEPT ![s] = "flushing"]
        BY <3>4 DEF FlushBegin, dbVars, sub
      <4>2. QED
        BY <1>1, <2>0, <3>1, <4>1, OpenFollows
    <3>5. QED
      BY <2>5, <3>2, <3>3, <3>4
  <2>6. CASE FlushCommit(s) \/ CommitNested(s) \/ CommitRoot(s)
    BY <1>1, <2>0, <2>6, FlushCommitFollows, CommitNestedFollows, CommitRootFollows
  <2>7. CASE FlushFails(s) \/ Rollback(s)
    BY <1>1, <2>0, <2>7, FlushingFacts, RollbackFollows
       DEF FlushFails, Rollback, Usable, Idle
  <2>8. CASE (\E u \in UUID : DeleteBlob(s, u)) \/ RollbackDeactivated(s) \/ CommitSub(s)
    BY <1>1, <2>0, <2>8, QuietFollows
  <2>9. CASE Publish(s) \/ PublishFails(s)
    BY <1>1, <2>0, <2>9, PublishFileFollows, PublishEndFollows, PublishFailsFollows
       DEF Publish
  <2>10. CASE EndInner(s) \/ EndRoot(s) \/ EndRootUncleared(s) \/ Close(s)
    BY <1>1, <2>0, <2>10, EndInnerFollows, EndRootFollows, EndRootUnclearedFollows,
       CloseFollows
  <2>11. ~RepublishFails(s) /\ ~NewContext(s) /\ ~Crash(s)
    BY <2>0, AloneLosesNothing DEF RepublishFails, NewContext, Crash
  <2>12. QED
    BY <2>1, <2>3, <2>4, <2>5, <2>6, <2>7, <2>8, <2>9, <2>10, <2>11 DEF Flush, End
<1>5. QED
  BY <1>3, <1>4

\* At first every file is as its row says, and nothing is staged.
LEMMA InitFollows == Init => FollowsInv
<1> SUFFICES ASSUME Init PROVE FollowsInv
  OBVIOUS
<1>1. ContentInv
  BY InitContent
<1>2. ASSUME NEW s \in Session
      PROVE  Follows(s)
  <2>1. /\ sa[s] = <<Frame("root", NoWish)>> /\ rt[s] = <<NewTransaction>>
        /\ want[s] = NoWish /\ pc[s] = "idle" /\ db = files
    BY DEF Init
  <2>2. QED
    BY <2>1, FreshFollows DEF Follows
<1>3. QED
  BY <1>1, <1>2 DEF FollowsInv

LEMMA FollowsInvariant == Spec => [](Alone => FollowsInv)
<1>1. Init => (Alone => FollowsInv)
  BY InitFollows
<1>2. (Alone => FollowsInv) /\ [Next]_vars => (Alone => FollowsInv)'
  BY StepFollows DEF Alone
<1>3. QED
  BY <1>1, <1>2, PTL DEF Spec

\* Once the session is not committing, files are as the rows say.
LEMMA FollowsImpliesFiles ==
  ASSUME Alone, FollowsInv
  PROVE  FilesFollowRows
<1> PICK s : Session = {s}
  BY DEF Alone
<1>1. ContentInv /\ s \in Session /\ Follows(s)
  BY DEF FollowsInv
<1>2. SUFFICES ASSUME ~Publishing(s), pc[s] \notin {"failed", "closing"},
                      Top(s).state # "COMMITTED"
               PROVE  files = db
  BY DEF FilesFollowRows
<1>3. CASE sa[s][1].state # "COMMITTED"
  BY <1>1, <1>3 DEF Follows, FollowInv, Before
<1>4. CASE sa[s][1].state = "COMMITTED"
  <2>1. StatesInOrder(sa[s])
    BY <1>1, ContentFacts DEF StagedOf, StagedInv
  <2>2. Len(sa[s]) \in Nat \ {0} /\ Top(s) = sa[s][Len(sa[s])]
    BY <1>1, ContentFacts
  <2>3. Len(sa[s]) = 1
    <3> DEFINE n == Len(sa[s])
    <3>1. n # 1 => 1 \in 1 .. n /\ n \in 1 .. n /\ 1 < n
      <4>1. n \in Nat \ {0}
        BY <2>2
      <4> HIDE DEF n
      <4>2. QED
        BY <4>1
    <3>2. \A j \in 1 .. n : ~(1 < j /\ 1 \in 1 .. n)
      BY <1>4, <2>1 DEF StatesInOrder
    <3> HIDE DEF n
    <3>3. n = 1
      BY <3>1, <3>2
    <3>4. QED
      BY <3>3 DEF n
  <2>4. QED
    BY <1>2, <1>4, <2>2, <2>3
<1>5. QED
  BY <1>3, <1>4

(***************************************************************************)
(* A session that is alone, and has neither crashed nor failed twice to    *)
(* publish, leaves every file as the committed rows say: after any nesting *)
(* of savepoints, subtransactions, flushes and rollbacks.                  *)
(***************************************************************************)
THEOREM FilesFollow == Spec => [](Alone => FilesFollowRows)
<1>1. (Alone => FollowsInv) => (Alone => FilesFollowRows)
  BY FollowsImpliesFiles
<1>2. QED
  BY <1>1, FollowsInvariant, PTL

\* get() finds the row's content, or the file of a row that was not changed.
LEMMA FollowsImpliesReads ==
  ASSUME Alone, FollowsInv
  PROVE  SessionSeesItsWork
<1> SUFFICES ASSUME NEW s \in Session, NEW u \in UUID, Usable(s)
             PROVE  Get(s, u) = IF want[s][u] = NullMark THEN files[u]
                                                         ELSE want[s][u]
  BY DEF SessionSeesItsWork
<1> DEFINE n == Len(sa[s])
<1>1. ContentInv /\ Follows(s) /\ pc[s] = "idle"
  BY DEF FollowsInv, Usable, Idle
<1>2. /\ Before(sa[s], rt[s], want[s], pc[s], files, db)
      /\ sa[s][1].state # "COMMITTED"
  BY <1>1, AtWork
<1>3. /\ rt[s] \in Seq(RepositoryTransactions) /\ Len(rt[s]) = n /\ n \in Nat
      /\ DOMAIN rt[s] = 1 .. n
  BY <1>1, ContentFacts, LenProperties DEF TypeOK
<1>4. Agrees(rt[s], n, want[s]) /\ Tells(rt[s], n, want[s], db) /\ files = db
  BY <1>1, <1>2, ContentFacts
     DEF StagedOf, StagedInv, AgreesWithRows, Before, StagesItsRows
<1>5. CASE ~Known(rt[s], n, u)
  <2>1. Lookup(rt[s], u) = NullMark
    BY <1>3, <1>5 DEF Lookup, Known
  <2>2. Get(s, u) = files[u]
    BY <2>1 DEF Get
  <2>3. want[s][u] \in {NullMark, files[u]}
    BY <1>4, <1>5 DEF Tells
  <2>4. QED
    BY <2>2, <2>3
<1>6. CASE Known(rt[s], n, u)
  <2>1. PICK j \in 1 .. n : /\ Knows(rt[s][j], u)
                            /\ \A k \in 1 .. n : k > j => ~Knows(rt[s][k], u)
    BY <1>3, <1>6, LastKnower
  <2>2. Lookup(rt[s], u) = Overlay(rt[s][j], u)
    <3> HIDE DEF n
    <3>1. QED
      BY <1>3, <2>1, LookupIsLastWord
  <2>3. want[s][u] = Overlay(rt[s][j], u)
    BY <1>4, <2>1 DEF Agrees
  <2>4. Overlay(rt[s][j], u) # NullMark
    BY <1>1, <2>1, ContentFacts, OverlayType
  <2>5. QED
    BY <2>2, <2>3, <2>4 DEF Get
<1>7. QED
  BY <1>5, <1>6

(***************************************************************************)
(* A session that is alone reads from the repository what its database     *)
(* transaction, with its savepoints and rollbacks, says of every blob.     *)
(***************************************************************************)
THEOREM SessionsSeeTheirWork == Spec => [](Alone => SessionSeesItsWork)
<1>1. (Alone => FollowsInv) => (Alone => SessionSeesItsWork)
  BY FollowsImpliesReads
<1>2. QED
  BY <1>1, FollowsInvariant, PTL

--------------------------------------------------------------------------------
(***************************************************************************)
(* The refinement.  A step of a session changes only its own layers.       *)
(***************************************************************************)
Layers == [s \in Session |-> LayersOf(s)]
Dead == [s \in Session |-> DeadOf(s)]
Committed == [s \in Session |-> IsCommitted(s)]
Todo == [s \in Session |-> TodoOf(s)]

Layer == [UUID -> Cell \cup {NullMark}]
LayerOf(tr) == [u \in UUID |-> Overlay(tr, u)]
Blank == [u \in UUID |-> NullMark]

IsDead(s, frame) == frame.state = "DEACTIVE" \/ (pc[s] = "closing" /\ ~IsCommitted(s))

\* What the store looks like, a layer for each transaction.
StoreOK ==
    \A s \in Session :
        /\ Layers[s] \in Seq(Layer)
        /\ Len(Layers[s]) = Len(sa[s])
        /\ \A i \in 1 .. Len(sa[s]) : Layers[s][i] = LayerOf(rt[s][i])
        /\ Dead[s] \in Seq(BOOLEAN)
        /\ Len(Dead[s]) = Len(sa[s])
        /\ \A i \in 1 .. Len(sa[s]) : Dead[s][i] = IsDead(s, sa[s][i])
        /\ Committed[s] = IsCommitted(s)
        /\ Todo[s] = TodoOf(s)

\* A transaction says of each uuid a content, an absence, or nothing.
LEMMA LayerType ==
  ASSUME NEW tr \in RepositoryTransactions
  PROVE  LayerOf(tr) \in Layer
  BY DEF LayerOf, Layer, Overlay, RepositoryTransactions, Cell

LEMMA BlankLayers ==
  /\ \A tr : StagesNothing(tr) => LayerOf(tr) = Blank
  /\ Blank \in Layer
  BY DEF LayerOf, Overlay, StagesNothing, Blank, Layer

LEMMA FunctionIsSeq ==
  ASSUME NEW S, NEW n \in Nat, NEW q \in [1 .. n -> S]
  PROVE  q \in Seq(S) /\ Len(q) = n
  OBVIOUS

LEMMA StoreTyped == IndInv => StoreOK
<1> SUFFICES ASSUME IndInv, NEW s \in Session
             PROVE  /\ Layers[s] \in Seq(Layer)
                    /\ Len(Layers[s]) = Len(sa[s])
                    /\ \A i \in 1 .. Len(sa[s]) : Layers[s][i] = LayerOf(rt[s][i])
                    /\ Dead[s] \in Seq(BOOLEAN)
                    /\ Len(Dead[s]) = Len(sa[s])
                    /\ \A i \in 1 .. Len(sa[s]) : Dead[s][i] = IsDead(s, sa[s][i])
                    /\ Committed[s] = IsCommitted(s)
                    /\ Todo[s] = TodoOf(s)
  BY DEF StoreOK
<1> DEFINE n == Len(sa[s])
<1>1. /\ sa[s] \in Seq(SessionTransactions) /\ rt[s] \in Seq(RepositoryTransactions)
      /\ Len(rt[s]) = n
  BY SessionFacts
<1>2. n \in Nat /\ DOMAIN rt[s] = 1 .. n /\ DOMAIN sa[s] = 1 .. n
  BY <1>1, LenProperties
<1>3. \A i \in 1 .. n : rt[s][i] \in RepositoryTransactions
  BY <1>1, ElementOfSeq
<1>4. Layers[s] = [i \in 1 .. n |-> LayerOf(rt[s][i])]
  BY <1>2 DEF Layers, LayersOf, LayerOf
<1>5. Dead[s] = [i \in 1 .. n |-> IsDead(s, sa[s][i])]
  BY <1>2 DEF Dead, DeadOf, IsDead
<1>6. \A i \in 1 .. n : IsDead(s, sa[s][i]) \in BOOLEAN
  BY DEF IsDead
<1> HIDE DEF n
<1>7. Layers[s] \in [1 .. n -> Layer]
  BY <1>3, <1>4, LayerType
<1>8. Dead[s] \in [1 .. n -> BOOLEAN]
  BY <1>5, <1>6
<1>9. /\ Layers[s] \in Seq(Layer) /\ Len(Layers[s]) = n
      /\ Dead[s] \in Seq(BOOLEAN) /\ Len(Dead[s]) = n
  BY <1>2, <1>7, <1>8, FunctionIsSeq
<1>10. Committed[s] = IsCommitted(s) /\ Todo[s] = TodoOf(s)
  BY DEF Committed, Todo
<1>11. QED
  BY <1>4, <1>5, <1>9, <1>10 DEF n

LEMMA StoreTypedNext == IndInv' => StoreOK'
  BY StoreTyped, PTL

\* Sequences with the same elements are the same.
LEMMA SameElements ==
  ASSUME NEW S, NEW q \in Seq(S), NEW r \in Seq(S), Len(q) = Len(r),
         \A i \in 1 .. Len(q) : q[i] = r[i]
  PROVE  q = r
  OBVIOUS

\* A step of one session leaves what the others have in the store.
LEMMA StoreOfOne ==
  ASSUME NEW s \in Session,
         \A t \in Session \ {s} :
            /\ sa'[t] = sa[t] /\ rt'[t] = rt[t]
            /\ pc'[t] = pc[t] /\ publish'[t] = publish[t]
  PROVE  /\ Layers' = [Layers EXCEPT ![s] = Layers'[s]]
         /\ Dead' = [Dead EXCEPT ![s] = Dead'[s]]
         /\ Committed' = [Committed EXCEPT ![s] = Committed'[s]]
         /\ Todo' = [Todo EXCEPT ![s] = Todo'[s]]
<1>1. \A t \in Session \ {s} : LayersOf(t)' = LayersOf(t)
  BY DEF LayersOf
<1>2. \A t \in Session \ {s} : IsCommitted(t)' = IsCommitted(t)
  BY DEF IsCommitted
<1>3. \A t \in Session \ {s} : DeadOf(t)' = DeadOf(t)
  BY <1>2 DEF DeadOf, IsCommitted
<1>4. \A t \in Session \ {s} : TodoOf(t)' = TodoOf(t)
  BY <1>2 DEF TodoOf, IsCommitted, Publishing
<1>5. QED
  BY <1>1, <1>2, <1>3, <1>4 DEF Layers, Dead, Committed, Todo

LayerTodo(committed, event, pub, tr) ==
    IF ~committed THEN {}
    ELSE IF event \in {"publishing", "republishing"} THEN pub.deleted \cup pub.set
    ELSE IF event \in {"failed", "closing", "broken"} THEN tr.deleted \cup tr.set
    ELSE {}

\* What the store looks like of one session, now and after a step.
LEMMA StoreNow ==
  ASSUME IndInv, NEW s \in Session
  PROVE  /\ Layers[s] \in Seq(Layer)
         /\ Len(Layers[s]) = Len(sa[s])
         /\ \A i \in 1 .. Len(sa[s]) : Layers[s][i] = LayerOf(rt[s][i])
         /\ Dead[s] \in Seq(BOOLEAN)
         /\ Len(Dead[s]) = Len(sa[s])
         /\ \A i \in 1 .. Len(sa[s]) :
                Dead[s][i] = (sa[s][i].state = "DEACTIVE"
                              \/ (pc[s] = "closing" /\ sa[s][1].state # "COMMITTED"))
         /\ Committed[s] = (sa[s][1].state = "COMMITTED")
         /\ Todo[s] = LayerTodo(sa[s][1].state = "COMMITTED", pc[s], publish[s], rt[s][1])
<1>1. StoreOK
  BY StoreTyped
<1>2. Todo[s] = LayerTodo(sa[s][1].state = "COMMITTED", pc[s], publish[s], rt[s][1])
  BY <1>1 DEF StoreOK, TodoOf, LayerTodo, IsCommitted, Publishing
<1>3. QED
  BY <1>1, <1>2 DEF StoreOK, IsDead, IsCommitted

LEMMA StoreNext ==
  ASSUME IndInv', NEW s \in Session
  PROVE  /\ Layers'[s] \in Seq(Layer)
         /\ Len(Layers'[s]) = Len(sa'[s])
         /\ \A i \in 1 .. Len(sa'[s]) : Layers'[s][i] = LayerOf(rt'[s][i])
         /\ Dead'[s] \in Seq(BOOLEAN)
         /\ Len(Dead'[s]) = Len(sa'[s])
         /\ \A i \in 1 .. Len(sa'[s]) :
                Dead'[s][i] = (sa'[s][i].state = "DEACTIVE"
                               \/ (pc'[s] = "closing" /\ sa'[s][1].state # "COMMITTED"))
         /\ Committed'[s] = (sa'[s][1].state = "COMMITTED")
         /\ Todo'[s] = LayerTodo(sa'[s][1].state = "COMMITTED", pc'[s], publish'[s], rt'[s][1])
<1>1. StoreOK'
  BY StoreTypedNext
<1>2. Todo'[s] = LayerTodo(sa'[s][1].state = "COMMITTED", pc'[s], publish'[s], rt'[s][1])
  BY <1>1 DEF StoreOK, TodoOf, LayerTodo, IsCommitted, Publishing
<1>3. QED
  BY <1>1, <1>2 DEF StoreOK, IsDead, IsCommitted

\* The layers, and which of them are dead, after a step.
LEMMA NewLayers ==
  ASSUME IndInv', NEW s \in Session, NEW q \in Seq(Layer), Len(q) = Len(sa'[s]),
         \A i \in 1 .. Len(q) : q[i] = LayerOf(rt'[s][i])
  PROVE  Layers'[s] = q
<1>1. /\ Layers'[s] \in Seq(Layer) /\ Len(Layers'[s]) = Len(q)
      /\ \A i \in 1 .. Len(Layers'[s]) : Layers'[s][i] = q[i]
  BY StoreNext
<1> DEFINE r == Layers'[s]
<1>2. r \in Seq(Layer) /\ Len(r) = Len(q) /\ \A i \in 1 .. Len(r) : r[i] = q[i]
  BY <1>1
<1> HIDE DEF r
<1>3. r = q
  BY <1>2, SameElements
<1>4. QED
  BY <1>3 DEF r

LEMMA NewDead ==
  ASSUME IndInv', NEW s \in Session, NEW q \in Seq(BOOLEAN), Len(q) = Len(sa'[s]),
         \A i \in 1 .. Len(q) :
            q[i] = (sa'[s][i].state = "DEACTIVE"
                    \/ (pc'[s] = "closing" /\ sa'[s][1].state # "COMMITTED"))
  PROVE  Dead'[s] = q
<1>1. /\ Dead'[s] \in Seq(BOOLEAN) /\ Len(Dead'[s]) = Len(q)
      /\ \A i \in 1 .. Len(Dead'[s]) : Dead'[s][i] = q[i]
  BY StoreNext
<1> DEFINE r == Dead'[s]
<1>2. r \in Seq(BOOLEAN) /\ Len(r) = Len(q) /\ \A i \in 1 .. Len(r) : r[i] = q[i]
  BY <1>1
<1> HIDE DEF r
<1>3. r = q
  BY <1>2, SameElements
<1>4. QED
  BY <1>3 DEF r

\* Merging two layers is merging two transactions.
LEMMA MergedLayer ==
  ASSUME NEW p \in RepositoryTransactions, WellFormed(p),
         NEW c \in RepositoryTransactions, WellFormed(c)
  PROVE  Store!Over(LayerOf(c), LayerOf(p)) = LayerOf(MergedInto(p, c))
<1>1. ASSUME NEW u \in UUID
      PROVE  (IF Overlay(c, u) = NullMark THEN Overlay(p, u) ELSE Overlay(c, u))
                = Overlay(MergedInto(p, c), u)
  <2>1. CASE Knows(c, u)
    BY <2>1, MergedOverlay, OverlayType
  <2>2. CASE ~Knows(c, u)
    <3>1. Overlay(c, u) = NullMark
      BY <2>2 DEF Knows, Overlay
    <3>2. QED
      BY <2>2, <3>1, MergedOverlay
  <2>3. QED
    BY <2>1, <2>2
<1>2. QED
  BY <1>1 DEF Store!Over, LayerOf

LEMMA ChangesOfLayer ==
  ASSUME NEW tr \in RepositoryTransactions, WellFormed(tr)
  PROVE  Store!Changes(LayerOf(tr)) = tr.deleted \cup tr.set
<1>1. ASSUME NEW u \in UUID
      PROVE  Overlay(tr, u) # NullMark <=> u \in tr.deleted \cup tr.set
  BY OverlayType DEF Knows, Overlay
<1>2. tr.deleted \subseteq UUID /\ tr.set \subseteq UUID
  BY DEF RepositoryTransactions
<1>3. QED
  BY <1>1, <1>2 DEF Store!Changes, LayerOf

--------------------------------------------------------------------------------
\* The steps of the store, of its functions of sessions.

LEMMA StoreStutters ==
  ASSUME UNCHANGED <<files, Layers, Dead, Committed, Todo>>
  PROVE  UNCHANGED Store!vars
  BY DEF Store!vars, Layers, Dead, Committed, Todo

LEMMA StoreChanges ==
  ASSUME NEW s \in Session, NEW u \in UUID, NEW c \in Cell,
         ~Committed[s], ~Dead[s][Len(Layers[s])],
         Layers' = [Layers EXCEPT ![s][Len(Layers[s])][u] = c],
         UNCHANGED <<files, Dead, Committed, Todo>>
  PROVE  Store!Next
<1>1. Store!Change(s, u, c)
  BY DEF Store!Change, Store!Live, Store!Working, Store!Depth, Layers, Dead,
         Committed, Todo
<1>2. c \in Store!Cell
  BY DEF Store!Cell, Cell
<1>3. QED
  BY <1>1, <1>2 DEF Store!Next

LEMMA StoreOpens ==
  ASSUME NEW s \in Session, ~Committed[s], ~Dead[s][Len(Layers[s])],
         Layers' = [Layers EXCEPT ![s] = Append(Layers[s], Blank)],
         Dead' = [Dead EXCEPT ![s] = Append(Dead[s], FALSE)],
         UNCHANGED <<files, Committed, Todo>>
  PROVE  Store!Next
<1>1. Store!Open(s)
  BY DEF Store!Open, Store!Live, Store!Working, Store!Depth, Store!Blank, Blank,
         Layers, Dead, Committed, Todo
<1>2. QED
  BY <1>1 DEF Store!Next

LEMMA StoreReleases ==
  ASSUME NEW s \in Session, ~Committed[s], ~Dead[s][Len(Layers[s])],
         Len(Layers[s]) > 1,
         Layers' = [Layers EXCEPT ![s] = Store!Merged(Layers[s])],
         UNCHANGED <<files, Dead, Committed, Todo>>
  PROVE  Store!Next
<1>1. Store!Release(s)
  BY DEF Store!Release, Store!Live, Store!Working, Store!Depth,
         Layers, Dead, Committed, Todo
<1>2. QED
  BY <1>1 DEF Store!Next

LEMMA StoreLeaves ==
  ASSUME NEW s \in Session, ~Committed[s], Layers[s][Len(Layers[s])] = Blank,
         \/ /\ Len(Layers[s]) = 1
            /\ Dead' = [Dead EXCEPT ![s] = <<FALSE>>]
            /\ Layers' = Layers
         \/ /\ Len(Layers[s]) # 1
            /\ Dead' = [Dead EXCEPT ![s] = Front(Dead[s])]
            /\ Layers' = [Layers EXCEPT ![s] = Front(Layers[s])],
         UNCHANGED <<files, Committed, Todo>>
  PROVE  Store!Next
<1>1. Store!Leave(s)
  BY DEF Store!Leave, Store!Working, Store!Depth, Store!Blank, Blank,
         Store!Front, Front, Layers, Dead, Committed, Todo
<1>2. QED
  BY <1>1 DEF Store!Next

LEMMA StoreReleasesAndLeaves ==
  ASSUME NEW s \in Session, ~Committed[s], ~Dead[s][Len(Layers[s])],
         Len(Layers[s]) > 1,
         Layers' = [Layers EXCEPT ![s] = Front(Store!Merged(Layers[s]))],
         Dead' = [Dead EXCEPT ![s] = Front(Dead[s])],
         UNCHANGED <<files, Committed, Todo>>
  PROVE  Store!Next
<1>1. Store!ReleaseAndLeave(s)
  BY DEF Store!ReleaseAndLeave, Store!Live, Store!Working, Store!Depth,
         Store!Front, Front, Layers, Dead, Committed, Todo
<1>2. QED
  BY <1>1 DEF Store!Next

LEMMA StoreUndoes ==
  ASSUME NEW s \in Session, ~Committed[s], NEW b \in 1 .. Len(Layers[s]),
         Layers' = [Layers EXCEPT ![s] =
            [i \in DOMAIN Layers[s] |-> IF i >= b THEN Blank ELSE Layers[s][i]]],
         Dead' = [Dead EXCEPT ![s] = [i \in DOMAIN Dead[s] |-> i >= b \/ Dead[s][i]]],
         UNCHANGED <<files, Committed, Todo>>
  PROVE  Store!Next
<1>1. Store!Undo(s, b)
  BY DEF Store!Undo, Store!Working, Store!Blank, Blank,
         Layers, Dead, Committed, Todo
<1>2. b \in 1 .. Store!Depth(s)
  BY DEF Store!Depth, Layers
<1>3. QED
  BY <1>1, <1>2 DEF Store!Next

LEMMA StoreCommits ==
  ASSUME NEW s \in Session, ~Committed[s], ~Dead[s][Len(Layers[s])],
         Len(Layers[s]) = 1,
         Committed' = [Committed EXCEPT ![s] = TRUE],
         Todo' = [Todo EXCEPT ![s] = Store!Changes(Layers[s][1])],
         UNCHANGED <<files, Layers, Dead>>
  PROVE  Store!Next
<1>1. Store!Commit(s)
  BY DEF Store!Commit, Store!Live, Store!Working, Store!Depth,
         Layers, Dead, Committed, Todo
<1>2. QED
  BY <1>1 DEF Store!Next

LEMMA StoreTears ==
  ASSUME NEW s \in Session, NEW u \in Todo[s], u \in UUID,
         Layers[s][1][u] # Absent,
         files' = [files EXCEPT ![u] = Torn],
         UNCHANGED <<Layers, Dead, Committed, Todo>>
  PROVE  Store!Next
<1>1. Store!Tear(s, u)
  BY DEF Store!Tear, Layers, Dead, Committed, Todo
<1>2. QED
  BY <1>1 DEF Store!Next

LEMMA StorePublishes ==
  ASSUME NEW s \in Session, NEW u \in Todo[s], u \in UUID,
         files' = [files EXCEPT ![u] = Layers[s][1][u]],
         Todo' = [Todo EXCEPT ![s] = Todo[s] \ {u}],
         UNCHANGED <<Layers, Dead, Committed>>
  PROVE  Store!Next
<1>1. Store!Publish(s, u)
  BY DEF Store!Publish, Layers, Dead, Committed, Todo
<1>2. QED
  BY <1>1 DEF Store!Next

LEMMA StoreRestarts ==
  ASSUME NEW s \in Session, Committed[s],
         Todo' = [Todo EXCEPT ![s] = Store!Changes(Layers[s][1])],
         UNCHANGED <<files, Layers, Dead, Committed>>
  PROVE  Store!Next
<1>1. Store!Restart(s)
  BY DEF Store!Restart, Layers, Dead, Committed, Todo
<1>2. QED
  BY <1>1 DEF Store!Next

LEMMA StoreHasPublished ==
  ASSUME NEW s \in Session, Committed[s], Todo[s] = {},
         Layers' = [Layers EXCEPT ![s] = <<Blank>>],
         UNCHANGED <<files, Dead, Committed, Todo>>
  PROVE  Store!Next
<1>1. Store!Published(s)
  BY DEF Store!Published, Store!Blank, Blank, Layers, Dead, Committed, Todo
<1>2. QED
  BY <1>1 DEF Store!Next

LEMMA StoreFinishes ==
  ASSUME NEW s \in Session, Committed[s], Todo[s] = {}, Layers[s] = <<Blank>>,
         Committed' = [Committed EXCEPT ![s] = FALSE],
         Dead' = [Dead EXCEPT ![s] = <<FALSE>>],
         UNCHANGED <<files, Layers, Todo>>
  PROVE  Store!Next
<1>1. Store!Finish(s)
  BY DEF Store!Finish, Store!Blank, Blank, Layers, Dead, Committed, Todo
<1>2. QED
  BY <1>1 DEF Store!Next

LEMMA StoreDies ==
  ASSUME NEW s \in Session, Faults \cap {"crash", "io_error_at_end"} # {},
         Layers' = [Layers EXCEPT ![s] = <<Blank>>],
         Dead' = [Dead EXCEPT ![s] = <<FALSE>>],
         Committed' = [Committed EXCEPT ![s] = FALSE],
         Todo' = [Todo EXCEPT ![s] = {}],
         files' = files
  PROVE  Store!Next
<1>1. Store!Die(s)
  BY DEF Store!Die, Store!Blank, Blank, Layers, Dead, Committed, Todo
<1>2. QED
  BY <1>1 DEF Store!Next

--------------------------------------------------------------------------------
\* Each step of a session is a step of the store, or none.

Others(s) == \A t \in Session \ {s} :
    sa'[t] = sa[t] /\ rt'[t] = rt[t] /\ pc'[t] = pc[t] /\ publish'[t] = publish[t]

\* What is not said to change of the store does not.
LEMMA StoreKeeps ==
  ASSUME NEW s \in Session, Others(s)
  PROVE  /\ Layers' = [Layers EXCEPT ![s] = Layers'[s]]
         /\ Dead' = [Dead EXCEPT ![s] = Dead'[s]]
         /\ Committed' = [Committed EXCEPT ![s] = Committed'[s]]
         /\ Todo' = [Todo EXCEPT ![s] = Todo'[s]]
         /\ Layers'[s] = Layers[s] => Layers' = Layers
         /\ Dead'[s] = Dead[s] => Dead' = Dead
         /\ Committed'[s] = Committed[s] => Committed' = Committed
         /\ Todo'[s] = Todo[s] => Todo' = Todo
<1>1. /\ Layers' = [Layers EXCEPT ![s] = Layers'[s]]
      /\ Dead' = [Dead EXCEPT ![s] = Dead'[s]]
      /\ Committed' = [Committed EXCEPT ![s] = Committed'[s]]
      /\ Todo' = [Todo EXCEPT ![s] = Todo'[s]]
  BY StoreOfOne DEF Others
<1>2. /\ Layers = [Layers EXCEPT ![s] = Layers[s]]
      /\ Dead = [Dead EXCEPT ![s] = Dead[s]]
      /\ Committed = [Committed EXCEPT ![s] = Committed[s]]
      /\ Todo = [Todo EXCEPT ![s] = Todo[s]]
  BY DEF Layers, Dead, Committed, Todo
<1>3. QED
  BY <1>1, <1>2

LEMMA SameDead ==
  ASSUME IndInv, IndInv', NEW s \in Session, Len(sa'[s]) = Len(sa[s]),
         \A i \in 1 .. Len(sa[s]) :
            (sa'[s][i].state = "DEACTIVE"
                \/ (pc'[s] = "closing" /\ sa'[s][1].state # "COMMITTED"))
            = (sa[s][i].state = "DEACTIVE"
                \/ (pc[s] = "closing" /\ sa[s][1].state # "COMMITTED"))
  PROVE  Dead'[s] = Dead[s]
<1> DEFINE q == Dead[s]
<1>1. /\ q \in Seq(BOOLEAN) /\ Len(q) = Len(sa'[s])
      /\ \A i \in 1 .. Len(q) :
            q[i] = (sa'[s][i].state = "DEACTIVE"
                    \/ (pc'[s] = "closing" /\ sa'[s][1].state # "COMMITTED"))
  BY StoreNow
<1> HIDE DEF q
<1>2. Dead'[s] = q
  BY <1>1, NewDead
<1>3. QED
  BY <1>2 DEF q

LEMMA SameLayers ==
  ASSUME IndInv, IndInv', NEW s \in Session, Len(sa'[s]) = Len(sa[s]),
         \A i \in 1 .. Len(sa[s]) : LayerOf(rt'[s][i]) = LayerOf(rt[s][i])
  PROVE  Layers'[s] = Layers[s]
<1> DEFINE q == Layers[s]
<1>1. /\ q \in Seq(Layer) /\ Len(q) = Len(sa'[s])
      /\ \A i \in 1 .. Len(q) : q[i] = LayerOf(rt'[s][i])
  BY StoreNow
<1> HIDE DEF q
<1>2. Layers'[s] = q
  BY <1>1, NewLayers
<1>3. QED
  BY <1>2 DEF q

\* A session at work has live layers and nothing to publish.
LEMMA StoreLive ==
  ASSUME ContentInv, NEW s \in Session, Top(s).state = "ACTIVE",
         pc[s] \in {"idle", "flushing"}
  PROVE  /\ ~Committed[s] /\ Todo[s] = {}
         /\ sa[s][1].state = "ACTIVE"
         /\ Len(Layers[s]) = Len(sa[s])
         /\ ~Dead[s][Len(sa[s])]
         /\ \A i \in 1 .. Len(sa[s]) : Dead[s][i] = FALSE
<1>1. /\ Len(sa[s]) \in Nat \ {0}
      /\ 1 \in 1 .. Len(sa[s]) /\ Len(sa[s]) \in 1 .. Len(sa[s])
      /\ IndInv
  BY ContentFacts
<1>2. \A i \in 1 .. Len(sa[s]) : sa[s][i].state = "ACTIVE"
  BY AllActive
<1>3. /\ ~Committed[s] /\ Todo[s] = {} /\ Len(Layers[s]) = Len(sa[s])
      /\ \A i \in 1 .. Len(sa[s]) : Dead[s][i] = FALSE
  BY <1>1, <1>2, StoreNow DEF LayerTodo
<1>4. QED
  BY <1>1, <1>2, <1>3

\* set() and delete(): the uppermost layer changes.
LEMMA NewWordStore ==
  ASSUME ContentInv, IndInv', NEW s \in Session, NEW u \in UUID,
         pc[s] \in {"idle", "flushing"}, Top(s).state = "ACTIVE",
         NEW tr \in RepositoryTransactions,
         Overlay(tr, u) \in Cell,
         \A v \in UUID : v # u => Overlay(tr, v) = Overlay(Last(rt[s]), v),
         rt' = [rt EXCEPT ![s][Len(rt[s])] = tr],
         UNCHANGED <<files, sa, pc, publish>>
  PROVE  Store!Next
<1> PICK c \in Cell : c = Overlay(tr, u)
  OBVIOUS
<1> DEFINE n == Len(sa[s])
           top == [Layers[s][n] EXCEPT ![u] = c]
           q == [Layers[s] EXCEPT ![n] = top]
<1>1. /\ n \in Nat \ {0} /\ n \in 1 .. n /\ Len(rt[s]) = n /\ IndInv
      /\ rt[s] \in Seq(RepositoryTransactions)
      /\ Last(rt[s]) = rt[s][n]
      /\ rt \in [Session -> Seq(RepositoryTransactions)]
      /\ rt[s][n] \in RepositoryTransactions
  BY ContentFacts DEF TypeOK
<1>2. /\ rt'[s] = [rt[s] EXCEPT ![n] = tr]
      /\ Others(s)
  BY <1>1 DEF Others
<1>3. \A i \in 1 .. n : rt'[s][i] = IF i = n THEN tr ELSE rt[s][i]
  BY <1>1, <1>2, ExceptSeq
<1>4. /\ Layers[s] \in Seq(Layer) /\ Len(Layers[s]) = n
      /\ \A i \in 1 .. n : Layers[s][i] = LayerOf(rt[s][i])
  BY <1>1, StoreNow
<1>5. top = LayerOf(tr)
  <2>1. [LayerOf(rt[s][n]) EXCEPT ![u] = c] = LayerOf(tr)
    BY <1>1 DEF LayerOf
  <2>2. Layers[s][n] = LayerOf(rt[s][n])
    BY <1>1, <1>4
  <2>3. QED
    BY <2>1, <2>2
<1>6. top \in Layer
  BY <1>5, LayerType
<1> HIDE DEF top
<1>7. /\ q \in Seq(Layer) /\ Len(q) = n
      /\ \A i \in 1 .. n : q[i] = IF i = n THEN top ELSE Layers[s][i]
  <2> DEFINE r == Layers[s]
  <2>1. r \in Seq(Layer) /\ Len(r) = n
    BY <1>4
  <2> HIDE DEF r, n
  <2>2. /\ [r EXCEPT ![n] = top] \in Seq(Layer)
        /\ Len([r EXCEPT ![n] = top]) = n
        /\ \A i \in 1 .. n : [r EXCEPT ![n] = top][i] = IF i = n THEN top ELSE r[i]
    BY <1>1, <1>6, <2>1, ExceptSeq DEF n
  <2>3. QED
    BY <2>2 DEF r, n
<1>8. Layers'[s] = q
  <2> HIDE DEF q
  <2>1. Len(q) = Len(sa'[s]) /\ \A i \in 1 .. Len(q) : q[i] = LayerOf(rt'[s][i])
    BY <1>3, <1>4, <1>5, <1>7
  <2>2. QED
    BY <1>7, <2>1, NewLayers
<1>9. Layers' = [Layers EXCEPT ![s][Len(Layers[s])][u] = c]
  <2>1. [Layers EXCEPT ![s][Len(Layers[s])][u] = c] = [Layers EXCEPT ![s] = q]
    BY <1>4 DEF q, top
  <2>2. QED
    BY <1>2, <1>8, <2>1, StoreKeeps
<1>10. /\ ~Committed[s] /\ Todo[s] = {} /\ ~Dead[s][Len(Layers[s])]
       /\ sa[s][1].state # "COMMITTED"
  BY <1>4, StoreLive
<1>11. /\ Dead'[s] = Dead[s] /\ Committed'[s] = Committed[s] /\ Todo'[s] = Todo[s]
  <2>1. Committed'[s] = Committed[s] /\ Todo'[s] = {}
    BY <1>10, <1>1, StoreNow, StoreNext DEF LayerTodo
  <2>2. Dead'[s] = Dead[s]
    BY <1>1, SameDead
  <2>3. QED
    BY <1>10, <2>1, <2>2
<1>12. UNCHANGED <<Dead, Committed, Todo>>
  BY <1>2, <1>11, StoreKeeps
<1>13. QED
  BY <1>9, <1>10, <1>12, StoreChanges

LEMMA SetContentStore ==
  ASSUME ContentInv, IndInv', NEW s \in Session, NEW u \in UUID, NEW c \in Content,
         SetContent(s, u, c)
  PROVE  Store!Next
<1> DEFINE tr == Staged(Last(rt[s]), u, c)
<1>1. /\ pc[s] = "idle" /\ Top(s).state = "ACTIVE"
      /\ rt' = [rt EXCEPT ![s][Len(rt[s])] = tr]
      /\ UNCHANGED <<files, sa, pc, publish>>
  BY DEF SetContent, Usable, Idle
<1>2. Last(rt[s]) \in RepositoryTransactions /\ WellFormed(Last(rt[s]))
  BY SessionFacts DEF ContentInv
<1>3. /\ tr \in RepositoryTransactions /\ Overlay(tr, u) = c
      /\ \A v \in UUID : v # u => Overlay(tr, v) = Overlay(Last(rt[s]), v)
  BY <1>2, StagedProperties, StagedOverlay
<1>4. Overlay(tr, u) \in Cell
  BY <1>3 DEF Cell
<1> HIDE DEF tr
<1>5. QED
  BY <1>1, <1>3, <1>4, NewWordStore

\* delete(), whether called or by the listener of after_flush.
LEMMA DeleteContentStore ==
  ASSUME ContentInv, IndInv', NEW s \in Session, NEW u \in UUID,
         pc[s] \in {"idle", "flushing"}, Top(s).state = "ACTIVE",
         rt' = [rt EXCEPT ![s][Len(rt[s])] = Unstaged(Last(rt[s]), u)],
         UNCHANGED <<files, sa, pc, publish>>
  PROVE  Store!Next
<1> DEFINE tr == Unstaged(Last(rt[s]), u)
<1>1. /\ rt' = [rt EXCEPT ![s][Len(rt[s])] = tr]
      /\ UNCHANGED <<files, sa, pc, publish>>
      /\ pc[s] \in {"idle", "flushing"} /\ Top(s).state = "ACTIVE"
  OBVIOUS
<1>2. Last(rt[s]) \in RepositoryTransactions /\ WellFormed(Last(rt[s]))
  BY SessionFacts DEF ContentInv
<1>3. /\ tr \in RepositoryTransactions /\ Overlay(tr, u) = Absent
      /\ \A v \in UUID : v # u => Overlay(tr, v) = Overlay(Last(rt[s]), v)
  BY <1>2, UnstagedProperties, UnstagedOverlay
<1>4. Overlay(tr, u) \in Cell
  BY <1>3 DEF Cell
<1> HIDE DEF tr
<1>5. QED
  BY <1>1, <1>3, <1>4, NewWordStore

\* A transaction is opened: so is a layer.
LEMMA OpenStore ==
  ASSUME ContentInv, IndInv', NEW s \in Session, Usable(s),
         NEW frame \in SessionTransactions, frame.state = "ACTIVE",
         NEW event \in {"idle", "flushing"},
         sa' = [sa EXCEPT ![s] = Append(@, frame)],
         CreateTransaction(s),
         pc' = [pc EXCEPT ![s] = event],
         UNCHANGED <<files, publish>>
  PROVE  Store!Next
<1> DEFINE n == Len(sa[s])
           stack == Append(sa[s], frame)
           chain == Append(rt[s], NewTransaction)
           q == Append(Layers[s], Blank)
           d == Append(Dead[s], FALSE)
<1>1. /\ sa'[s] = stack /\ rt'[s] = chain /\ pc'[s] = event /\ Others(s)
  BY ContentFacts DEF TypeOK, CreateTransaction, Others
<1>2. /\ sa[s] \in Seq(SessionTransactions) /\ rt[s] \in Seq(RepositoryTransactions)
      /\ Len(rt[s]) = n /\ n \in Nat \ {0} /\ n \in 1 .. n /\ 1 \in 1 .. n
      /\ \A i \in 1 .. n + 1 : i \in 1 .. n \/ i = n + 1
  BY ContentFacts DEF TypeOK
<1>3. /\ Len(stack) = n + 1
      /\ \A i \in 1 .. n : stack[i] = sa[s][i]
      /\ stack[n + 1] = frame
  BY <1>2, AppendProperties
<1>4. /\ \A i \in 1 .. n : chain[i] = rt[s][i]
      /\ chain[n + 1] = NewTransaction
  <2> HIDE DEF n
  <2>1. QED
    BY <1>2, FreshTransactions, AppendProperties
<1>5. /\ Layers[s] \in Seq(Layer) /\ Len(Layers[s]) = n
      /\ \A i \in 1 .. n : Layers[s][i] = LayerOf(rt[s][i])
      /\ Dead[s] \in Seq(BOOLEAN) /\ Len(Dead[s]) = n
      /\ \A i \in 1 .. n : Dead[s][i] = FALSE
      /\ \A i \in 1 .. n : sa[s][i].state = "ACTIVE"
      /\ pc[s] = "idle"
      /\ ~Committed[s] /\ Todo[s] = {} /\ ~Dead[s][Len(Layers[s])]
  BY ContentFacts, StoreNow, StoreLive, AllActive DEF Usable, Idle
<1> HIDE DEF stack, chain
<1>6. /\ q \in Seq(Layer) /\ Len(q) = n + 1
      /\ \A i \in 1 .. n : q[i] = LayerOf(rt[s][i])
      /\ q[n + 1] = Blank
  <2> DEFINE r == Layers[s]
  <2>1. r \in Seq(Layer) /\ Len(r) = n /\ \A i \in 1 .. n : r[i] = LayerOf(rt[s][i])
    BY <1>5
  <2> HIDE DEF r, n
  <2>2. /\ Append(r, Blank) \in Seq(Layer) /\ Len(Append(r, Blank)) = n + 1
        /\ \A i \in 1 .. n : Append(r, Blank)[i] = r[i]
        /\ Append(r, Blank)[n + 1] = Blank
    BY <2>1, BlankLayers, AppendProperties
  <2>3. QED
    BY <2>1, <2>2 DEF r
<1>7. /\ d \in Seq(BOOLEAN) /\ Len(d) = n + 1
      /\ \A i \in 1 .. n + 1 : d[i] = FALSE
  <2> DEFINE r == Dead[s]
  <2>1. r \in Seq(BOOLEAN) /\ Len(r) = n /\ \A i \in 1 .. n : r[i] = FALSE
    BY <1>5
  <2> HIDE DEF r, n
  <2> PICK e \in BOOLEAN : e = FALSE
    OBVIOUS
  <2>2. /\ Append(r, e) \in Seq(BOOLEAN) /\ Len(Append(r, e)) = n + 1
        /\ \A i \in 1 .. n : Append(r, e)[i] = r[i]
        /\ Append(r, e)[n + 1] = e
    BY <2>1, AppendProperties
  <2>3. \A i \in 1 .. n + 1 : Append(r, e)[i] = FALSE
    BY <1>2, <2>1, <2>2
  <2>4. Append(r, e) = d
    BY DEF r
  <2>5. QED
    BY <2>2, <2>3, <2>4
<1> HIDE DEF q, d
<1>8. \A i \in 1 .. n + 1 : q[i] = LayerOf(chain[i]) /\ stack[i].state = "ACTIVE"
  BY <1>2, <1>3, <1>4, <1>5, <1>6, BlankLayers, FreshStagesNothing
<1> HIDE DEF n
<1>9. Layers'[s] = q
  BY <1>1, <1>3, <1>6, <1>8, NewLayers
<1>10. Dead'[s] = d
  BY <1>1, <1>3, <1>7, <1>8, NewDead
<1>11. 1 \in 1 .. n + 1
  BY <1>2
<1>12. Committed'[s] = Committed[s] /\ Todo'[s] = Todo[s]
  <2>1. sa'[s][1].state = "ACTIVE" /\ sa[s][1].state = "ACTIVE"
    BY <1>1, <1>2, <1>5, <1>8, <1>11
  <2>2. Committed'[s] = FALSE /\ Todo'[s] = {}
    BY <2>1, StoreNext DEF LayerTodo
  <2>3. Committed[s] = FALSE
    BY <2>1, ContentFacts, StoreNow
  <2>4. QED
    BY <1>5, <2>2, <2>3
<1>13. /\ Layers' = [Layers EXCEPT ![s] = Append(Layers[s], Blank)]
       /\ Dead' = [Dead EXCEPT ![s] = Append(Dead[s], FALSE)]
       /\ UNCHANGED <<Committed, Todo>>
  BY <1>1, <1>9, <1>10, <1>12, StoreKeeps DEF q, d
<1>14. QED
  BY <1>5, <1>13, StoreOpens

\* The uppermost layer, merged, and the layer below it.
LEMMA MergedLayers ==
  ASSUME NEW q \in Seq(Layer), NEW n, n = Len(q), n > 1
  PROVE  /\ Store!Merged(q) \in Seq(Layer)
         /\ Len(Store!Merged(q)) = n
         /\ \A i \in 1 .. n - 2 : Store!Merged(q)[i] = q[i]
         /\ Store!Merged(q)[n - 1] = Store!Over(q[n], q[n - 1])
         /\ Store!Merged(q)[n] = Blank
<1> DEFINE over == Store!Over(q[n], q[n - 1])
           half == [q EXCEPT ![n - 1] = over]
<1>0. n \in Nat /\ n > 1 /\ n - 1 \in 1 .. n /\ n \in 1 .. n
  BY LenProperties
<1>1. over \in Layer
  <2>1. q[n] \in Layer /\ q[n - 1] \in Layer
    BY <1>0, ElementOfSeq
  <2>2. QED
    BY <2>1 DEF Store!Over, Layer
<1>2. /\ half \in Seq(Layer) /\ Len(half) = n
      /\ \A i \in 1 .. n : half[i] = IF i = n - 1 THEN over ELSE q[i]
  BY <1>0, <1>1, ExceptSeq
<1>3. Store!Merged(q) = [half EXCEPT ![n] = Blank]
  BY DEF Store!Merged, Store!Blank, Blank
<1> HIDE DEF half, over
<1>4. /\ [half EXCEPT ![n] = Blank] \in Seq(Layer)
      /\ Len([half EXCEPT ![n] = Blank]) = n
      /\ \A i \in 1 .. n : [half EXCEPT ![n] = Blank][i] = IF i = n THEN Blank ELSE half[i]
  BY <1>0, <1>2, BlankLayers, ExceptSeq
<1>5. QED
  BY <1>0, <1>2, <1>3, <1>4 DEF over

\* The layers that merging a session's uppermost transaction makes.
LEMMA MergedStore ==
  ASSUME ContentInv, NEW s \in Session, Len(sa[s]) > 1
  PROVE  LET n == Len(sa[s])
             q == Store!Merged(Layers[s])
         IN  /\ q \in Seq(Layer) /\ Len(q) = n
             /\ \A i \in 1 .. n - 2 : q[i] = LayerOf(rt[s][i])
             /\ q[n - 1] = LayerOf(MergedInto(rt[s][n - 1], rt[s][n]))
             /\ q[n] = Blank
<1> DEFINE n == Len(sa[s])
           r == Layers[s]
<1>1. /\ n \in Nat /\ n > 1 /\ n - 1 \in 1 .. n /\ n \in 1 .. n
      /\ \A i \in 1 .. n - 2 : i \in 1 .. n
  BY ContentFacts
<1>2. r \in Seq(Layer) /\ Len(r) = n /\ \A i \in 1 .. n : r[i] = LayerOf(rt[s][i])
  BY ContentFacts, StoreNow
<1>3. /\ rt[s][n - 1] \in RepositoryTransactions /\ WellFormed(rt[s][n - 1])
      /\ rt[s][n] \in RepositoryTransactions /\ WellFormed(rt[s][n])
  BY <1>1, ContentFacts
<1> HIDE DEF n, r
<1>4. /\ Store!Merged(r) \in Seq(Layer)
      /\ Len(Store!Merged(r)) = n
      /\ \A i \in 1 .. n - 2 : Store!Merged(r)[i] = r[i]
      /\ Store!Merged(r)[n - 1] = Store!Over(r[n], r[n - 1])
      /\ Store!Merged(r)[n] = Blank
  BY <1>1, <1>2, MergedLayers
<1>5. Store!Over(r[n], r[n - 1]) = LayerOf(MergedInto(rt[s][n - 1], rt[s][n]))
  BY <1>1, <1>2, <1>3, MergedLayer
<1>6. /\ Store!Merged(r) \in Seq(Layer)
      /\ Len(Store!Merged(r)) = n
      /\ \A i \in 1 .. n - 2 : Store!Merged(r)[i] = LayerOf(rt[s][i])
      /\ Store!Merged(r)[n - 1] = LayerOf(MergedInto(rt[s][n - 1], rt[s][n]))
      /\ Store!Merged(r)[n] = Blank
  BY <1>1, <1>2, <1>4, <1>5
<1>7. QED
  BY <1>6 DEF n, r

\* A flush ends, or a savepoint is released.
LEMMA MergeStore ==
  ASSUME ContentInv, IndInv', NEW s \in Session,
         pc[s] \in {"idle", "flushing"}, Top(s).state = "ACTIVE", Len(sa[s]) > 1,
         Len(sa'[s]) = Len(sa[s]),
         \A i \in 1 .. Len(sa[s]) - 1 : sa'[s][i] = sa[s][i],
         sa'[s][Len(sa[s])].state # "DEACTIVE",
         \A t \in Session \ {s} : sa'[t] = sa[t],
         MergeTop(s),
         pc' = [pc EXCEPT ![s] = "ending"],
         UNCHANGED <<files, publish>>
  PROVE  Store!Next
<1> DEFINE n == Len(sa[s])
           chain == CommittedToParent(rt[s])
           q == Store!Merged(Layers[s])
<1>1. rt'[s] = chain /\ pc'[s] = "ending" /\ Others(s)
  BY ContentFacts DEF TypeOK, MergeTop, Others
<1>2. /\ \A i \in 1 .. n - 2 : chain[i] = rt[s][i]
      /\ chain[n - 1] = MergedInto(rt[s][n - 1], rt[s][n])
      /\ chain[n] = ClearedTransaction
  <2>1. /\ rt[s] \in Seq(RepositoryTransactions) /\ Len(rt[s]) = n
        /\ ChainShape(rt[s])
    BY ContentFacts, SessionFacts DEF SessionInv
  <2>2. QED
    BY <2>1, MergedChain
<1>3. /\ n \in Nat /\ n > 1 /\ 1 \in 1 .. n - 1 /\ IndInv
      /\ \A i \in 1 .. n : i \in 1 .. n - 1 \/ i = n
      /\ \A i \in 1 .. n : i \in 1 .. n - 2 \/ i = n - 1 \/ i = n
  BY ContentFacts
<1>4. /\ q \in Seq(Layer) /\ Len(q) = n
      /\ \A i \in 1 .. n - 2 : q[i] = LayerOf(rt[s][i])
      /\ q[n - 1] = LayerOf(MergedInto(rt[s][n - 1], rt[s][n]))
      /\ q[n] = Blank
  BY MergedStore
<1>5. /\ ~Committed[s] /\ Todo[s] = {} /\ Len(Layers[s]) = n /\ ~Dead[s][n]
      /\ sa[s][1].state = "ACTIVE"
      /\ \A i \in 1 .. n : sa[s][i].state = "ACTIVE"
  BY StoreLive, AllActive
<1> HIDE DEF chain, q
<1>6. LayerOf(ClearedTransaction) = Blank
  BY BlankLayers, FreshStagesNothing
<1>7. \A i \in 1 .. n : q[i] = LayerOf(chain[i])
  BY <1>2, <1>3, <1>4, <1>6
<1>8. Layers'[s] = q
  BY <1>1, <1>4, <1>7, NewLayers
<1>9. \A i \in 1 .. n : sa'[s][i].state # "DEACTIVE"
  BY <1>3, <1>5
<1>10. Dead'[s] = Dead[s]
  BY <1>1, <1>3, <1>5, <1>9, SameDead
<1>11. sa'[s][1].state = "ACTIVE"
  BY <1>3, <1>5
<1>12. Committed'[s] = FALSE /\ Todo'[s] = {}
  BY <1>11, StoreNext DEF LayerTodo
<1>13. Committed[s] = FALSE
  BY <1>3, <1>5, StoreNow
<1>14. /\ Layers' = [Layers EXCEPT ![s] = Store!Merged(Layers[s])]
       /\ UNCHANGED <<Dead, Committed, Todo>>
  BY <1>1, <1>5, <1>8, <1>10, <1>12, <1>13, StoreKeeps DEF q
<1>15. QED
  BY <1>3, <1>5, <1>14, StoreReleases

LEMMA FlushCommitStore ==
  ASSUME ContentInv, IndInv', NEW s \in Session, FlushCommit(s)
  PROVE  Store!Next
<1>1. /\ pc[s] = "flushing" /\ MergeTop(s) /\ pc' = [pc EXCEPT ![s] = "ending"]
      /\ UNCHANGED <<files, sa, publish>>
  BY DEF FlushCommit
<1>2. Top(s).state = "ACTIVE" /\ Len(sa[s]) > 1
  BY <1>1, FlushingFacts
<1>3. Top(s) = sa'[s][Len(sa[s])]
  BY <1>1, ContentFacts
<1>4. QED
  BY <1>1, <1>2, <1>3, MergeStore

LEMMA CommitNestedStore ==
  ASSUME ContentInv, IndInv', NEW s \in Session, CommitNested(s)
  PROVE  Store!Next
<1> DEFINE n == Len(sa[s])
           frame == [sa[s][n] EXCEPT !.state = "COMMITTED"]
           stack == [sa[s] EXCEPT ![n] = frame]
<1>1. /\ pc[s] = "idle" /\ Top(s).state = "ACTIVE" /\ Top(s).kind = "nested"
      /\ MergeTop(s) /\ pc' = [pc EXCEPT ![s] = "ending"]
      /\ UNCHANGED <<files, publish>>
      /\ sa' = [sa EXCEPT ![s] = stack]
  BY DEF CommitNested, Usable, Idle
<1>2. n \in Nat /\ n > 1 /\ sa[s] \in Seq(SessionTransactions) /\ n \in 1 .. n
  <2>1. n \in Nat \ {0} /\ sa[s][1].kind = "root" /\ Top(s) = sa[s][n]
        /\ sa[s] \in Seq(SessionTransactions)
    BY ContentFacts DEF TypeOK
  <2>2. n # 1
    BY <1>1, <2>1
  <2> HIDE DEF n
  <2>3. QED
    BY <2>1, <2>2
<1>3. frame \in SessionTransactions /\ frame.state = "COMMITTED"
  BY <1>2, ContentFacts DEF SessionTransactions
<1>4. sa'[s] = stack /\ \A t \in Session \ {s} : sa'[t] = sa[t]
  BY <1>1, ContentFacts DEF TypeOK
<1> HIDE DEF frame
<1>5. /\ Len(stack) = n
      /\ \A i \in 1 .. n : stack[i] = IF i = n THEN frame ELSE sa[s][i]
  BY <1>2, <1>3, ExceptSeq
<1> HIDE DEF stack
<1>6. /\ sa'[s][n].state = "COMMITTED"
      /\ \A i \in 1 .. n - 1 : sa'[s][i] = sa[s][i]
  BY <1>2, <1>3, <1>4, <1>5
<1>7. QED
  BY <1>1, <1>2, <1>4, <1>5, <1>6, MergeStore

\* Going back to the nearest root or savepoint.
LEMMA RollbackStore ==
  ASSUME NothingStagedIsLost, ContentInv, IndInv', NEW s \in Session,
         pc[s] \in {"idle", "flushing"}, Top(s).state = "ACTIVE",
         RollbackTo(s, Boundary(s))
  PROVE  Store!Next
<1> DEFINE n == Len(sa[s])
           b == Boundary(s)
           q == [i \in DOMAIN Layers[s] |-> IF i >= b THEN Blank ELSE Layers[s][i]]
           d == [i \in DOMAIN Dead[s] |-> i >= b \/ Dead[s][i]]
<1>1. /\ b \in 1 .. n
      /\ Len(sa'[s]) = n
      /\ \A i \in 1 .. n : sa'[s][i].state = IF i >= b THEN "DEACTIVE" ELSE "ACTIVE"
      /\ \A i \in 1 .. n - 1 : rt'[s][i] = rt[s][i]
      /\ \A i \in b .. n : StagesNothing(rt'[s][i])
      /\ pc'[s] = "ending" /\ Others(s) /\ files' = files
  BY RollbackShape DEF Others
<1>2. /\ n \in Nat \ {0} /\ 1 \in 1 .. n /\ n \in 1 .. n /\ IndInv
  BY ContentFacts
<1>3. /\ Layers[s] \in Seq(Layer) /\ Len(Layers[s]) = n
      /\ \A i \in 1 .. n : Layers[s][i] = LayerOf(rt[s][i]) /\ Layers[s][i] \in Layer
      /\ Dead[s] \in Seq(BOOLEAN) /\ Len(Dead[s]) = n
      /\ \A i \in 1 .. n : Dead[s][i] = FALSE
      /\ ~Committed[s] /\ Todo[s] = {} /\ Committed[s] = FALSE
  <2>1. \A i \in 1 .. n : rt[s][i] \in RepositoryTransactions
    BY ContentFacts
  <2>2. \A i \in 1 .. n : LayerOf(rt[s][i]) \in Layer
    BY <2>1, LayerType
  <2>3. sa[s][1].state = "ACTIVE"
    BY StoreLive
  <2>4. Committed[s] = FALSE
    BY <1>2, <2>3, StoreNow
  <2>5. /\ Layers[s] \in Seq(Layer) /\ Len(Layers[s]) = n
        /\ \A i \in 1 .. n : Layers[s][i] = LayerOf(rt[s][i])
        /\ Dead[s] \in Seq(BOOLEAN) /\ Len(Dead[s]) = n
    BY <1>2, StoreNow
  <2>6. /\ \A i \in 1 .. n : Dead[s][i] = FALSE
        /\ ~Committed[s] /\ Todo[s] = {}
    BY StoreLive
  <2>7. QED
    BY <2>2, <2>4, <2>5, <2>6
<1> HIDE DEF n, b
<1>4. DOMAIN Layers[s] = 1 .. n /\ DOMAIN Dead[s] = 1 .. n
  <2> DEFINE r == Layers[s]
             e == Dead[s]
  <2>1. r \in Seq(Layer) /\ Len(r) = n /\ e \in Seq(BOOLEAN) /\ Len(e) = n
    BY <1>3
  <2> HIDE DEF r, e
  <2>2. DOMAIN r = 1 .. n /\ DOMAIN e = 1 .. n
    BY <2>1, LenProperties
  <2>3. QED
    BY <2>2 DEF r, e
<1>5. /\ q \in [1 .. n -> Layer]
      /\ \A i \in 1 .. n : q[i] = LayerOf(rt'[s][i])
  <2>1. \A i \in 1 .. n : i \in b .. n \/ (i \in 1 .. n - 1 /\ ~(i >= b))
    BY <1>1, <1>2
  <2>2. \A i \in b .. n : i >= b /\ LayerOf(rt'[s][i]) = Blank
    BY <1>1, <1>2, BlankLayers
  <2>3. q = [i \in 1 .. n |-> IF i >= b THEN Blank ELSE Layers[s][i]]
    BY <1>4
  <2>4. Blank \in Layer
    BY BlankLayers
  <2> HIDE DEF q
  <2>5. q \in [1 .. n -> Layer]
    BY <1>3, <2>3, <2>4
  <2>6. ASSUME NEW i \in 1 .. n
        PROVE  q[i] = LayerOf(rt'[s][i])
    <3>1. CASE i \in b .. n
      BY <2>2, <2>3, <3>1
    <3>2. CASE i \in 1 .. n - 1 /\ ~(i >= b)
      BY <1>1, <1>3, <2>3, <3>2
    <3>3. QED
      BY <2>1, <3>1, <3>2
  <2>7. QED
    BY <2>5, <2>6
<1>6. /\ d \in [1 .. n -> BOOLEAN]
      /\ \A i \in 1 .. n : d[i] = (i >= b)
  BY <1>3, <1>4
<1> HIDE DEF q, d
<1>7. q \in Seq(Layer) /\ Len(q) = n
  BY <1>2, <1>5, FunctionIsSeq
<1>8. d \in Seq(BOOLEAN) /\ Len(d) = n
  BY <1>2, <1>6, FunctionIsSeq
<1>9. Layers'[s] = q
  BY <1>1, <1>5, <1>7, NewLayers
<1>10. \A i \in 1 .. n : (sa'[s][i].state = "DEACTIVE") = (i >= b)
  BY <1>1
<1>11. Dead'[s] = d
  BY <1>1, <1>6, <1>8, <1>10, NewDead
<1>12. Committed'[s] = FALSE /\ Todo'[s] = {}
  <2>1. sa'[s][1].state # "COMMITTED"
    BY <1>1, <1>2
  <2>2. QED
    BY <2>1, StoreNext DEF LayerTodo
<1>13. /\ Layers' = [Layers EXCEPT ![s] =
            [i \in DOMAIN Layers[s] |-> IF i >= b THEN Blank ELSE Layers[s][i]]]
       /\ Dead' = [Dead EXCEPT ![s] = [i \in DOMAIN Dead[s] |-> i >= b \/ Dead[s][i]]]
       /\ UNCHANGED <<files, Committed, Todo>>
  BY <1>1, <1>3, <1>9, <1>11, <1>12, StoreKeeps DEF q, d
<1>14. QED
  BY <1>1, <1>3, <1>13, StoreUndoes

\* Steps that the store does not see.
LEMMA QuietStore ==
  ASSUME IndInv, IndInv', NEW s \in Session, Others(s),
         UNCHANGED <<files, sa, rt>>,
         pc[s] = "closing" <=> pc'[s] = "closing",
         LayerTodo(sa[s][1].state = "COMMITTED", pc[s], publish[s], rt[s][1])
            = LayerTodo(sa[s][1].state = "COMMITTED", pc'[s], publish'[s], rt[s][1])
  PROVE  UNCHANGED Store!vars
<1>1. Layers'[s] = Layers[s]
  BY SameLayers
<1>2. Dead'[s] = Dead[s]
  BY SameDead
<1>3. Committed'[s] = Committed[s] /\ Todo'[s] = Todo[s]
  BY StoreNow, StoreNext
<1>4. QED
  BY <1>1, <1>2, <1>3, StoreKeeps, StoreStutters

\* Marking a blob to be deleted; ending what has nothing to commit.
LEMMA IdleStore ==
  ASSUME ContentInv, IndInv', NEW s \in Session,
         \/ \E u \in UUID : DeleteBlob(s, u)
         \/ RollbackDeactivated(s)
         \/ CommitSub(s)
         \/ \E u \in UUID : PropagateDelete(s, u) /\ Get(s, u) = Absent
  PROVE  UNCHANGED Store!vars
<1>1. /\ pc[s] \in {"idle", "flushing"} /\ pc'[s] \in {"idle", "ending", "flushing"}
      /\ Others(s) /\ UNCHANGED <<files, sa, rt>>
  BY ContentFacts DEF DeleteBlob, RollbackDeactivated, CommitSub, PropagateDelete,
                      Usable, Idle, TypeOK, Others
<1>2. sa[s][1].state # "COMMITTED"
  BY <1>1, ContentFacts DEF StagedOf, StagedInv, EventFitsState
<1>3. IndInv
  BY ContentFacts
<1>4. LayerTodo(sa[s][1].state = "COMMITTED", pc[s], publish[s], rt[s][1])
            = LayerTodo(sa[s][1].state = "COMMITTED", pc'[s], publish'[s], rt[s][1])
  BY <1>2 DEF LayerTodo
<1>5. QED
  BY <1>1, <1>3, <1>4, QuietStore

\* In the commit of the root.
LEMMA CommitRootStore ==
  ASSUME ContentInv, IndInv', NEW s \in Session, CommitRoot(s)
  PROVE  Store!Next
<1> DEFINE frame == [sa[s][1] EXCEPT !.state = "COMMITTED"]
           stack == [sa[s] EXCEPT ![1] = frame]
           pub == [publish[s] EXCEPT !.deleted = rt[s][1].deleted,
                                     !.set = rt[s][1].set]
<1>1. Len(sa[s]) = 1 /\ sa[s] \in Seq(SessionTransactions)
  BY ContentFacts, RootIsAlone DEF CommitRoot, Top, TypeOK
<1>2. /\ pc[s] = "idle" /\ Top(s).state = "ACTIVE"
      /\ sa' = [sa EXCEPT ![s] = stack]
      /\ pc' = [pc EXCEPT ![s] = "publishing"]
      /\ publish' = [publish EXCEPT ![s] = pub]
      /\ UNCHANGED <<files, rt>>
  <2>1. [publish EXCEPT ![s].deleted = rt[s][1].deleted, ![s].set = rt[s][1].set]
            = [publish EXCEPT ![s] = pub]
    BY ContentFacts DEF TypeOK, Publication
  <2>2. QED
    BY <1>1, <2>1 DEF CommitRoot, Usable, Idle
<1>3. frame \in SessionTransactions /\ frame.state = "COMMITTED"
  BY <1>1, ContentFacts DEF SessionTransactions
<1>4. pub.deleted = rt[s][1].deleted /\ pub.set = rt[s][1].set
  BY ContentFacts DEF TypeOK, Publication
<1> HIDE DEF frame, pub
<1>5. Len(stack) = 1 /\ stack[1].state = "COMMITTED"
  BY <1>1, <1>3, ExceptSeq
<1>6. /\ sa'[s] = stack /\ rt'[s] = rt[s] /\ pc'[s] = "publishing" /\ publish'[s] = pub
      /\ Others(s)
  BY <1>2, ContentFacts DEF TypeOK, Others
<1> HIDE DEF stack
<1>7. /\ ~Committed[s] /\ Len(Layers[s]) = 1 /\ ~Dead[s][1]
      /\ sa[s][1].state = "ACTIVE" /\ IndInv
      /\ Layers[s][1] = LayerOf(rt[s][1])
      /\ rt[s][1] \in RepositoryTransactions /\ WellFormed(rt[s][1])
  BY <1>1, <1>2, StoreLive, StoreNow, ContentFacts
<1>8. Layers'[s] = Layers[s]
  BY <1>1, <1>5, <1>6, <1>7, SameLayers
<1>9. Dead'[s] = Dead[s]
  <2>1. \A i \in 1 .. Len(sa[s]) : i = 1
    BY <1>1
  <2>2. QED
    BY <1>1, <1>2, <1>5, <1>6, <1>7, <2>1, SameDead
<1>10. Committed'[s] = TRUE /\ Todo'[s] = rt[s][1].deleted \cup rt[s][1].set
  BY <1>4, <1>5, <1>6, StoreNext DEF LayerTodo
<1>11. Store!Changes(Layers[s][1]) = rt[s][1].deleted \cup rt[s][1].set
  BY <1>7, ChangesOfLayer
<1>12. /\ Committed' = [Committed EXCEPT ![s] = TRUE]
       /\ Todo' = [Todo EXCEPT ![s] = Store!Changes(Layers[s][1])]
       /\ UNCHANGED <<files, Layers, Dead>>
  BY <1>2, <1>6, <1>8, <1>9, <1>10, <1>11, StoreKeeps
<1>13. QED
  BY <1>7, <1>12, StoreCommits

(***************************************************************************)
(* What ContentInv leaves open: a transaction that end_transaction commits *)
(* although its session never did has nothing to publish, and only an      *)
(* error at the end breaks a session.                                      *)
(***************************************************************************)
Spent(stack, chain, event) ==
    /\ event = "republishing" /\ stack[1].state # "COMMITTED" => StagesNothing(chain[1])
    /\ event = "broken" => "io_error_at_end" \in Faults

StoreInv ==
    /\ ContentInv
    /\ \A s \in Session : Spent(sa[s], rt[s], pc[s])

\* What is left of a root transaction that is closed without being cleared.
LEMMA UnclearedRoot ==
  ASSUME ContentInv, NEW s \in Session, EndRootUncleared(s),
         sa[s][1].state # "COMMITTED"
  PROVE  StagesNothing(rt[s][1]) /\ (pc[s] = "ending" => sa[s][1].state = "DEACTIVE")
<1>1. /\ pc[s] \in {"ending", "closing"} /\ Len(sa[s]) = 1
      /\ ~rt[s][1].cleared /\ sa[s][1].kind = "root" /\ 1 \in 1 .. Len(sa[s])
      /\ StagedInv(sa[s], rt[s], want[s], pc[s], publish[s], past)
  BY ContentFacts DEF EndRootUncleared, StagedOf
<1>2. pc[s] = "ending" => sa[s][1].state = "DEACTIVE"
  BY <1>1 DEF StagedInv, EventFitsState
<1>3. QED
  BY <1>1, <1>2 DEF StagedInv, NothingLeft

LEMMA StepSpent ==
  ASSUME StoreInv, [Next]_vars, NEW s \in Session
  PROVE  Spent(sa[s], rt[s], pc[s])'
<1>1. Spent(sa[s], rt[s], pc[s]) /\ ContentInv
  BY DEF StoreInv
<1>2. CASE UNCHANGED vars
  BY <1>1, <1>2 DEF vars
<1>3. CASE Next
  <2> PICK t \in Session :
        \/ \E u \in UUID, c \in Content : SetContent(t, u, c)
        \/ \E u \in UUID : DeleteContent(t, u) \/ DeleteBlob(t, u)
        \/ BeginNested(t) \/ BeginSub(t)
        \/ Flush(t)
        \/ Rollback(t) \/ RollbackDeactivated(t)
        \/ CommitSub(t) \/ CommitNested(t) \/ CommitRoot(t)
        \/ Publish(t) \/ PublishFails(t) \/ RepublishFails(t)
        \/ End(t)
        \/ Close(t) \/ NewContext(t)
        \/ Crash(t)
    BY <1>3 DEF Next
  <2>0. /\ sa \in [Session -> Seq(SessionTransactions)]
        /\ rt \in [Session -> Seq(RepositoryTransactions)]
        /\ pc \in [Session -> Events]
    BY <1>1, ContentFacts DEF TypeOK
  <2>1. CASE EndRootUncleared(t)
    <3>1. UNCHANGED <<sa, rt>> /\ pc' = [pc EXCEPT ![t] = "republishing"]
      BY <2>1 DEF EndRootUncleared
    <3>2. sa[t][1].state # "COMMITTED" => StagesNothing(rt[t][1])
      BY <1>1, <2>1, UnclearedRoot
    <3>3. QED
      BY <1>1, <2>0, <3>1, <3>2 DEF Spent
  <2>2. CASE PublishWrite(t) \/ \E u \in UUID : PublishDelete(t, u) \/ PublishOpen(t, u)
    BY <1>1, <2>2 DEF PublishWrite, PublishDelete, PublishOpen
  <2>3. CASE RepublishFails(t)
    BY <1>1, <2>0, <2>3 DEF RepublishFails, Spent
  <2>4. CASE \/ \E u \in UUID, c \in Content : SetContent(t, u, c)
             \/ \E u \in UUID : DeleteContent(t, u) \/ DeleteBlob(t, u)
             \/ \E u \in UUID : PropagateDelete(t, u)
    <3>1. /\ pc[t] \in {"idle", "flushing"} /\ pc' = pc /\ sa' = sa
          /\ \A r \in Session \ {t} : rt'[r] = rt[r]
      BY <2>0, <2>4 DEF SetContent, DeleteContent, DeleteBlob, PropagateDelete,
                        Usable, Idle
    <3>2. QED
      BY <1>1, <2>0, <3>1 DEF Spent
  <2>5. CASE BeginNested(t) \/ BeginSub(t)
    <3>1. /\ pc[t] = "idle" /\ pc' = pc
          /\ \A r \in Session \ {t} : rt'[r] = rt[r] /\ sa'[r] = sa[r]
      BY <2>0, <2>5 DEF BeginNested, BeginSub, Usable, Idle, CreateTransaction
    <3>2. QED
      BY <1>1, <2>0, <3>1 DEF Spent
  <2>6. CASE \/ FlushBegin(t) \/ FlushCommit(t) \/ FlushFails(t) \/ Rollback(t)
             \/ RollbackDeactivated(t) \/ CommitSub(t) \/ CommitNested(t)
             \/ CommitRoot(t) \/ PublishEnd(t) \/ PublishFails(t)
             \/ EndInner(t) \/ EndRoot(t) \/ Close(t) \/ NewContext(t) \/ Crash(t)
    <3>1. /\ pc'[t] \notin {"republishing", "broken"}
          /\ \A r \in Session \ {t} : rt'[r] = rt[r] /\ sa'[r] = sa[r] /\ pc'[r] = pc[r]
      <4>1. CASE \/ FlushBegin(t) \/ FlushCommit(t) \/ RollbackDeactivated(t)
                 \/ CommitSub(t) \/ CommitNested(t) \/ CommitRoot(t) \/ PublishEnd(t)
                 \/ PublishFails(t) \/ Close(t)
        BY <2>0, <4>1 DEF FlushBegin, FlushCommit, RollbackDeactivated, CommitSub,
             CommitNested, CommitRoot, PublishEnd, PublishFails, Close,
             CreateTransaction, MergeTop, ClearTop
      <4>2. CASE FlushFails(t) \/ Rollback(t)
        BY <2>0, <4>2 DEF FlushFails, Rollback, RollbackTo, ClearTop
      <4>3. CASE EndInner(t) \/ EndRoot(t)
        BY <2>0, <4>3 DEF EndInner, EndRoot
      <4>4. CASE NewContext(t) \/ Crash(t)
        BY <2>0, <4>4 DEF NewContext, Crash, StartAfresh
      <4>5. QED
        BY <2>6, <4>1, <4>2, <4>3, <4>4
    <3>2. QED
      BY <1>1, <3>1 DEF Spent
  <2>7. QED
    BY <2>1, <2>2, <2>3, <2>4, <2>5, <2>6 DEF Flush, Publish, End
<1>4. QED
  BY <1>2, <1>3

\* What a session has published is what it had to; an uncommitted one has not.
LEMMA PublicationStore ==
  ASSUME StoreInv, NEW s \in Session, Publishing(s)
  PROVE  /\ IndInv /\ Len(sa[s]) = 1
         /\ rt[s][1] \in RepositoryTransactions /\ WellFormed(rt[s][1])
         /\ Layers[s][1] = LayerOf(rt[s][1])
         /\ publish[s].deleted \subseteq rt[s][1].deleted
         /\ publish[s].set \subseteq rt[s][1].set
         /\ publish[s].open \in publish[s].set \cup {NullMark}
         /\ Committed[s] = (sa[s][1].state = "COMMITTED")
         /\ sa[s][1].state # "COMMITTED" =>
                /\ StagesNothing(rt[s][1]) /\ publish[s] = NoPublication
                /\ pc[s] = "republishing"
         /\ sa[s][1].state = "COMMITTED" =>
                Todo[s] = publish[s].deleted \cup publish[s].set
<1>1. ContentInv /\ Spent(sa[s], rt[s], pc[s])
  BY DEF StoreInv
<1>2. /\ Len(sa[s]) = 1
      /\ publish[s].deleted \subseteq rt[s][1].deleted
      /\ publish[s].set \subseteq rt[s][1].set
      /\ publish[s].open \in publish[s].set \cup {NullMark}
      /\ EventFitsState(sa[s], rt[s], pc[s])
  BY <1>1, PublishingFacts DEF StagedInv
<1>3. /\ IndInv /\ 1 \in 1 .. Len(sa[s])
      /\ rt[s][1] \in RepositoryTransactions /\ WellFormed(rt[s][1])
      /\ publish[s] \in Publication
  BY <1>1, <1>2, ContentFacts DEF TypeOK
<1>4. /\ Layers[s][1] = LayerOf(rt[s][1])
      /\ Committed[s] = (sa[s][1].state = "COMMITTED")
  BY <1>3, StoreNow
<1>5. ASSUME sa[s][1].state # "COMMITTED"
      PROVE  /\ StagesNothing(rt[s][1]) /\ publish[s] = NoPublication
             /\ pc[s] = "republishing"
  <2>1. pc[s] = "republishing" /\ StagesNothing(rt[s][1])
    BY <1>1, <1>2, <1>5 DEF EventFitsState, Publishing, Spent
  <2>2. publish[s].deleted = {} /\ publish[s].set = {} /\ publish[s].open = NullMark
    BY <1>2, <2>1 DEF StagesNothing
  <2>3. QED
    BY <1>3, <2>1, <2>2 DEF NoPublication, Publication
<1>6. sa[s][1].state = "COMMITTED" => Todo[s] = publish[s].deleted \cup publish[s].set
  BY <1>3, StoreNow DEF LayerTodo, Publishing
<1>7. QED
  BY <1>2, <1>3, <1>4, <1>5, <1>6

\* A file is deleted, opened or written.
LEMMA PublishFileStore ==
  ASSUME StoreInv, IndInv', NEW s \in Session,
         PublishWrite(s) \/ \E u \in UUID : PublishDelete(s, u) \/ PublishOpen(s, u)
  PROVE  Store!Next
<1>1. /\ Publishing(s) /\ UNCHANGED <<sa, rt, pc>>
      /\ publish[s] \in Publication /\ publish \in [Session -> Publication]
  BY ContentFacts DEF PublishWrite, PublishDelete, PublishOpen, StoreInv, TypeOK
<1>2. /\ IndInv /\ Len(sa[s]) = 1
      /\ rt[s][1] \in RepositoryTransactions /\ WellFormed(rt[s][1])
      /\ Layers[s][1] = LayerOf(rt[s][1])
      /\ publish[s].deleted \subseteq rt[s][1].deleted
      /\ publish[s].set \subseteq rt[s][1].set
      /\ publish[s].open \in publish[s].set \cup {NullMark}
  BY <1>1, PublicationStore
<1>3. publish[s] # NoPublication /\ Others(s)
  BY <1>1 DEF PublishWrite, PublishDelete, PublishOpen, NoPublication, Others
<1>4. /\ sa[s][1].state = "COMMITTED"
      /\ Todo[s] = publish[s].deleted \cup publish[s].set
      /\ Committed[s] = TRUE
  BY <1>1, <1>3, PublicationStore
<1>5. Layers'[s] = Layers[s]
  BY <1>1, <1>2, SameLayers
<1>6. Dead'[s] = Dead[s]
  BY <1>1, <1>2, SameDead
<1>7. Committed'[s] = TRUE /\ Todo'[s] = publish'[s].deleted \cup publish'[s].set
  BY <1>1, <1>4, StoreNext DEF LayerTodo, Publishing
<1>8. UNCHANGED <<Layers, Dead, Committed>> /\ Todo' = [Todo EXCEPT ![s] = Todo'[s]]
  BY <1>3, <1>4, <1>5, <1>6, <1>7, StoreKeeps
<1>9. rt[s][1].set \cap rt[s][1].deleted = {}
  BY <1>2 DEF WellFormed
<1>10. ASSUME NEW u \in UUID, PublishDelete(s, u)
       PROVE  Store!Next
  <2>1. /\ u \in publish[s].deleted /\ files' = [files EXCEPT ![u] = Absent]
        /\ publish'[s] = [publish[s] EXCEPT !.deleted = @ \ {u}]
    BY <1>1, <1>10 DEF PublishDelete
  <2>2. Layers[s][1][u] = Absent
    BY <1>2, <2>1 DEF LayerOf, Overlay
  <2>3. Todo'[s] = Todo[s] \ {u} /\ u \in Todo[s]
    BY <1>1, <1>2, <1>4, <1>7, <1>9, <2>1 DEF Publication
  <2>4. files' = [files EXCEPT ![u] = Layers[s][1][u]]
    BY <2>1, <2>2
  <2>5. Todo' = [Todo EXCEPT ![s] = Todo[s] \ {u}]
    BY <1>8, <2>3
  <2>6. QED
    BY <1>8, <2>3, <2>4, <2>5, StorePublishes
<1>11. ASSUME NEW u \in UUID, PublishOpen(s, u)
       PROVE  Store!Next
  <2>1. /\ u \in publish[s].set /\ files' = [files EXCEPT ![u] = Torn]
        /\ publish'[s] = [publish[s] EXCEPT !.open = u]
    BY <1>1, <1>11 DEF PublishOpen
  <2>2. Layers[s][1][u] # Absent
    BY <1>2, <1>9, <2>1, SentinelAssumption DEF LayerOf, Overlay, WellFormed
  <2>3. Todo'[s] = Todo[s] /\ u \in Todo[s]
    BY <1>1, <1>4, <1>7, <2>1 DEF Publication
  <2>4. Todo' = Todo
    BY <1>3, <2>3, StoreKeeps
  <2>5. QED
    BY <1>8, <2>1, <2>2, <2>3, <2>4, StoreTears
<1>12. CASE PublishWrite(s)
  <2> DEFINE u == publish[s].open
  <2>1. /\ u # NullMark /\ u \in publish[s].set /\ u \in UUID
        /\ files' = [files EXCEPT ![u] = rt[s][1].dir[u]]
        /\ publish'[s] = [publish[s] EXCEPT !.set = @ \ {u}, !.open = NullMark]
    BY <1>1, <1>2, <1>12 DEF PublishWrite, Publication
  <2> PICK v \in UUID : v = u
    BY <2>1
  <2> HIDE DEF u
  <2>2. Layers[s][1][v] = rt[s][1].dir[v]
    BY <1>2, <1>9, <2>1 DEF LayerOf, Overlay
  <2>3. Todo'[s] = Todo[s] \ {v} /\ v \in Todo[s]
    BY <1>1, <1>2, <1>4, <1>7, <1>9, <2>1 DEF Publication
  <2>4. files' = [files EXCEPT ![v] = Layers[s][1][v]]
    BY <2>1, <2>2
  <2>5. Todo' = [Todo EXCEPT ![s] = Todo[s] \ {v}]
    BY <1>8, <2>3
  <2>6. QED
    BY <1>8, <2>3, <2>4, <2>5, StorePublishes
<1>13. QED
  BY <1>10, <1>11, <1>12

\* The layers of a root transaction that stages nothing.
LEMMA BlankRoot ==
  ASSUME IndInv, NEW s \in Session, Len(sa[s]) = 1, StagesNothing(rt[s][1])
  PROVE  Layers[s] = <<Blank>>
<1> DEFINE q == Layers[s]
<1>1. q \in Seq(Layer) /\ Len(q) = 1 /\ q[1] = Blank
  BY StoreNow, BlankLayers
<1> HIDE DEF q
<1>2. q = <<Blank>>
  BY <1>1, BlankLayers
<1>3. QED
  BY <1>2 DEF q

LEMMA BlankRootNext ==
  ASSUME IndInv', NEW s \in Session, Len(sa'[s]) = 1, StagesNothing(rt'[s][1])
  PROVE  Layers'[s] = <<Blank>>
<1>1. /\ <<Blank>> \in Seq(Layer) /\ Len(<<Blank>>) = 1
      /\ \A i \in 1 .. Len(<<Blank>>) : <<Blank>>[i] = LayerOf(rt'[s][i])
  BY BlankLayers
<1>2. QED
  BY <1>1, NewLayers

\* Whether a root transaction is dead.
LEMMA DeadRootNext ==
  ASSUME IndInv', NEW s \in Session, Len(sa'[s]) = 1,
         sa'[s][1].state # "DEACTIVE",
         pc'[s] = "closing" => sa'[s][1].state = "COMMITTED"
  PROVE  Dead'[s] = <<FALSE>>
<1> PICK e \in BOOLEAN : e = FALSE
  OBVIOUS
<1>1. /\ <<e>> \in Seq(BOOLEAN) /\ Len(<<e>>) = 1
      /\ \A i \in 1 .. Len(<<e>>) : <<e>>[i] = e /\ i = 1
  OBVIOUS
<1> DEFINE q == <<e>>
<1>2. /\ q \in Seq(BOOLEAN) /\ Len(q) = Len(sa'[s])
      /\ \A i \in 1 .. Len(q) :
            q[i] = (sa'[s][i].state = "DEACTIVE"
                    \/ (pc'[s] = "closing" /\ sa'[s][1].state # "COMMITTED"))
  BY <1>1
<1> HIDE DEF q
<1>3. Dead'[s] = q
  BY <1>2, NewDead
<1>4. QED
  BY <1>3 DEF q

\* Nothing is left to publish: the layer of the root is empty.
LEMMA PublishEndStore ==
  ASSUME StoreInv, IndInv', NEW s \in Session, PublishEnd(s)
  PROVE  Store!Next \/ UNCHANGED Store!vars
<1> DEFINE chain == [rt[s] EXCEPT ![Len(rt[s])] = ClearedTransaction]
<1>1. /\ Publishing(s) /\ ContentInv /\ UNCHANGED <<files, sa, publish>>
      /\ publish[s] = NoPublication
      /\ rt' = [rt EXCEPT ![s] = chain]
      /\ pc' = [pc EXCEPT ![s] = "ending"]
  BY DEF PublishEnd, ClearTop, StoreInv
<1>2. rt'[s] = chain /\ pc'[s] = "ending" /\ Others(s)
  BY <1>1, ContentFacts DEF TypeOK, Others
<1>3. /\ IndInv /\ Len(sa[s]) = 1
      /\ Committed[s] = (sa[s][1].state = "COMMITTED")
      /\ sa[s][1].state # "COMMITTED" => StagesNothing(rt[s][1])
      /\ sa[s][1].state = "COMMITTED" =>
            Todo[s] = publish[s].deleted \cup publish[s].set
  BY <1>1, PublicationStore
<1>4. StagesNothing(chain[1])
  <2>1. rt[s] \in Seq(RepositoryTransactions) /\ Len(rt[s]) = 1
    BY <1>1, <1>3, ContentFacts DEF TypeOK
  <2>2. chain[1] = ClearedTransaction
    BY <2>1, FreshTransactions, ExceptSeq
  <2>3. QED
    BY <2>2, FreshStagesNothing
<1> HIDE DEF chain
<1>5. Layers'[s] = <<Blank>>
  BY <1>1, <1>2, <1>3, <1>4, BlankRootNext
<1>6. Dead'[s] = Dead[s]
  BY <1>1, <1>2, <1>3, SameDead DEF Publishing
<1>7. Committed'[s] = Committed[s] /\ Todo'[s] = {}
  BY <1>1, <1>2, <1>3, StoreNext DEF LayerTodo
<1>8. Todo[s] = {}
  <2>1. CASE sa[s][1].state = "COMMITTED"
    BY <1>1, <1>3, <2>1 DEF NoPublication
  <2>2. CASE sa[s][1].state # "COMMITTED"
    BY <1>3, <2>2, StoreNow DEF LayerTodo
  <2>3. QED
    BY <2>1, <2>2
<1>9. /\ Layers' = [Layers EXCEPT ![s] = <<Blank>>]
      /\ UNCHANGED <<Dead, Committed, Todo>>
  BY <1>2, <1>5, <1>6, <1>7, <1>8, StoreKeeps
<1>10. CASE sa[s][1].state = "COMMITTED"
  BY <1>1, <1>3, <1>8, <1>9, <1>10, StoreHasPublished
<1>11. CASE sa[s][1].state # "COMMITTED"
  <2>1. Layers[s] = <<Blank>>
    BY <1>3, <1>11, BlankRoot
  <2>2. Layers' = Layers
    BY <1>2, <1>5, <2>1, StoreKeeps
  <2>3. QED
    BY <1>1, <1>9, <2>2, StoreStutters
<1>12. QED
  BY <1>10, <1>11

\* Publishing fails: all is to be published again.
LEMMA PublishFailsStore ==
  ASSUME StoreInv, IndInv', NEW s \in Session, PublishFails(s) \/ RepublishFails(s)
  PROVE  Store!Next
<1>1. /\ Publishing(s) /\ publish[s] # NoPublication /\ ContentInv
      /\ UNCHANGED <<files, sa, rt>>
      /\ pc'[s] \in {"failed", "broken"} /\ Others(s)
  BY ContentFacts DEF PublishFails, RepublishFails, Publishing, StoreInv, TypeOK, Others
<1>2. /\ IndInv /\ Len(sa[s]) = 1
      /\ rt[s][1] \in RepositoryTransactions /\ WellFormed(rt[s][1])
      /\ Layers[s][1] = LayerOf(rt[s][1])
      /\ Committed[s] = (sa[s][1].state = "COMMITTED")
      /\ sa[s][1].state = "COMMITTED"
  BY <1>1, PublicationStore
<1>3. Layers'[s] = Layers[s]
  BY <1>1, <1>2, SameLayers
<1>4. Dead'[s] = Dead[s]
  BY <1>1, <1>2, SameDead
<1>5. Committed'[s] = Committed[s] /\ Todo'[s] = rt[s][1].deleted \cup rt[s][1].set
  BY <1>1, <1>2, StoreNext DEF LayerTodo
<1>6. Store!Changes(Layers[s][1]) = rt[s][1].deleted \cup rt[s][1].set
  BY <1>2, ChangesOfLayer
<1>7. /\ Todo' = [Todo EXCEPT ![s] = Store!Changes(Layers[s][1])]
      /\ UNCHANGED <<files, Layers, Dead, Committed>>
  BY <1>1, <1>3, <1>4, <1>5, <1>6, StoreKeeps
<1>8. QED
  BY <1>2, <1>7, StoreRestarts

\* An inner transaction ends, and its layer with it.
LEMMA EndInnerStore ==
  ASSUME ContentInv, IndInv', NEW s \in Session, EndInner(s)
  PROVE  Store!Next
<1> DEFINE n == Len(sa[s])
           p == rt[s][n - 1]
           c == rt[s][n]
           r == Layers[s]
           d == Dead[s]
<1>1. /\ n \in Nat /\ n > 1 /\ Len(sa'[s]) = n - 1
      /\ \A i \in 1 .. n - 1 : sa'[s][i] = sa[s][i]
      /\ \A i \in 1 .. n - 2 : rt'[s][i] = rt[s][i]
      /\ (c.cleared /\ rt'[s][n - 1] = p)
            \/ (~c.cleared /\ rt'[s][n - 1] = MergedInto(p, c))
      /\ pc[s] \in {"ending", "closing"} /\ (pc'[s] = "closing" => pc[s] = "closing")
      /\ files' = files /\ Others(s)
  BY EndInnerShape DEF Others
<1>2. (pc'[s] = "closing") = (pc[s] = "closing") /\ pc'[s] \in {"idle", "closing"}
  <2>1. pc[s] = "closing" => pc'[s] = "closing"
    BY ContentFacts DEF EndInner, TypeOK
  <2>2. QED
    BY <1>1, <2>1, EndInnerShape
<1>3. /\ IndInv
      /\ p \in RepositoryTransactions /\ WellFormed(p)
      /\ c \in RepositoryTransactions /\ WellFormed(c)
      /\ StagedInv(sa[s], rt[s], want[s], pc[s], publish[s], past)
      /\ 1 \in 1 .. n - 1 /\ n \in 1 .. n /\ n - 1 \in 1 .. n - 1
      /\ \A i \in 1 .. n - 1 : i \in 1 .. n
      /\ \A i \in 1 .. n - 1 : i \in 1 .. n - 2 \/ i = n - 1
  <2>1. /\ 1 \in 1 .. n - 1 /\ n \in 1 .. n /\ n - 1 \in 1 .. n - 1 /\ n - 1 \in 1 .. n
        /\ \A i \in 1 .. n - 1 : i \in 1 .. n
        /\ \A i \in 1 .. n - 1 : i \in 1 .. n - 2 \/ i = n - 1
    <3>1. n \in Nat /\ n > 1
      BY <1>1
    <3> HIDE DEF n
    <3>2. QED
      BY <3>1
  <2>2. /\ IndInv /\ StagedInv(sa[s], rt[s], want[s], pc[s], publish[s], past)
        /\ \A i \in 1 .. n : rt[s][i] \in RepositoryTransactions /\ WellFormed(rt[s][i])
    BY ContentFacts DEF StagedOf
  <2>3. QED
    BY <2>1, <2>2
<1>4. sa[s][1].state # "COMMITTED"
  BY <1>3 DEF StagedInv, StatesInOrder
<1>5. /\ Committed[s] = FALSE /\ Todo[s] = {}
      /\ Committed'[s] = FALSE /\ Todo'[s] = {}
  <2>1. sa'[s][1].state # "COMMITTED"
    BY <1>1, <1>3, <1>4
  <2>2. QED
    BY <1>3, <1>4, <2>1, StoreNow, StoreNext DEF LayerTodo
<1>6. /\ r \in Seq(Layer) /\ Len(r) = n
      /\ \A i \in 1 .. n : r[i] = LayerOf(rt[s][i])
      /\ d \in Seq(BOOLEAN) /\ Len(d) = n
      /\ \A i \in 1 .. n : d[i] = (sa[s][i].state = "DEACTIVE" \/ pc[s] = "closing")
  BY <1>3, <1>4, StoreNow
<1>7. StagesNothing(c) \/ (~c.cleared /\ pc[s] = "ending" /\ d[n] = FALSE)
  <2>1. \/ StagesNothing(c)
        \/ ~c.cleared /\ sa[s][n].state # "DEACTIVE" /\ pc[s] # "closing"
    BY <1>3, <1>4 DEF StagedInv, NothingLeft
  <2>2. d[n] = (sa[s][n].state = "DEACTIVE" \/ pc[s] = "closing")
    BY <1>3, <1>6
  <2>3. QED
    BY <1>1, <2>1, <2>2
<1> HIDE DEF n, p, c, r, d
<1>8. /\ Front(d) \in Seq(BOOLEAN) /\ Len(Front(d)) = n - 1
      /\ \A i \in 1 .. n - 1 : Front(d)[i] = d[i]
  BY <1>1, <1>6, FrontProperties
<1>9. Dead'[s] = Front(d)
  <2>1. \A i \in 1 .. n - 1 : Front(d)[i] =
            (sa'[s][i].state = "DEACTIVE"
                \/ (pc'[s] = "closing" /\ sa'[s][1].state # "COMMITTED"))
    BY <1>1, <1>2, <1>3, <1>4, <1>6, <1>8
  <2>2. QED
    BY <1>1, <1>8, <2>1, NewDead
<1>10. /\ Dead' = [Dead EXCEPT ![s] = Front(Dead[s])]
       /\ UNCHANGED <<files, Committed, Todo>>
  BY <1>1, <1>5, <1>9, StoreKeeps DEF d
<1>11. CASE StagesNothing(c)
  <2>1. /\ Front(r) \in Seq(Layer) /\ Len(Front(r)) = n - 1
        /\ \A i \in 1 .. n - 1 : Front(r)[i] = r[i]
    BY <1>1, <1>6, FrontProperties
  <2>2. LayerOf(rt'[s][n - 1]) = LayerOf(p)
    <3>1. \A u \in UUID : ~Knows(c, u)
      BY <1>11, NothingKnown
    <3>2. \A u \in UUID : Overlay(MergedInto(p, c), u) = Overlay(p, u)
      BY <1>3, <3>1, MergedOverlay
    <3>3. QED
      BY <1>1, <3>2 DEF LayerOf
  <2>3. \A i \in 1 .. n - 1 : Front(r)[i] = LayerOf(rt'[s][i])
    BY <1>1, <1>3, <1>6, <2>1, <2>2 DEF p
  <2>4. Layers'[s] = Front(r)
    BY <1>1, <2>1, <2>3, NewLayers
  <2>5. Layers' = [Layers EXCEPT ![s] = Front(Layers[s])]
    BY <1>1, <2>4, StoreKeeps DEF r
  <2>6. Layers[s][Len(Layers[s])] = Blank /\ Len(Layers[s]) # 1 /\ ~Committed[s]
    BY <1>1, <1>3, <1>5, <1>6, <1>11, BlankLayers DEF r, c
  <2>7. QED
    BY <1>10, <2>5, <2>6, StoreLeaves
<1>12. CASE ~StagesNothing(c)
  <2> DEFINE q == Store!Merged(r)
  <2>1. /\ q \in Seq(Layer) /\ Len(q) = n
        /\ \A i \in 1 .. n - 2 : q[i] = LayerOf(rt[s][i])
        /\ q[n - 1] = LayerOf(MergedInto(p, c))
    BY <1>1, MergedStore DEF n, p, c, r
  <2> HIDE DEF q
  <2>2. /\ Front(q) \in Seq(Layer) /\ Len(Front(q)) = n - 1
        /\ \A i \in 1 .. n - 1 : Front(q)[i] = q[i]
    BY <1>1, <2>1, FrontProperties
  <2>3. \A i \in 1 .. n - 1 : Front(q)[i] = LayerOf(rt'[s][i])
    <3>1. rt'[s][n - 1] = MergedInto(p, c)
      BY <1>1, <1>7, <1>12
    <3>2. Front(q)[n - 1] = LayerOf(rt'[s][n - 1])
      BY <1>3, <2>1, <2>2, <3>1
    <3>3. \A i \in 1 .. n - 2 : Front(q)[i] = LayerOf(rt'[s][i])
      BY <1>1, <2>1, <2>2
    <3>4. QED
      BY <1>3, <3>2, <3>3
  <2>4. Layers'[s] = Front(q)
    BY <1>1, <2>2, <2>3, NewLayers
  <2>5. Layers' = [Layers EXCEPT ![s] = Front(Store!Merged(Layers[s]))]
    BY <1>1, <2>4, StoreKeeps DEF q, r
  <2>6. /\ ~Dead[s][Len(Layers[s])] /\ Len(Layers[s]) > 1 /\ ~Committed[s]
    BY <1>1, <1>5, <1>6, <1>7, <1>12 DEF r, d
  <2>7. QED
    BY <1>10, <2>5, <2>6, StoreReleasesAndLeaves
<1>13. QED
  BY <1>11, <1>12

\* A session starts afresh.
LEMMA AfreshStore ==
  ASSUME ContentInv, IndInv', NEW s \in Session,
         EndRoot(s) \/ NewContext(s) \/ Crash(s)
  PROVE  /\ Layers' = [Layers EXCEPT ![s] = <<Blank>>]
         /\ Dead' = [Dead EXCEPT ![s] = <<FALSE>>]
         /\ Committed' = [Committed EXCEPT ![s] = FALSE]
         /\ Todo' = [Todo EXCEPT ![s] = {}]
         /\ files' = files
         /\ Others(s)
<1>1. /\ sa'[s] = <<Frame("root", NoWish)>> /\ rt'[s] = <<NewTransaction>>
      /\ pc'[s] = "idle" /\ files' = files /\ Others(s)
  BY ContentFacts DEF EndRoot, NewContext, Crash, StartAfresh, TypeOK, Others
<1>2. /\ Len(sa'[s]) = 1 /\ sa'[s][1].state = "ACTIVE" /\ StagesNothing(rt'[s][1])
  BY <1>1, FreshStagesNothing DEF Frame
<1>3. Layers'[s] = <<Blank>>
  BY <1>2, BlankRootNext
<1>4. Dead'[s] = <<FALSE>>
  BY <1>1, <1>2, DeadRootNext
<1>5. Committed'[s] = FALSE /\ Todo'[s] = {}
  BY <1>2, StoreNext DEF LayerTodo
<1>6. QED
  BY <1>1, <1>3, <1>4, <1>5, StoreKeeps

LEMMA EndRootStore ==
  ASSUME ContentInv, IndInv', NEW s \in Session, EndRoot(s)
  PROVE  Store!Next
<1>1. /\ Layers' = [Layers EXCEPT ![s] = <<Blank>>]
      /\ Dead' = [Dead EXCEPT ![s] = <<FALSE>>]
      /\ Committed' = [Committed EXCEPT ![s] = FALSE]
      /\ Todo' = [Todo EXCEPT ![s] = {}]
      /\ files' = files /\ Others(s)
  BY AfreshStore
<1>2. Len(sa[s]) = 1 /\ rt[s][1].cleared /\ 1 \in 1 .. Len(sa[s])
  BY ContentFacts DEF EndRoot
<1>3. /\ IndInv /\ pc[s] = "ending"
      /\ StagedInv(sa[s], rt[s], want[s], pc[s], publish[s], past)
  BY <1>2, ContentFacts DEF StagedOf
<1>4. StagesNothing(rt[s][1])
  BY <1>2, <1>3 DEF StagedInv, NothingLeft
<1>5. Layers[s] = <<Blank>>
  BY <1>2, <1>3, <1>4, BlankRoot
<1>6. Todo[s] = {} /\ Committed[s] = (sa[s][1].state = "COMMITTED")
  BY <1>3, StoreNow DEF LayerTodo
<1>7. Layers' = Layers /\ Todo' = Todo
  BY <1>1, <1>5, <1>6 DEF Layers, Todo
<1>8. CASE Committed[s]
  BY <1>1, <1>5, <1>6, <1>7, <1>8, StoreFinishes
<1>9. CASE ~Committed[s]
  <2>1. Committed'[s] = Committed[s]
    BY <1>1, <1>6, <1>9 DEF Committed
  <2>2. Committed' = Committed
    BY <1>1, <2>1, StoreKeeps
  <2>3. Len(Layers[s]) = 1 /\ Layers[s][Len(Layers[s])] = Blank
    BY <1>5
  <2>4. QED
    BY <1>1, <1>7, <1>9, <2>2, <2>3, StoreLeaves
<1>10. QED
  BY <1>8, <1>9

\* The root ends uncleared, to publish what a failed commit did not, or nothing.
LEMMA EndRootUnclearedStore ==
  ASSUME ContentInv, IndInv', NEW s \in Session, EndRootUncleared(s)
  PROVE  Store!Next \/ UNCHANGED Store!vars
<1> DEFINE pub == [publish[s] EXCEPT !.deleted = rt[s][1].deleted,
                                     !.set = rt[s][1].set]
<1>1. /\ pc[s] \in {"ending", "closing"} /\ Len(sa[s]) = 1 /\ ~rt[s][1].cleared
      /\ UNCHANGED <<files, sa, rt>>
      /\ pc' = [pc EXCEPT ![s] = "republishing"]
      /\ publish' = [publish EXCEPT ![s] = pub]
  <2>1. [publish EXCEPT ![s].deleted = rt[s][1].deleted, ![s].set = rt[s][1].set]
            = [publish EXCEPT ![s] = pub]
    BY ContentFacts DEF TypeOK, Publication
  <2>2. QED
    BY <2>1, ContentFacts DEF EndRootUncleared
<1>2. pub.deleted = rt[s][1].deleted /\ pub.set = rt[s][1].set
  BY ContentFacts DEF TypeOK, Publication
<1> HIDE DEF pub
<1>3. pc'[s] = "republishing" /\ publish'[s] = pub /\ Others(s)
  BY <1>1, ContentFacts DEF TypeOK, Others
<1>4. /\ IndInv /\ 1 \in 1 .. Len(sa[s])
      /\ StagedInv(sa[s], rt[s], want[s], pc[s], publish[s], past)
      /\ sa[s][1].kind = "root"
  BY <1>1, ContentFacts DEF StagedOf
<1>5. pc[s] = "ending" => sa[s][1].state = "DEACTIVE"
  BY <1>1, <1>4 DEF StagedInv, EventFitsState
<1>6. Layers' = Layers
  BY <1>1, <1>3, <1>4, SameLayers, StoreKeeps
<1>7. Committed' = Committed /\ Committed[s] = (sa[s][1].state = "COMMITTED")
  BY <1>1, <1>3, <1>4, StoreNow, StoreNext, StoreKeeps
<1>8. Todo' = Todo
  <2>1. CASE sa[s][1].state = "COMMITTED"
    <3>1. Todo[s] = rt[s][1].deleted \cup rt[s][1].set
      BY <1>1, <1>4, <1>5, <2>1, StoreNow DEF LayerTodo
    <3>2. Todo'[s] = rt[s][1].deleted \cup rt[s][1].set
      <4>1. sa'[s][1].state = "COMMITTED"
        BY <1>1, <2>1
      <4>2. Todo'[s] = publish'[s].deleted \cup publish'[s].set
        BY <1>3, <4>1, StoreNext DEF LayerTodo
      <4>3. QED
        BY <1>2, <1>3, <4>2
    <3>3. QED
      BY <1>3, <3>1, <3>2, StoreKeeps
  <2>2. CASE sa[s][1].state # "COMMITTED"
    <3>1. Todo[s] = {} /\ Todo'[s] = {}
      BY <1>1, <1>4, <2>2, StoreNow, StoreNext DEF LayerTodo
    <3>2. QED
      BY <1>3, <3>1, StoreKeeps
  <2>3. QED
    BY <2>1, <2>2
<1>9. CASE sa[s][1].state \in {"COMMITTED", "DEACTIVE"}
  <2>1. Dead'[s] = Dead[s]
    <3>1. \A i \in 1 .. Len(sa[s]) : i = 1
      BY <1>1
    <3>2. QED
      BY <1>1, <1>3, <1>4, <1>9, <3>1, SameDead
  <2>2. QED
    BY <1>1, <1>3, <1>6, <1>7, <1>8, <2>1, StoreKeeps, StoreStutters
<1>10. CASE sa[s][1].state \notin {"COMMITTED", "DEACTIVE"}
  <2>1. StagesNothing(rt[s][1])
    BY <1>10, UnclearedRoot
  <2>2. Layers[s] = <<Blank>>
    BY <1>1, <1>4, <2>1, BlankRoot
  <2>3. Dead'[s] = <<FALSE>>
    BY <1>1, <1>3, <1>10, DeadRootNext
  <2>4. Dead' = [Dead EXCEPT ![s] = <<FALSE>>]
    BY <1>3, <2>3, StoreKeeps
  <2>5. Len(Layers[s]) = 1 /\ Layers[s][Len(Layers[s])] = Blank /\ ~Committed[s]
    <3>1. ~Committed[s]
      BY <1>7, <1>10
    <3>2. QED
      BY <2>2, <3>1
  <2>6. QED
    BY <1>1, <1>6, <1>7, <1>8, <2>4, <2>5, StoreLeaves
<1>11. QED
  BY <1>9, <1>10

\* A session is closed: the database undoes what was not committed.
LEMMA CloseStore ==
  ASSUME NothingStagedIsLost, ContentInv, IndInv', NEW s \in Session, Close(s)
  PROVE  Store!Next \/ UNCHANGED Store!vars
<1> DEFINE n == Len(sa[s])
           r == Layers[s]
           d == Dead[s]
           q == [i \in DOMAIN r |-> IF i >= 1 THEN Blank ELSE r[i]]
           e == [i \in DOMAIN d |-> i >= 1 \/ d[i]]
<1>1. /\ pc[s] \in {"failed", "idle"} /\ UNCHANGED <<files, sa, rt, publish>>
      /\ pc'[s] = "closing" /\ Others(s)
  BY ContentFacts DEF Close, Idle, TypeOK, Others
<1>2. /\ IndInv /\ n \in Nat \ {0} /\ 1 \in 1 .. n
      /\ StagedInv(sa[s], rt[s], want[s], pc[s], publish[s], past)
  BY ContentFacts DEF StagedOf
<1>3. CASE pc[s] = "failed"
  <2>1. sa[s][1].state = "COMMITTED"
    BY <1>2, <1>3 DEF StagedInv, EventFitsState
  <2>2. Layers' = Layers
    BY <1>1, <1>2, SameLayers, StoreKeeps
  <2>3. Dead' = Dead
    BY <1>1, <1>2, <1>3, <2>1, SameDead, StoreKeeps
  <2>4. Committed'[s] = Committed[s]
    BY <1>1, <1>2, StoreNow, StoreNext
  <2>5. Todo'[s] = Todo[s]
    <3>1. Todo[s] = rt[s][1].deleted \cup rt[s][1].set
      BY <1>2, <1>3, <2>1, StoreNow DEF LayerTodo
    <3>2. sa'[s][1].state = "COMMITTED" /\ rt'[s][1] = rt[s][1]
      BY <1>1, <2>1
    <3>3. Todo'[s] = rt[s][1].deleted \cup rt[s][1].set
      BY <1>1, <3>2, StoreNext DEF LayerTodo
    <3>4. QED
      BY <3>1, <3>3
  <2>6. QED
    BY <1>1, <2>2, <2>3, <2>4, <2>5, StoreKeeps, StoreStutters
<1>4. CASE pc[s] = "idle"
  <2>1. sa[s][1].state # "COMMITTED"
    BY <1>2, <1>4 DEF StagedInv, EventFitsState
  <2>2. \A i \in 1 .. n : StagesNothing(rt[s][i])
    <3>1. DOMAIN rt[s] = 1 .. Len(sa[s])
      BY ContentFacts, LenProperties DEF TypeOK
    <3>2. QED
      BY <1>4, <3>1 DEF Close, NothingStagedIsLost
  <2>3. /\ r \in Seq(Layer) /\ Len(r) = n /\ d \in Seq(BOOLEAN) /\ Len(d) = n
        /\ Committed[s] = FALSE /\ Todo[s] = {}
        /\ Committed'[s] = FALSE /\ Todo'[s] = {}
    BY <1>1, <1>2, <2>1, StoreNow, StoreNext DEF LayerTodo
  <2> HIDE DEF n, r, d
  <2>4. DOMAIN r = 1 .. n /\ DOMAIN d = 1 .. n
    BY <2>3, LenProperties
  <2>5. q \in [1 .. n -> Layer] /\ \A i \in 1 .. n : q[i] = LayerOf(rt'[s][i])
    BY <1>1, <1>2, <2>2, <2>4, BlankLayers
  <2>6. e \in [1 .. n -> BOOLEAN] /\ \A i \in 1 .. n : e[i] = TRUE
    <3>1. \A i \in 1 .. n : i >= 1
      BY <1>2
    <3>2. \A i \in 1 .. n : (i >= 1 \/ d[i]) = TRUE
      BY <3>1
    <3>3. e = [i \in 1 .. n |-> i >= 1 \/ d[i]]
      BY <2>4
    <3> HIDE DEF e
    <3>4. \A i \in 1 .. n : e[i] = TRUE
      BY <3>2, <3>3
    <3>5. DOMAIN e = 1 .. n /\ e = [i \in DOMAIN e |-> e[i]]
      BY <3>3
    <3>6. QED
      BY <3>4, <3>5
  <2> HIDE DEF q, e
  <2>7. q \in Seq(Layer) /\ Len(q) = n
    BY <1>2, <2>5, FunctionIsSeq
  <2>8. e \in Seq(BOOLEAN) /\ Len(e) = n
    BY <1>2, <2>6, FunctionIsSeq
  <2>9. Layers'[s] = q
    BY <1>1, <2>5, <2>7, NewLayers DEF n
  <2>10. Dead'[s] = e
    <3>1. sa'[s][1].state # "COMMITTED" /\ Len(sa'[s]) = n
      BY <1>1, <2>1 DEF n
    <3>2. QED
      BY <1>1, <2>6, <2>8, <3>1, NewDead
  <2>11. /\ Layers' = [Layers EXCEPT ![s] =
                [i \in DOMAIN Layers[s] |-> IF i >= 1 THEN Blank ELSE Layers[s][i]]]
         /\ Dead' = [Dead EXCEPT ![s] = [i \in DOMAIN Dead[s] |-> i >= 1 \/ Dead[s][i]]]
         /\ UNCHANGED <<files, Committed, Todo>>
    BY <1>1, <2>3, <2>9, <2>10, StoreKeeps DEF q, e, r, d
  <2>12. 1 \in 1 .. Len(Layers[s]) /\ ~Committed[s]
    BY <1>2, <2>3 DEF r
  <2>13. QED
    BY <2>11, <2>12, StoreUndoes
<1>5. QED
  BY <1>1, <1>3, <1>4

\* A session dies with its process, or with the context it was broken in.
LEMMA DieStore ==
  ASSUME StoreInv, IndInv', NEW s \in Session, NewContext(s) \/ Crash(s)
  PROVE  Store!Next
<1>1. ContentInv /\ Spent(sa[s], rt[s], pc[s])
  BY DEF StoreInv
<1>2. Faults \cap {"crash", "io_error_at_end"} # {}
  BY <1>1 DEF NewContext, Crash, Spent
<1>3. QED
  BY <1>1, <1>2, AfreshStore, StoreDies

--------------------------------------------------------------------------------
(* The theorem.                                                            *)

LEMMA InitStore == Init => StoreInv /\ Store!Init
<1> SUFFICES ASSUME Init PROVE StoreInv /\ Store!Init
  OBVIOUS
<1>1. ContentInv /\ IndInv
  BY InitContent, InitInvariant
<1>2. StoreInv
  BY <1>1 DEF StoreInv, Spent, Init
<1>3. ASSUME NEW s \in Session
      PROVE  /\ Layers[s] = <<Blank>> /\ Dead[s] = <<FALSE>>
             /\ Committed[s] = FALSE /\ Todo[s] = {}
  <2>1. /\ sa[s] = <<Frame("root", NoWish)>> /\ rt[s] = <<NewTransaction>>
        /\ pc[s] = "idle"
    BY DEF Init
  <2>2. /\ Len(sa[s]) = 1 /\ sa[s][1].state = "ACTIVE" /\ StagesNothing(rt[s][1])
    BY <2>1, FreshStagesNothing DEF Frame
  <2>3. Layers[s] = <<Blank>>
    BY <1>1, <2>2, BlankRoot
  <2>4. Committed[s] = FALSE /\ Todo[s] = {}
    BY <1>1, <2>2, StoreNow DEF LayerTodo
  <2>5. Dead[s] = <<FALSE>>
    <3> DEFINE d == Dead[s]
    <3> PICK e \in BOOLEAN : e = FALSE
      OBVIOUS
    <3>1. d \in Seq(BOOLEAN) /\ Len(d) = 1
      BY <1>1, <2>2, StoreNow
    <3>2. 1 \in 1 .. Len(sa[s]) /\ sa[s][1].state # "DEACTIVE" /\ pc[s] # "closing"
      BY <2>1, <2>2
    <3>3. \A i \in 1 .. Len(sa[s]) :
                d[i] = (sa[s][i].state = "DEACTIVE"
                        \/ (pc[s] = "closing" /\ sa[s][1].state # "COMMITTED"))
      BY <1>1, StoreNow
    <3> HIDE DEF d
    <3>4. d[1] = e
      BY <3>2, <3>3
    <3>5. /\ <<e>> \in Seq(BOOLEAN) /\ Len(<<e>>) = 1
          /\ \A i \in 1 .. 1 : <<e>>[i] = e /\ i = 1
      OBVIOUS
    <3>6. d = <<e>>
      BY <3>1, <3>4, <3>5, SameElements
    <3>7. QED
      BY <3>6 DEF d
  <2>6. QED
    BY <2>3, <2>4, <2>5
<1>4. /\ Layers = [s \in Session |-> <<Blank>>] /\ Dead = [s \in Session |-> <<FALSE>>]
      /\ Committed = [s \in Session |-> FALSE] /\ Todo = [s \in Session |-> {}]
  BY <1>3 DEF Layers, Dead, Committed, Todo
<1>5. files \in [UUID -> Content \cup {Absent}]
  BY DEF Init, Cell
<1>6. QED
  BY <1>2, <1>4, <1>5 DEF Store!Init, Store!Cell, Store!Blank, Blank,
     Layers, Dead, Committed, Todo

\* Each step of a session is a step of the store, or none that it sees.
LEMMA SessionStore ==
  ASSUME NothingStagedIsLost, StoreInv, ContentInv, IndInv', NEW s \in Session,
         \/ \E u \in UUID, c \in Content : SetContent(s, u, c)
         \/ \E u \in UUID : DeleteContent(s, u) \/ DeleteBlob(s, u)
         \/ BeginNested(s) \/ BeginSub(s)
         \/ Flush(s)
         \/ Rollback(s) \/ RollbackDeactivated(s)
         \/ CommitSub(s) \/ CommitNested(s) \/ CommitRoot(s)
         \/ Publish(s) \/ PublishFails(s) \/ RepublishFails(s)
         \/ End(s)
         \/ Close(s) \/ NewContext(s)
         \/ Crash(s)
  PROVE  Store!Next \/ UNCHANGED Store!vars
<1>1. CASE \E u \in UUID, c \in Content : SetContent(s, u, c)
  BY <1>1, SetContentStore
<1>2. CASE \E u \in UUID : DeleteContent(s, u)
  BY <1>2, DeleteContentStore DEF DeleteContent, Usable, Idle
<1>3. CASE BeginNested(s) \/ BeginSub(s) \/ FlushBegin(s)
  <2>1. PICK frame \in SessionTransactions, event \in {"idle", "flushing"} :
            /\ Usable(s) /\ frame.state = "ACTIVE" /\ CreateTransaction(s)
            /\ sa' = [sa EXCEPT ![s] = Append(@, frame)]
            /\ pc' = [pc EXCEPT ![s] = event]
            /\ UNCHANGED <<files, publish>>
    <3> DEFINE savepoint == Frame("nested", want[s])
               sub == Frame("sub", NoWish)
    <3>1. /\ savepoint \in SessionTransactions /\ savepoint.state = "ACTIVE"
          /\ sub \in SessionTransactions /\ sub.state = "ACTIVE"
      BY ContentFacts DEF Frame, SessionTransactions, NoWish, Wish
    <3> HIDE DEF savepoint, sub
    <3>2. CASE BeginNested(s)
      <4>1. /\ Usable(s) /\ CreateTransaction(s) /\ UNCHANGED <<files, publish>>
            /\ sa' = [sa EXCEPT ![s] = Append(@, savepoint)]
            /\ pc' = [pc EXCEPT ![s] = "idle"]
        BY <3>2, ContentFacts DEF BeginNested, Usable, Idle, savepoint, TypeOK
      <4>2. QED
        BY <3>1, <4>1
    <3>3. CASE BeginSub(s)
      <4>1. /\ Usable(s) /\ CreateTransaction(s) /\ UNCHANGED <<files, publish>>
            /\ sa' = [sa EXCEPT ![s] = Append(@, sub)]
            /\ pc' = [pc EXCEPT ![s] = "idle"]
        BY <3>3, ContentFacts DEF BeginSub, Usable, Idle, sub, TypeOK
      <4>2. QED
        BY <3>1, <4>1
    <3>4. CASE FlushBegin(s)
      <4>1. /\ Usable(s) /\ CreateTransaction(s) /\ UNCHANGED <<files, publish>>
            /\ sa' = [sa EXCEPT ![s] = Append(@, sub)]
            /\ pc' = [pc EXCEPT ![s] = "flushing"]
        BY <3>4 DEF FlushBegin, sub
      <4>2. QED
        BY <3>1, <4>1
    <3>5. QED
      BY <1>3, <3>2, <3>3, <3>4
  <2>2. QED
    BY <2>1, OpenStore
<1>4. CASE \E u \in UUID : PropagateDelete(s, u)
  <2> PICK u \in UUID : PropagateDelete(s, u)
    BY <1>4
  <2>1. CASE Get(s, u) = Absent
    BY <2>1, IdleStore
  <2>2. CASE Get(s, u) # Absent
    <3>1. /\ pc[s] = "flushing"
          /\ rt' = [rt EXCEPT ![s][Len(rt[s])] = Unstaged(Last(rt[s]), u)]
          /\ UNCHANGED <<files, sa, pc, publish>>
      BY <2>2 DEF PropagateDelete
    <3>2. Top(s).state = "ACTIVE"
      BY <3>1, FlushingFacts
    <3>3. QED
      BY <3>1, <3>2, DeleteContentStore
  <2>3. QED
    BY <2>1, <2>2
<1>5. CASE FlushCommit(s) \/ CommitNested(s) \/ CommitRoot(s)
  BY <1>5, FlushCommitStore, CommitNestedStore, CommitRootStore
<1>6. CASE FlushFails(s) \/ Rollback(s)
  BY <1>6, FlushingFacts, RollbackStore DEF FlushFails, Rollback, Usable, Idle
<1>7. CASE (\E u \in UUID : DeleteBlob(s, u)) \/ RollbackDeactivated(s) \/ CommitSub(s)
  BY <1>7, IdleStore
<1>8. CASE Publish(s) \/ PublishFails(s) \/ RepublishFails(s)
  BY <1>8, PublishFileStore, PublishEndStore, PublishFailsStore DEF Publish
<1>9. CASE End(s)
  BY <1>9, EndInnerStore, EndRootStore, EndRootUnclearedStore DEF End
<1>10. CASE Close(s) \/ NewContext(s) \/ Crash(s)
  BY <1>10, CloseStore, DieStore
<1>11. QED
  BY <1>1, <1>2, <1>3, <1>4, <1>5, <1>6, <1>7, <1>8, <1>9, <1>10 DEF Flush

LEMMA StepStore ==
  ASSUME NothingStagedIsLost, StoreInv, [Next]_vars
  PROVE  StoreInv' /\ [Store!Next]_(Store!vars)
<1>1. ContentInv /\ ContentInv' /\ IndInv'
  <2>1. ContentInv
    BY DEF StoreInv
  <2>2. ContentInv'
    BY <2>1, StepContent
  <2>3. QED
    BY <2>1, <2>2 DEF ContentInv
<1>2. StoreInv'
  BY <1>1, StepSpent DEF StoreInv
<1>3. Store!Next \/ UNCHANGED Store!vars
  <2>1. CASE UNCHANGED vars
    <3>1. UNCHANGED <<files, Layers, Dead, Committed, Todo>>
      BY <2>1 DEF vars, Layers, Dead, Committed, Todo, LayersOf, DeadOf, TodoOf,
                  IsCommitted, Publishing
    <3>2. QED
      BY <3>1, StoreStutters
  <2>2. CASE Next
    BY <1>1, <2>2, SessionStore DEF Next
  <2>3. QED
    BY <2>1, <2>2
<1>4. QED
  BY <1>2, <1>3

(***************************************************************************)
(* The repository keeps the promise that a blob is like a column of the    *)
(* database: if nothing staged is rolled back or closed behind its back,   *)
(* whatever its sessions do is something BlobStore does, through failed    *)
(* publications, crashes and broken sessions.                              *)
(***************************************************************************)
THEOREM RepositoryImplementsStore ==
  Spec => (NothingStagedIsLost => ImplementsBlobStore)
<1>1. Init => StoreInv /\ Store!Init
  BY InitStore
<1>2. NothingStagedIsLost /\ StoreInv /\ [Next]_vars
        => StoreInv' /\ [Store!Next]_(Store!vars)
  BY StepStore
<1>3. NothingStagedIsLost => NothingStagedIsLost'
  BY DEF NothingStagedIsLost
<1>4. QED
  BY <1>1, <1>2, <1>3, PTL DEF Spec, ImplementsBlobStore, Store!Spec
================================================================================
