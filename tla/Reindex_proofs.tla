---------------------------- MODULE Reindex_proofs ----------------------------
(***************************************************************************)
(* Proofs about Reindex, for every number of rows, users and requests, every *)
(* page size and whichever rows were committed by one transaction.           *)
(***************************************************************************)
EXTENDS Reindex, MemoryStore_proofs, FiniteSetTheorems

Pending == {"page", "existing", "upsert"}

TaskFields == {"step", "user", "onlyMissing", "offset", "page", "existing", "retries", "start"}

TaskTyped ==
  /\ DOMAIN task = TaskFields
  /\ task.onlyMissing \in BOOLEAN
  /\ task.step \in {"none", "done", "failed"} \cup Pending
  /\ task.step # "none" => task.user \in Users
  /\ task.offset \in Nat
  /\ task.start \subseteq Mems
  /\ DOMAIN task.page \subseteq Mems /\ \A m \in DOMAIN task.page : task.page[m] \in Nat \ {0}
  /\ missed \in BOOLEAN

\* Ids are given out in order: above an id that is free there are only free ones.
OldestFirst == \A m \in Fresh : \A n \in Mems : m <= n => n \in Fresh

\* The rows the attempt started with that come before m.
Ahead(m) == {n \in task.start : n < m}

\* The rows the attempt started with are the caller's oldest ones, and those the offset
\* has passed have a vector; the ones of the page in hand will get theirs.  Where a row
\* stands is certain only if it shares its indexed_at with no other.
Replayed ==
  /\ task.start \subseteq Mine(task.user)
  /\ \A m \in task.start : \A n \in Mine(task.user) \ task.start : m < n
  /\ \A m \in task.start : Alone(m) /\ Cardinality(Ahead(m)) < task.offset => vecs[m] # 0
  /\ task.step \in {"existing", "upsert"} =>
       \A m \in task.start :
         Alone(m) /\ Cardinality(Ahead(m)) < task.offset + PageSize =>
           vecs[m] # 0 \/ m \in DOMAIN task.page
  /\ \A m \in task.start \cap task.existing : vecs[m] # 0
  /\ task.step = "done" => \A m \in task.start : Alone(m) => vecs[m] # 0

ReindexInv ==
  /\ TypeOK /\ OwnershipInv /\ OldestFirst /\ TaskTyped
  /\ ~missed /\ task.step \in Pending \cup {"done"} => Replayed

--------------------------------------------------------------------------------
(* Pages *)

LEMMA MemsAreFinite == \A S \in SUBSET Mems : IsFiniteSet(S) /\ Cardinality(S) \in Nat
<1>1. IsFiniteSet(Mems)
  BY FS_Interval, BoundsAssumption DEF Mems
<1> QED BY <1>1, FS_Subset, FS_CardinalityType

LEMMA SmallerIs ==
  ASSUME NEW i \in Nat, NEW j \in Nat
  PROVE  Smaller(i, j) <= i /\ Smaller(i, j) <= j /\ Smaller(i, j) \in {i, j}
BY DEF Smaller

\* A row that is not among the first k of its user has k rows before it.
LEMMA InPrefix ==
  ASSUME NEW u \in Users, NEW S \in SUBSET Mine(u),
         \A x \in S : \A y \in Mine(u) \ S : x < y,
         NEW Q \in SUBSET Mine(u), Prefix(Q, u), NEW m \in S, Alone(m)
  PROVE  /\ m \in Q => Cardinality({n \in S : n < m}) < Cardinality(Q)
         /\ m \notin Q => Cardinality(Q) <= Cardinality({n \in S : n < m})
<1> DEFINE A == {n \in S : n < m}
<1>1. A \in SUBSET Mems /\ Q \in SUBSET Mems /\ m \in Mems /\ Mems \subseteq Nat
  <2>1. Mems \subseteq Nat
    BY BoundsAssumption DEF Mems
  <2>2. Mine(u) \subseteq Mems
    BY DEF Mine
  <2> QED BY <2>1, <2>2
<1>2. IsFiniteSet(A) /\ IsFiniteSet(Q) /\ Cardinality(A) \in Nat /\ Cardinality(Q) \in Nat
  BY <1>1, MemsAreFinite
<1>3. \A n \in Mems : /\ n < m => Before(n, m)
                      /\ m < n => Before(m, n)
  BY <1>1 DEF Alone, Before, Tied
<1>4. ASSUME m \in Q
      PROVE  Cardinality(A) < Cardinality(Q)
  <2>1. A \cup {m} \subseteq Q
    BY <1>1, <1>3, <1>4 DEF Prefix
  <2>2. m \notin A
    BY <1>1
  <2>3. Cardinality(A \cup {m}) = Cardinality(A) + 1
    <3> HIDE DEF A
    <3> QED BY <1>2, <2>2, FS_AddElement
  <2>4. Cardinality(A \cup {m}) <= Cardinality(Q)
    <3> HIDE DEF A
    <3> QED BY <1>2, <2>1, FS_Subset
  <2> HIDE DEF A
  <2> QED BY <1>2, <2>3, <2>4
<1>5. ASSUME m \notin Q
      PROVE  Cardinality(Q) <= Cardinality(A)
  <2>1. ASSUME NEW n \in Q
        PROVE  n \in A
    <3>1. n \in Mems /\ n # m /\ n \in Nat /\ m \in Nat /\ m \in Mine(u)
      BY <1>1, <1>5, <2>1
    <3>2. ~(m < n)
      BY <1>3, <1>5, <2>1, <3>1 DEF Prefix
    <3>3. n < m
      BY <3>1, <3>2
    <3>4. n \in S
      BY <3>1, <3>2, <2>1
    <3> QED BY <3>3, <3>4
  <2> HIDE DEF A
  <2> QED BY <1>2, <2>1, FS_Subset
<1> QED BY <1>4, <1>5

\* A page takes the rows at the offset, and only at the end of the rows none.
LEMMA PageCovers ==
  ASSUME NEW u \in Users, NEW S \in SUBSET Mine(u),
         \A x \in S : \A y \in Mine(u) \ S : x < y,
         NEW offset \in Nat, NEW P \in Pages(u, offset), NEW m \in S, Alone(m)
  PROVE  /\ Cardinality({n \in S : n < m}) < offset + PageSize =>
              m \in P \/ Cardinality({n \in S : n < m}) < offset
         /\ P = {} => Cardinality({n \in S : n < m}) < offset
<1> DEFINE a == Cardinality({n \in S : n < m})
           M == Mine(u)
<1>1. PICK Q \in FirstRows(u, offset), R \in FirstRows(u, offset + PageSize) :
        Q \subseteq R /\ P = R \ Q
  BY DEF Pages
<1>2. /\ Q \in SUBSET M /\ R \in SUBSET M /\ Prefix(Q, u) /\ Prefix(R, u)
      /\ Cardinality(Q) = Smaller(offset, Cardinality(M))
      /\ Cardinality(R) = Smaller(offset + PageSize, Cardinality(M))
  BY DEF FirstRows
<1>3. M \in SUBSET Mems /\ {n \in S : n < m} \in SUBSET Mems /\ m \in M
  BY DEF Mine
<1>4. /\ IsFiniteSet(Q) /\ IsFiniteSet(R) /\ IsFiniteSet(M)
      /\ Cardinality(Q) \in Nat /\ Cardinality(R) \in Nat /\ Cardinality(M) \in Nat /\ a \in Nat
  BY <1>2, <1>3, MemsAreFinite
<1>5. /\ m \in Q => a < Cardinality(Q)
      /\ m \notin R => Cardinality(R) <= a
  BY <1>2, InPrefix
<1> HIDE DEF a, M
<1>6. offset + PageSize \in Nat /\ PageSize > 0
  BY ReindexAssumption
<1>7. Cardinality(Q) <= offset /\ Cardinality(Q) \in {offset, Cardinality(M)}
  BY <1>2, <1>4, SmallerIs
<1>8. Cardinality(R) \in {offset + PageSize, Cardinality(M)}
  BY <1>2, <1>4, <1>6, SmallerIs
<1>9. \A T \in SUBSET M : Cardinality(T) = Cardinality(M) => m \in T
  BY <1>3, <1>4, FS_Subset
<1>10. m \notin R => offset + PageSize <= a
  BY <1>2, <1>4, <1>5, <1>8, <1>9
<1>11. a < offset + PageSize => m \in P \/ a < offset
  BY <1>1, <1>4, <1>5, <1>6, <1>7, <1>10
<1>12. ASSUME P = {}
       PROVE  a < offset
  <2>1. Q = R
    BY <1>1, <1>12
  <2>2. m \in Q
    <3>1. SUFFICES ASSUME m \notin Q PROVE FALSE
      OBVIOUS
    <3>2. Cardinality(Q) # Cardinality(M) /\ Cardinality(R) # Cardinality(M)
      BY <1>2, <1>9, <2>1, <3>1
    <3>3. Cardinality(Q) = offset /\ Cardinality(R) = offset + PageSize
      BY <1>7, <1>8, <3>2
    <3>4. offset = offset + PageSize
      BY <2>1, <3>3
    <3> QED BY <3>4, ReindexAssumption
  <2> QED BY <1>4, <1>5, <1>7, <2>2
<1> QED BY <1>11, <1>12 DEF a

--------------------------------------------------------------------------------
(* Steps of requests *)

\* A row of a user goes only by being deleted, and comes only as the newest.
LEMMA RowsComeInOrder ==
  ASSUME TypeOK, OwnershipInv, OldestFirst, [Next]_vars
  PROVE  /\ OldestFirst'
         /\ \A m \in Mems : Live(m) /\ m \notin gone' => owner'[m] = owner[m]
         /\ \A m, n \in Mems : Live(m) /\ ~Live(n) /\ owner'[n] # None => m < n
<1>1. CASE UNCHANGED <<owner, parent, gone>>
  BY <1>1 DEF OldestFirst, Fresh, Live
<1>2. ASSUME NEW r \in Reqs, DeleteRows(Cascade(subject[r]))
      PROVE  /\ OldestFirst'
             /\ \A m \in Mems : Live(m) /\ m \notin gone' => owner'[m] = owner[m]
             /\ \A m, n \in Mems : Live(m) /\ ~Live(n) /\ owner'[n] # None => m < n
  <2> DEFINE D == Cascade(subject[r])
  <2>1. D \subseteq Mems /\ \A d \in D : Live(d)
    BY DEF Cascade
  <2>2. /\ owner' = [m \in Mems |-> IF m \in D THEN None ELSE owner[m]]
        /\ gone' = gone \cup D
    BY <1>2 DEF DeleteRows
  <2> HIDE DEF D
  <2>3. Fresh' = Fresh
    BY <2>1, <2>2 DEF Fresh, Live
  <2> QED BY <2>1, <2>2, <2>3 DEF OldestFirst, Live
<1>3. ASSUME NEW r \in Reqs, Inserted(r)
      PROVE  /\ OldestFirst'
             /\ \A m \in Mems : Live(m) /\ m \notin gone' => owner'[m] = owner[m]
             /\ \A m, n \in Mems : Live(m) /\ ~Live(n) /\ owner'[n] # None => m < n
  <2> DEFINE n == NextId
  <2>1. n \in Fresh /\ \A x \in Fresh : n <= x
    BY <1>3, NextIdIsFresh DEF Inserted
  <2>2. owner' = [owner EXCEPT ![n] = user[r]] /\ gone' = gone /\ user[r] \in Users
    BY <1>3 DEF Inserted
  <2> HIDE DEF n
  <2>3. n \in Mems /\ owner[n] = None /\ Mems \subseteq Nat
    BY <2>1 DEF Fresh, Mems
  <2>4. Fresh' = Fresh \ {n}
    BY <2>2, <2>3, NoneAssumption DEF Fresh, TypeOK
  <2>5. OldestFirst'
    <3> SUFFICES ASSUME NEW x \in Fresh', NEW y \in Mems, x <= y PROVE y \in Fresh'
      BY DEF OldestFirst
    <3>1. x \in Fresh /\ x # n /\ n <= x /\ x \in Nat /\ y \in Nat /\ n \in Nat
      BY <2>1, <2>3, <2>4 DEF Fresh
    <3> QED BY <2>4, <3>1 DEF OldestFirst
  <2>6. \A x \in Mems : Live(x) => x < n
    <3> SUFFICES ASSUME NEW x \in Mems, Live(x), ~(x < n) PROVE FALSE
      OBVIOUS
    <3>1. n <= x
      BY <2>3
    <3> QED BY <2>1, <3>1 DEF OldestFirst, Fresh, Live
  <2> QED BY <2>2, <2>3, <2>5, <2>6 DEF Live, TypeOK
<1> QED
  BY <1>1, <1>2, <1>3, EveryStepHasAKind DEF StepKind

LEMMA RequestKeepsReplayed ==
  ASSUME TypeOK, OwnershipInv, OldestFirst, TaskTyped, task.step # "none", RequestStep, ~missed',
         Replayed
  PROVE  Replayed'
<1>1. [Next]_vars /\ task' = task /\ ~missed
  BY DEF RequestStep, Meanwhile
<1>2. \A m \in task.start : m \notin gone' \ gone /\ ~(vecs[m] # 0 /\ vecs'[m] = 0)
  BY DEF RequestStep, Meanwhile
<1>3. \A m \in task.start : vecs[m] # 0 => vecs'[m] # 0
  BY <1>2
<1>4. task.user \in Users /\ task.start \subseteq Mems
  BY DEF TaskTyped
<1>5. task.start \subseteq Mine(task.user)'
  <2> SUFFICES ASSUME NEW m \in task.start PROVE m \in Mems /\ owner'[m] = task.user
    BY <1>1 DEF Mine
  <2>1. m \in Mems /\ owner[m] = task.user /\ Live(m)
    BY <1>4, NoneAssumption DEF Replayed, Mine, Live
  <2>2. m \notin gone'
    BY <1>2, <2>1 DEF OwnershipInv
  <2> QED BY <1>1, <2>1, <2>2, RowsComeInOrder
<1>6. ASSUME NEW m \in task.start, NEW n \in Mine(task.user)' \ task.start
      PROVE  m < n
  <2>1. m \in Mems /\ Live(m) /\ n \in Mems /\ owner'[n] = task.user /\ owner'[n] # None
    BY <1>1, <1>4, <1>6, NoneAssumption DEF Replayed, Mine, Live
  <2>2. CASE Live(n)
    <3>1. n \notin Fresh
      BY <2>2 DEF Fresh, Live
    <3>2. owner[n] = task.user
      BY <1>1, <2>1, <3>1, EveryStepKeepsRows DEF RowsKept
    <3> QED BY <1>6, <2>1, <3>2 DEF Replayed, Mine
  <2>3. CASE ~Live(n)
    BY <1>1, <2>1, <2>3, RowsComeInOrder
  <2> QED BY <2>2, <2>3
<1>7. \A m : Ahead(m)' = Ahead(m)
  BY <1>1 DEF Ahead
<1> QED
  BY <1>1, <1>3, <1>5, <1>6, <1>7 DEF Replayed

--------------------------------------------------------------------------------
(* Steps of the task *)

LEMMA StoreUntouched ==
  ASSUME TypeOK, OwnershipInv, OldestFirst, UNCHANGED vars
  PROVE  TypeOK' /\ OwnershipInv' /\ OldestFirst'
<1>1. TypeOK'
  BY TypeStep
<1>2. OwnershipInv'
  BY OwnershipStep
<1>3. OldestFirst'
  BY DEF vars, OldestFirst, Fresh
<1> QED BY <1>1, <1>2, <1>3

LEMMA TaskBegins ==
  ASSUME TypeOK, OwnershipInv, OldestFirst, NEW u \in Users, NEW b \in BOOLEAN, NEW k,
         Begin(u, b, k)
  PROVE  ReindexInv'
<1> DEFINE t == [NoTask EXCEPT !.step = "page", !.user = u, !.onlyMissing = b, !.retries = k,
                               !.start = Mine(u)]
<1>1. /\ t.step = "page" /\ t.user = u /\ t.start = Mine(u) /\ t.offset = 0
      /\ t.page = [m \in {} |-> 0] /\ t.existing = {} /\ t.onlyMissing = b
      /\ DOMAIN t = TaskFields
  BY DEF NoTask, TaskFields
<1>2. task' = t /\ missed' = FALSE /\ UNCHANGED vars
  BY DEF Begin
<1>3. Mine(u)' = Mine(u)
  BY <1>2 DEF vars, Mine
<1> HIDE DEF t
<1>4. Mine(u) \subseteq Mems
  BY DEF Mine
<1>5. TaskTyped'
  <2>1. DOMAIN [m \in {} |-> 0] = {}
    OBVIOUS
  <2>2. DOMAIN t.page \subseteq Mems /\ \A m \in DOMAIN t.page : t.page[m] \in Nat \ {0}
    BY <1>1, <2>1
  <2>3. t.onlyMissing \in BOOLEAN /\ t.offset \in Nat
    BY <1>1
  <2>4. missed' \in BOOLEAN
    BY <1>2
  <2> QED BY <1>1, <1>2, <1>4, <2>2, <2>3, <2>4 DEF TaskTyped, Pending
<1>6. Replayed'
  <2>1. \A m \in Mine(u) : Cardinality({n \in Mine(u) : n < m}) \in Nat
    BY <1>4, MemsAreFinite
  <2>2. task'.start = Mine(u) /\ task'.user = u /\ task'.offset = 0 /\ task'.step = "page"
        /\ task'.existing = {}
    BY <1>1, <1>2
  <2>3. Mine(task.user)' = Mine(u)
    BY <1>3, <2>2 DEF Mine
  <2>4. \A m : Ahead(m)' = {n \in Mine(u) : n < m}
    BY <2>2 DEF Ahead
  <2> QED BY <2>1, <2>2, <2>3, <2>4 DEF Replayed
<1> QED
  BY <1>2, <1>5, <1>6, StoreUntouched DEF ReindexInv


LEMMA PageIsRead ==
  ASSUME ReindexInv, ReadPage
  PROVE  ReindexInv'
<1>1. PICK P \in Pages(task.user, task.offset) :
        task' = IF P = {} THEN [task EXCEPT !.step = "done"]
                ELSE [task EXCEPT !.step = IF task.onlyMissing THEN "existing" ELSE "upsert",
                                  !.page = [m \in P |-> content[m]], !.existing = {}]
  BY DEF ReadPage
<1>2. task.step = "page" /\ UNCHANGED vars /\ missed' = missed
  BY DEF ReadPage
<1>3. task.user \in Users /\ task.offset \in Nat /\ DOMAIN task = TaskFields
  BY <1>2 DEF ReindexInv, TaskTyped
<1>4. P \subseteq Mine(task.user) /\ \A m \in P : content[m] \in Nat \ {0}
  <2>1. P \subseteq Mine(task.user)
    BY DEF Pages, FirstRows
  <2> QED BY <1>3, <2>1, NoneAssumption DEF Mine, ReindexInv, TypeOK, Live
<1>5. /\ task'.user = task.user /\ task'.start = task.start /\ task'.offset = task.offset
      /\ task'.onlyMissing = task.onlyMissing /\ DOMAIN task' = TaskFields
  <2>1. CASE P = {}
    BY <1>1, <1>3, <2>1 DEF TaskFields
  <2>2. CASE P # {}
    BY <1>1, <1>3, <2>2 DEF TaskFields
  <2> QED BY <2>1, <2>2
<1>6. P = {} => task'.step = "done" /\ task'.page = task.page /\ task'.existing = task.existing
  BY <1>1, <1>3 DEF TaskFields
<1>7. P # {} => /\ task'.step \in {"existing", "upsert"} /\ task'.existing = {}
                /\ task'.page = [m \in P |-> content[m]]
  BY <1>1, <1>3 DEF TaskFields
<1>8. TaskTyped'
  <2>1. P \subseteq Mems
    BY <1>4 DEF Mine
  <2>2. CASE P = {}
    BY <1>2, <1>3, <1>5, <1>6, <2>2 DEF ReindexInv, TaskTyped, Pending
  <2>3. CASE P # {}
    BY <1>2, <1>3, <1>4, <1>5, <1>7, <2>1, <2>3 DEF ReindexInv, TaskTyped, Pending
  <2> QED BY <2>2, <2>3
<1>9. ASSUME ~missed' PROVE Replayed'
  <2>1. Replayed
    BY <1>2, <1>9 DEF ReindexInv, Pending
  <2>2. ASSUME NEW m \in task.start, Alone(m)
        PROVE  /\ Cardinality(Ahead(m)) < task.offset + PageSize =>
                    m \in P \/ Cardinality(Ahead(m)) < task.offset
               /\ P = {} => Cardinality(Ahead(m)) < task.offset
    <3>1. task.start \in SUBSET Mine(task.user)
          /\ \A x \in task.start : \A y \in Mine(task.user) \ task.start : x < y
      BY <2>1 DEF Replayed
    <3>2. PICK u \in Users, S \in SUBSET Mems, k \in Nat :
            u = task.user /\ S = task.start /\ k = task.offset
      BY <1>3, <3>1 DEF Mine
    <3>3. S \in SUBSET Mine(u) /\ \A x \in S : \A y \in Mine(u) \ S : x < y
      BY <3>1, <3>2
    <3>4. P \in Pages(u, k) /\ m \in S
      BY <3>2, <2>2
    <3>5. /\ Cardinality({n \in S : n < m}) < k + PageSize =>
                m \in P \/ Cardinality({n \in S : n < m}) < k
          /\ P = {} => Cardinality({n \in S : n < m}) < k
      BY <2>2, <3>3, <3>4, PageCovers
    <3>6. Ahead(m) = {n \in S : n < m}
      BY <3>2 DEF Ahead
    <3> QED BY <3>2, <3>5, <3>6
  <2>3. \A m : Ahead(m)' = Ahead(m)
    BY <1>5 DEF Ahead
  <2>4. Mine(task.user)' = Mine(task.user) /\ vecs' = vecs
    BY <1>2, <1>5 DEF vars, Mine
  <2>5. CASE P = {}
    BY <1>2, <1>5, <1>6, <2>1, <2>2, <2>3, <2>4, <2>5 DEF Replayed
  <2>6. CASE P # {}
    BY <1>2, <1>5, <1>7, <2>1, <2>2, <2>3, <2>4, <2>6 DEF Replayed
  <2> QED BY <2>5, <2>6
<1>10. TypeOK' /\ OwnershipInv' /\ OldestFirst'
  BY <1>2, StoreUntouched DEF ReindexInv
<1> QED
  BY <1>8, <1>9, <1>10 DEF ReindexInv

LEMMA ExistingIsChecked ==
  ASSUME ReindexInv, CheckExisting
  PROVE  ReindexInv'
<1>1. /\ task.step = "existing" /\ UNCHANGED vars /\ missed' = missed
      /\ task' = [task EXCEPT !.step = "upsert", !.existing = {m \in DOMAIN task.page : vecs[m] # 0}]
  BY DEF CheckExisting
<1>2. /\ task'.user = task.user /\ task'.start = task.start /\ task'.offset = task.offset
      /\ task'.onlyMissing = task.onlyMissing /\ DOMAIN task' = TaskFields
      /\ task'.page = task.page /\ task'.step = "upsert"
      /\ task'.existing = {m \in DOMAIN task.page : vecs[m] # 0}
  BY <1>1 DEF ReindexInv, TaskTyped, TaskFields
<1>3. TaskTyped'
  BY <1>1, <1>2 DEF ReindexInv, TaskTyped, Pending
<1>4. ASSUME ~missed' PROVE Replayed'
  <2>1. Replayed
    BY <1>1, <1>4 DEF ReindexInv, Pending
  <2>2. Mine(task.user)' = Mine(task.user) /\ vecs' = vecs
    BY <1>1, <1>2 DEF vars, Mine
  <2>3. \A m : Ahead(m)' = Ahead(m)
    BY <1>2 DEF Ahead
  <2> QED BY <1>1, <1>2, <2>1, <2>2, <2>3 DEF Replayed
<1>5. TypeOK' /\ OwnershipInv' /\ OldestFirst'
  BY <1>1, StoreUntouched DEF ReindexInv
<1> QED
  BY <1>3, <1>4, <1>5 DEF ReindexInv

LEMMA PageIsUpserted ==
  ASSUME ReindexInv, UpsertPage
  PROVE  ReindexInv'
<1>1. /\ task.step = "upsert" /\ missed' = missed
      /\ UNCHANGED <<rows, pc, user, subject, snap, era, receipts>>
      /\ vecs' = [m \in Mems |-> IF m \in DOMAIN task.page \ task.existing
                                 THEN task.page[m] ELSE vecs[m]]
      /\ late' = late \cup {m \in DOMAIN task.page \ task.existing : ~Live(m)}
      /\ task' = [task EXCEPT !.step = "page", !.offset = @ + PageSize]
  BY DEF UpsertPage
<1>2. TaskTyped
  BY DEF ReindexInv
<1>3. /\ task'.user = task.user /\ task'.start = task.start
      /\ task'.offset = task.offset + PageSize
      /\ task'.onlyMissing = task.onlyMissing /\ DOMAIN task' = TaskFields
      /\ task'.page = task.page /\ task'.step = "page" /\ task'.existing = task.existing
  BY <1>1, <1>2 DEF TaskTyped, TaskFields
<1>4. TaskTyped'
  BY <1>1, <1>2, <1>3, ReindexAssumption DEF TaskTyped, Pending
<1>5. ASSUME ~missed' PROVE Replayed'
  <2>1. Replayed
    BY <1>1, <1>5 DEF ReindexInv, Pending
  <2>2. Mine(task.user)' = Mine(task.user)
    BY <1>1, <1>3 DEF rows, Mine
  <2>3. \A m : Ahead(m)' = Ahead(m)
    BY <1>3 DEF Ahead
  <2>4. \A m \in Mems : vecs[m] # 0 \/ m \in DOMAIN task.page \ task.existing => vecs'[m] # 0
    BY <1>1, <1>2 DEF TaskTyped
  <2>5. task.start \subseteq Mems
    BY <1>2 DEF TaskTyped
  <2> QED BY <1>1, <1>3, <2>1, <2>2, <2>3, <2>4, <2>5 DEF Replayed
<1>6. TypeOK'
  <2>1. vecs' \in [Mems -> Nat] /\ late' \in SUBSET Mems
    BY <1>1, <1>2 DEF TaskTyped, ReindexInv, TypeOK
  <2> QED BY <1>1, <2>1 DEF ReindexInv, TypeOK, rows, Live
<1>7. OwnershipInv' /\ OldestFirst'
  BY <1>1 DEF ReindexInv, OwnershipInv, OldestFirst, SameOwnerTree, Fresh, Live, rows
<1> QED
  BY <1>4, <1>5, <1>6, <1>7 DEF ReindexInv

LEMMA ReindexFails ==
  ASSUME ReindexInv, ReindexError
  PROVE  ReindexInv'
<1>1. CASE task.retries < MaxRetries
  <2>1. task.user \in Users /\ task.onlyMissing \in BOOLEAN
    BY DEF ReindexError, ReindexInv, TaskTyped
  <2>2. PICK u \in Users, b \in BOOLEAN : u = task.user /\ b = task.onlyMissing
    BY <2>1
  <2>3. PICK k : k = task.retries + 1
    OBVIOUS
  <2>4. Begin(u, b, k)
    BY <1>1, <2>2, <2>3 DEF ReindexError
  <2> QED BY <2>4, TaskBegins DEF ReindexInv
<1>2. CASE ~(task.retries < MaxRetries)
  <2>1. task' = [task EXCEPT !.step = "failed"] /\ UNCHANGED vars /\ missed' = missed
    BY <1>2 DEF ReindexError
  <2>2. /\ task'.step = "failed" /\ task'.user = task.user /\ task'.start = task.start
        /\ task'.offset = task.offset /\ task'.onlyMissing = task.onlyMissing
        /\ task'.page = task.page /\ DOMAIN task' = TaskFields
    BY <2>1 DEF ReindexInv, TaskTyped, TaskFields
  <2>3. TaskTyped'
    BY <2>1, <2>2 DEF ReindexInv, TaskTyped, ReindexError, Pending
  <2> QED BY <2>1, <2>2, <2>3, StoreUntouched DEF ReindexInv, Pending
<1> QED BY <1>1, <1>2

LEMMA ReindexStep ==
  ASSUME ReindexInv, [ReindexNext]_rvars
  PROVE  ReindexInv'
<1>1. CASE RequestStep
  <2>1. [Next]_vars /\ task' = task
    BY <1>1 DEF RequestStep, Meanwhile
  <2>2. TypeOK' /\ OwnershipInv' /\ OldestFirst'
    BY <2>1, TypeStep, OwnershipStep, RowsComeInOrder DEF ReindexInv
  <2>3. TaskTyped'
    BY <1>1, <2>1 DEF ReindexInv, TaskTyped, RequestStep, Meanwhile
  <2>4. ASSUME ~missed', task'.step \in Pending \cup {"done"} PROVE Replayed'
    <3>1. ~missed /\ task.step \in Pending \cup {"done"} /\ task.step # "none"
      BY <1>1, <2>1, <2>4 DEF RequestStep, Meanwhile, Pending
    <3> QED BY <1>1, <2>4, <3>1, RequestKeepsReplayed DEF ReindexInv
  <2> QED BY <2>2, <2>3, <2>4 DEF ReindexInv
<1>2. ASSUME NEW u \in Users, NEW b \in BOOLEAN, ReindexStart(u, b)
      PROVE  ReindexInv'
  BY <1>2, TaskBegins DEF ReindexStart, ReindexInv
<1>3. CASE TaskStep
  BY <1>3, PageIsRead, ExistingIsChecked, PageIsUpserted, ReindexFails DEF TaskStep
<1>4. CASE UNCHANGED rvars
  <2>1. UNCHANGED vars /\ task' = task /\ missed' = missed
    BY <1>4 DEF rvars
  <2>2. TypeOK' /\ OwnershipInv' /\ OldestFirst'
    BY <2>1, StoreUntouched DEF ReindexInv
  <2> QED
    BY <2>1, <2>2 DEF ReindexInv, TaskTyped, Replayed, Ahead, Mine, vars
<1> QED
  BY <1>1, <1>2, <1>3, <1>4 DEF ReindexNext

\* When a reindex ends normally every row it started with that shares its indexed_at with
\* no other has a vector, whichever requests ran beside it, unless one of them took a row
\* or a vector away meanwhile, and in whatever order each page finds the rows that one
\* transaction committed (reindex_user_memories).
THEOREM ReindexMakesUserWhole == ReindexSpec => []ReindexMakesWhole
<1>1. ReindexInit => ReindexInv
  <2> SUFFICES ASSUME ReindexInit PROVE ReindexInv
    OBVIOUS
  <2>1. TypeOK
    BY NoErasureType, NoneAssumption DEF ReindexInit, TypeOK, Live, Labels
  <2>2. OwnershipInv
    BY DEF ReindexInit, OwnershipInv, SameOwnerTree
  <2>3. OldestFirst
    <3> SUFFICES ASSUME NEW m \in Fresh, NEW n \in Mems, m <= n PROVE n \in Fresh
      BY DEF OldestFirst
    <3>1. m \in Nat /\ n \in Nat /\ m \in Mems
      BY DEF Fresh, Mems
    <3>2. m = n \/ m < n
      BY <3>1
    <3> QED BY <3>1, <3>2 DEF ReindexInit, Fresh
  <2>4. TaskTyped /\ task.step = "none"
    BY DEF ReindexInit, NoTask, TaskTyped, TaskFields
  <2> QED BY <2>1, <2>2, <2>3, <2>4 DEF ReindexInv, Pending
<1>2. ReindexInv /\ [ReindexNext]_rvars => ReindexInv'
  BY ReindexStep
<1>3. ReindexInv => ReindexMakesWhole
  BY DEF ReindexInv, Replayed, ReindexMakesWhole
<1> QED
  BY <1>1, <1>2, <1>3, PTL DEF ReindexSpec
===============================================================================
