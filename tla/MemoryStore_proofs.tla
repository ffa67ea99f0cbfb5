-------------------------- MODULE MemoryStore_proofs --------------------------
(***************************************************************************)
(* Proofs about MemoryStore, for every number of users, requests, ids,      *)
(* versions and receipts and every depth of the search.                     *)
(***************************************************************************)
EXTENDS MemoryStore, WellFoundedInduction, TLAPS

\* The next id is one that no row has had: the ids are ordered like indexed_at,
\* and a non-empty set of them has a least element.
LEMMA NextIdIsFresh ==
  ASSUME Fresh # {}
  PROVE  NextId \in Fresh /\ \A n \in Fresh : NextId <= n
<1> DEFINE R == {ss \in Nat \X Nat : ss[1] < ss[2]}
<1>1. Fresh \subseteq Nat
  BY BoundsAssumption DEF Fresh, Mems
<1>2. IsWellFoundedOn(R, Nat)
  BY NatLessThanWellFounded DEF OpToRel
<1>3. PICK m \in Fresh : \A n \in Fresh : <<n, m>> \notin R
  <2> HIDE DEF R
  <2> QED BY <1>1, <1>2, WFMin
<1>4. \A n \in Fresh : m <= n
  <2>1. ASSUME NEW n \in Fresh, n < m
        PROVE  FALSE
    <3>1. n \in Nat /\ m \in Nat
      BY <1>1
    <3>2. <<n, m>> \in R
      BY <2>1, <3>1
    <3> QED BY <1>3, <3>2
  <2> QED BY <1>1, <2>1
<1> QED
  BY <1>4 DEF NextId
--------------------------------------------------------------------------------
(* Type correctness *)

LEMMA NoErasureType == NoErasure \in Erasures
BY DEF NoErasure, Erasures

\* The entry of one target, and the locals it is taken from.
LEMMA EntryType ==
  ASSUME NEW m \in Mems, NEW e \in Erasures, NEW rowsLeft \in SUBSET Mems,
         NEW status \in {"deleted", "not_found_or_foreign", "error"}
  PROVE  Entry(m, status, e, rowsLeft) \in Entries
BY DEF Entry, Entries, Erasures

LEMMA NextTargetType ==
  ASSUME TypeOK, NEW r \in Reqs, NEW entry \in Entries, NextTarget(r, entry)
  PROVE  /\ era' \in [Reqs -> Erasures]
         /\ pc' = [pc EXCEPT ![r] = "erase"]
         /\ subject' = [subject EXCEPT ![r] = None]
         /\ user' = user
         /\ snap' = snap
<1> DEFINE e == [NoErasure EXCEPT !.requested = era[r].requested,
                                  !.todo = era[r].todo \ {entry.mem},
                                  !.entries = era[r].entries \cup {entry}]
<1>1. era[r] \in Erasures
  BY DEF TypeOK
<1>2. e \in Erasures
  BY <1>1, NoErasureType DEF Erasures
<1>3. era' = [era EXCEPT ![r] = e]
  BY DEF NextTarget
<1> HIDE DEF e
<1> QED
  BY <1>2, <1>3 DEF NextTarget, TypeOK

\* Locals of an erasure after some of them were assigned.
LEMMA ErasureFieldsType ==
  ASSUME NEW e \in Erasures, NEW A \in SUBSET Mems, NEW B \in SUBSET Mems
  PROVE  /\ [e EXCEPT !.affected = A, !.frontier = A, !.later = B] \in Erasures
         /\ \A d \in Nat : [e EXCEPT !.affected = A, !.frontier = B, !.depth = d] \in Erasures
         /\ [e EXCEPT !.pending = A] \in Erasures
         /\ [e EXCEPT !.checked = TRUE, !.present = A] \in Erasures
BY DEF Erasures

LEMMA ErasureUpdateType ==
  ASSUME NEW r \in Reqs, NEW e \in Erasures, era \in [Reqs -> Erasures],
         era' = [era EXCEPT ![r] = e]
  PROVE  era' \in [Reqs -> Erasures]
OBVIOUS

LEMMA DeleteRowsType ==
  ASSUME TypeOK, NEW D \in SUBSET Mems, DeleteRows(D)
  PROVE  /\ owner' \in [Mems -> Users \cup {None}]
         /\ parent' \in [Mems -> Mems \cup {None}]
         /\ content' \in [Mems -> Nat]
         /\ \A m \in Mems : (owner'[m] # None) <=> (content'[m] # 0)
         /\ gone' \in SUBSET Mems
BY DEF TypeOK, DeleteRows, Live

LEMMA CascadeType == \A m : Cascade(m) \in SUBSET Mems
BY DEF Cascade

LEMMA ArriveType ==
  ASSUME TypeOK, NEW r \in Reqs, NEW u \in Users, NEW m \in Mems \cup {None},
         NEW l \in Labels \ {"idle"}, Arrive(r, u, m, l), m \in Mems \/ l = "insert"
  PROVE  /\ pc' \in [Reqs -> Labels]
         /\ user' \in [Reqs -> Users \cup {None}]
         /\ \A q \in Reqs : pc'[q] # "idle" => user'[q] \in Users
         /\ subject' \in [Reqs -> Mems \cup {None}]
         /\ \A q \in Reqs : pc'[q] \notin {"idle", "insert", "erase"} => subject'[q] \in Mems
         /\ snap' \in [Reqs -> Nat]
         /\ era' \in [Reqs -> Erasures]
BY DEF TypeOK, Arrive

LEMMA GotoType ==
  ASSUME TypeOK, NEW r \in Reqs, NEW l \in Labels \ {"idle"}, Goto(r, l), pc[r] # "idle",
         subject[r] \in Mems \/ l = "erase"
  PROVE  /\ pc' \in [Reqs -> Labels]
         /\ user' \in [Reqs -> Users \cup {None}]
         /\ \A q \in Reqs : pc'[q] # "idle" => user'[q] \in Users
         /\ subject' \in [Reqs -> Mems \cup {None}]
         /\ \A q \in Reqs : pc'[q] \notin {"idle", "insert", "erase"} => subject'[q] \in Mems
BY DEF TypeOK, Goto

LEMMA ReturnType ==
  ASSUME TypeOK, NEW r \in Reqs, Return(r)
  PROVE  /\ pc' \in [Reqs -> Labels]
         /\ user' \in [Reqs -> Users \cup {None}]
         /\ \A q \in Reqs : pc'[q] # "idle" => user'[q] \in Users
         /\ subject' \in [Reqs -> Mems \cup {None}]
         /\ \A q \in Reqs : pc'[q] \notin {"idle", "insert", "erase"} => subject'[q] \in Mems
         /\ snap' \in [Reqs -> Nat]
         /\ era' \in [Reqs -> Erasures]
BY NoErasureType DEF TypeOK, Return, Labels

\* One step per operation; the erasure's locals are typed field by field.
LEMMA TypeStep ==
  ASSUME TypeOK, [Next]_vars
  PROVE  TypeOK'
<1> USE DEF At, rows
<1>1. ASSUME NEW r \in Reqs, NEW u \in Users, NEW p \in Mems \cup {None},
             CreateCheck(r, u, p)
      PROVE  TypeOK'
  <2> "insert" \in Labels \ {"idle"} BY DEF Labels
  <2> QED BY <1>1, ArriveType DEF CreateCheck, TypeOK, Live
<1>2. ASSUME NEW r \in Reqs, NEW u \in Users, NEW m \in Mems,
             UpdateGet(r, u, m) \/ DeleteGet(r, u, m) \/ AgentDeleteGet(r, u, m)
      PROVE  TypeOK'
  <2> {"update", "delete", "agent_vector"} \subseteq Labels \ {"idle"} BY DEF Labels
  <2>1. CASE UpdateGet(r, u, m)
    BY <2>1, ArriveType DEF UpdateGet, TypeOK, Live
  <2>2. CASE DeleteGet(r, u, m)
    BY <2>2, ArriveType DEF DeleteGet, TypeOK, Live
  <2>3. CASE AgentDeleteGet(r, u, m)
    BY <2>3, ArriveType DEF AgentDeleteGet, TypeOK, Live
  <2> QED BY <1>2, <2>1, <2>2, <2>3
<1>3. ASSUME NEW r \in Reqs, NEW u \in Users, NEW T \in SUBSET Mems,
             EraseStart(r, u, T)
      PROVE  TypeOK'
  <2> DEFINE e == [NoErasure EXCEPT !.requested = T, !.todo = T]
  <2>1. e \in Erasures
    BY NoErasureType DEF Erasures
  <2>2. era' = [era EXCEPT ![r] = e]
    BY <1>3 DEF EraseStart
  <2> HIDE DEF e
  <2> QED BY <1>3, <2>1, <2>2 DEF EraseStart, TypeOK, Live, Labels
<1>4. ASSUME NEW r \in Reqs, CreateInsert(r)
      PROVE  TypeOK'
  <2>1. CASE ParentExists(subject[r])
    <3>1. NextId \in Mems
      BY <1>4, <2>1, NextIdIsFresh DEF CreateInsert, Fresh
    <3> DEFINE n == NextId
    <3> HIDE DEF n
    <3>2. /\ owner' = [owner EXCEPT ![n] = user[r]]
          /\ parent' = [parent EXCEPT ![n] = subject[r]]
          /\ content' = [content EXCEPT ![n] = 1]
          /\ subject' = [subject EXCEPT ![r] = n]
          /\ pc' = [pc EXCEPT ![r] = "refresh"]
          /\ UNCHANGED <<gone, user, snap, era, vecs, receipts, late>>
          /\ n \in Mems
          /\ pc[r] = "insert"
      BY <1>4, <2>1, <3>1 DEF CreateInsert, n
    <3>3. user[r] \in Users
      BY <3>2 DEF TypeOK
    <3> QED BY <3>2, <3>3, NoneAssumption DEF TypeOK, Live, Labels
  <2>2. CASE ~ParentExists(subject[r])
    BY <1>4, <2>2, ReturnType DEF CreateInsert, TypeOK, Live
  <2> QED BY <2>1, <2>2
<1>5. ASSUME NEW r \in Reqs, Refresh(r)
      PROVE  TypeOK'
  <2>1. "upsert" \in Labels \ {"idle"} BY DEF Labels
  <2>2. CASE Live(subject[r])
    <3>1. subject[r] \in Mems /\ pc[r] # "idle"
      BY <1>5 DEF Refresh, TypeOK
    <3> QED BY <1>5, <2>1, <2>2, <3>1, GotoType DEF Refresh, TypeOK, Live
  <2>3. CASE ~Live(subject[r])
    BY <1>5, <2>3, ReturnType DEF Refresh, TypeOK, Live
  <2> QED BY <2>2, <2>3
<1>6. ASSUME NEW r \in Reqs, Upsert(r)
      PROVE  TypeOK'
  BY <1>6, ReturnType DEF Upsert, SetVector, TypeOK, Live
<1>7. ASSUME NEW r \in Reqs, UpdateCommit(r)
      PROVE  TypeOK'
  <2>1. "refresh" \in Labels \ {"idle"} BY DEF Labels
  <2>2. CASE Live(subject[r])
    <3>1. subject[r] \in Mems /\ pc[r] # "idle"
      BY <1>7 DEF UpdateCommit, TypeOK
    <3> QED BY <1>7, <2>1, <2>2, <3>1, GotoType DEF UpdateCommit, TypeOK, Live
  <2>3. CASE ~Live(subject[r])
    BY <1>7, <2>3, ReturnType DEF UpdateCommit, TypeOK, Live
  <2> QED BY <2>2, <2>3
<1>8. ASSUME NEW r \in Reqs, DeleteCommit(r)
      PROVE  TypeOK'
  <2>1. "delete_vector" \in Labels \ {"idle"} BY DEF Labels
  <2>2. subject[r] \in Mems /\ pc[r] # "idle"
    BY <1>8 DEF DeleteCommit, TypeOK
  <2> QED BY <1>8, <2>1, <2>2, GotoType, CascadeType, DeleteRowsType
          DEF DeleteCommit, TypeOK, Live
<1>9. ASSUME NEW r \in Reqs, DeleteVector(r)
      PROVE  TypeOK'
  BY <1>9, ReturnType DEF DeleteVector, DropVector, TypeOK, Live
<1>10. ASSUME NEW r \in Reqs, AgentDeleteVector(r)
       PROVE  TypeOK'
  <2>1. "agent_commit" \in Labels \ {"idle"} BY DEF Labels
  <2>2. subject[r] \in Mems /\ pc[r] # "idle"
    BY <1>10 DEF AgentDeleteVector, TypeOK
  <2> QED BY <1>10, <2>1, <2>2, GotoType DEF AgentDeleteVector, DropVector, TypeOK, Live
<1>11. ASSUME NEW r \in Reqs, AgentDeleteCommit(r)
       PROVE  TypeOK'
  <2>1. CASE DeleteRows(Cascade(subject[r]))
    BY <1>11, <2>1, ReturnType, CascadeType, DeleteRowsType
       DEF AgentDeleteCommit, TypeOK, Live
  <2>2. CASE UNCHANGED rows
    BY <1>11, <2>2, ReturnType DEF AgentDeleteCommit, TypeOK, Live
  <2> QED BY <1>11, <2>1, <2>2 DEF AgentDeleteCommit
<1>12. ASSUME NEW r \in Reqs, NEW m \in Mems, EraseTarget(r, m)
       PROVE  TypeOK'
  <2>1. CASE Owns(user[r], m)
    <3> DEFINE e == [era[r] EXCEPT !.affected = {m}, !.frontier = {m}, !.later = Fresh]
    <3>1. Fresh \in SUBSET Mems /\ {m} \in SUBSET Mems
      BY DEF Fresh
    <3>2. e \in Erasures
      BY <3>1, ErasureFieldsType DEF TypeOK
    <3>3. era' = [era EXCEPT ![r] = e]
      BY <1>12, <2>1 DEF EraseTarget
    <3> HIDE DEF e
    <3>4. era' \in [Reqs -> Erasures]
      BY <3>2, <3>3, ErasureUpdateType DEF TypeOK
    <3> QED BY <1>12, <2>1, <3>4 DEF EraseTarget, TypeOK, Live, Labels
  <2>2. CASE ~Owns(user[r], m)
    <3>1. EmptyEntry(m, "not_found_or_foreign") \in Entries
      BY EntryType, NoErasureType DEF EmptyEntry
    <3>2. NextTarget(r, EmptyEntry(m, "not_found_or_foreign")) /\ pc[r] = "erase"
      BY <1>12, <2>2 DEF EraseTarget
    <3> QED BY <1>12, <3>1, <3>2, NextTargetType DEF EraseTarget, TypeOK, Live, Labels
  <2> QED BY <2>1, <2>2
<1>13. ASSUME NEW r \in Reqs, EraseCommit(r)
       PROVE  TypeOK'
  <2>1. "erase_vectors" \in Labels \ {"idle"} BY DEF Labels
  <2>2. subject[r] \in Mems /\ pc[r] # "idle"
    BY <1>13 DEF EraseCommit, TypeOK
  <2>3. era' \in [Reqs -> Erasures]
    <3> DEFINE e == [era[r] EXCEPT !.pending = era[r].affected]
    <3>1. era[r] \in Erasures /\ era[r].affected \in SUBSET Mems
      BY DEF TypeOK, Erasures
    <3>2. e \in Erasures
      BY <3>1, ErasureFieldsType
    <3>3. era' = [era EXCEPT ![r] = e]
      BY <1>13 DEF EraseCommit
    <3> HIDE DEF e
    <3> QED BY <3>2, <3>3, ErasureUpdateType DEF TypeOK
  <2> QED BY <1>13, <2>1, <2>2, <2>3, GotoType, CascadeType, DeleteRowsType
          DEF EraseCommit, TypeOK, Live
<1>14. ASSUME NEW r \in Reqs, NEW m \in Mems, EraseVector(r, m)
       PROVE  TypeOK'
  <2>1. era' \in [Reqs -> Erasures]
    <3> DEFINE e == [era[r] EXCEPT !.pending = era[r].pending \ {m}]
    <3>1. era[r] \in Erasures /\ era[r].pending \ {m} \in SUBSET Mems
      BY DEF TypeOK, Erasures
    <3>2. e \in Erasures
      BY <3>1, ErasureFieldsType
    <3>3. era' = [era EXCEPT ![r] = e]
      BY <1>14 DEF EraseVector
    <3> HIDE DEF e
    <3> QED BY <3>2, <3>3, ErasureUpdateType DEF TypeOK
  <2> QED BY <1>14, <2>1 DEF EraseVector, DropVector, TypeOK, Live
<1>15. ASSUME NEW r \in Reqs, EraseVerify(r)
       PROVE  TypeOK'
  <2>1. "erase_record" \in Labels \ {"idle"} BY DEF Labels
  <2>2. subject[r] \in Mems /\ pc[r] # "idle"
    BY <1>15 DEF EraseVerify, TypeOK
  <2>3. era' \in [Reqs -> Erasures]
    <3> DEFINE P == {m \in era[r].affected : vecs[m] # 0}
               e == [era[r] EXCEPT !.checked = TRUE, !.present = P]
    <3>1. era[r] \in Erasures /\ P \in SUBSET Mems
      BY DEF TypeOK, Erasures
    <3>2. era' = [era EXCEPT ![r] = e] \/ UNCHANGED era
      BY <1>15 DEF EraseVerify
    <3>3. e \in Erasures
      <4> HIDE DEF P
      <4> QED BY <3>1, ErasureFieldsType
    <3> HIDE DEF e
    <3> QED BY <3>2, <3>3, ErasureUpdateType DEF TypeOK
  <2> QED BY <1>15, <2>1, <2>2, <2>3, GotoType DEF EraseVerify, TypeOK, Live
<1>16. ASSUME NEW r \in Reqs, EraseRecord(r)
       PROVE  TypeOK'
  <2> DEFINE entry == Entry(subject[r], "deleted", era[r], RowsLeft(era[r].affected))
  <2>1. entry \in Entries
    <3>1. subject[r] \in Mems /\ era[r] \in Erasures
      BY <1>16 DEF EraseRecord, TypeOK
    <3>2. RowsLeft(era[r].affected) \in SUBSET Mems
      BY DEF RowsLeft
    <3> QED BY <3>1, <3>2, EntryType
  <2>2. NextTarget(r, entry) /\ pc[r] = "erase_record"
    BY <1>16 DEF EraseRecord
  <2> HIDE DEF entry
  <2> QED BY <1>16, <2>1, <2>2, NextTargetType DEF EraseRecord, TypeOK, Live, Labels
<1>17. ASSUME NEW r \in Reqs, NEW m \in Mems, EraseError(r, m)
       PROVE  TypeOK'
  <2>1. EmptyEntry(m, "error") \in Entries
    BY EntryType, NoErasureType DEF EmptyEntry
  <2>2. NextTarget(r, EmptyEntry(m, "error")) /\ pc[r] # "idle"
    BY <1>17 DEF EraseError
  <2> QED BY <1>17, <2>1, <2>2, NextTargetType DEF EraseError, TypeOK, Live, Labels
<1>18. ASSUME NEW r \in Reqs, EraseReceipt(r)
       PROVE  TypeOK'
  <2> DEFINE rc == [user |-> user[r], requested |-> era[r].requested,
                    status |-> ReceiptStatus(era[r].entries),
                    targets |-> era[r].entries]
  <2>1. rc \in Receipts
    <3>1. user[r] \in Users /\ era[r] \in Erasures
      BY <1>18 DEF EraseReceipt, TypeOK
    <3>2. ReceiptStatus(era[r].entries) \in
            {"completed", "completed_with_residual", "completed_with_errors"}
      BY DEF ReceiptStatus
    <3> QED BY <3>1, <3>2 DEF Receipts, Erasures
  <2>2. receipts' = receipts \cup {rc} \/ UNCHANGED receipts
    BY <1>18 DEF EraseReceipt
  <2> HIDE DEF rc
  <2> QED BY <1>18, <2>1, <2>2, ReturnType DEF EraseReceipt, TypeOK, Live
<1>19. ASSUME NEW r \in Reqs, EraseLevel(r)
       PROVE  TypeOK'
  <2> DEFINE l == IF LastLevel(r) THEN "erase_commit" ELSE "erase_search"
             d == IF LastLevel(r) THEN 0 ELSE era[r].depth + 1
             N == NextLevel(r)
             A == era[r].affected \cup N
             e == [era[r] EXCEPT !.affected = A, !.frontier = N, !.depth = d]
  <2>1. l \in Labels \ {"idle"}
    BY DEF Labels
  <2>2. subject[r] \in Mems /\ pc[r] # "idle"
    BY <1>19 DEF EraseLevel, TypeOK
  <2>3. era[r] \in Erasures /\ d \in Nat /\ N \in SUBSET Mems /\ A \in SUBSET Mems
    BY DEF TypeOK, Erasures, NextLevel
  <2>4. era' = [era EXCEPT ![r] = e] /\ Goto(r, l)
    BY <1>19 DEF EraseLevel
  <2> HIDE DEF d, N, A, l
  <2>5. e \in Erasures
    BY <2>3, ErasureFieldsType
  <2> HIDE DEF e
  <2>6. era' \in [Reqs -> Erasures]
    BY <2>4, <2>5, ErasureUpdateType DEF TypeOK
  <2> QED BY <1>19, <2>1, <2>2, <2>4, <2>6, GotoType DEF EraseLevel, TypeOK, Live
<1>20. CASE UNCHANGED vars
  BY <1>20 DEF vars, TypeOK, Live
<1> QED
  BY <1>1, <1>2, <1>3, <1>4, <1>5, <1>6, <1>7, <1>8, <1>9, <1>10, <1>11, <1>12,
     <1>13, <1>14, <1>15, <1>16, <1>17, <1>18, <1>19, <1>20 DEF Next, Arrival, Continue

\* Every interleaving of the requests keeps rows, vectors and locals well-formed.
THEOREM TypeCorrect == Spec => []TypeOK
<1>1. Init => TypeOK
  BY NoErasureType DEF Init, TypeOK, Live, Labels
<1>2. TypeOK /\ [Next]_vars => TypeOK'
  BY TypeStep
<1> QED
  BY <1>1, <1>2, PTL DEF Spec
--------------------------------------------------------------------------------
(* Ownership *)

\* What makes SameOwnerTree and the life cycle inductive: a deleted id has no row,
\* and the row a request works on has been seen to be its caller's (it may have
\* been deleted since, but no other user can have taken its id).
OwnershipInv ==
  /\ SameOwnerTree
  /\ \A m \in gone : ~Live(m)
  /\ \A r \in Reqs : subject[r] # None => /\ subject[r] \notin Fresh
                                          /\ owner[subject[r]] \in {None, user[r]}

\* Each request that has a row after a step had it before, or has just found it
\* to be its caller's.
SubjectsKept ==
  \A q \in Reqs : subject'[q] # None =>
    \/ subject'[q] = subject[q] /\ user'[q] = user[q]
    \/ Owns(user'[q], subject'[q]) /\ user'[q] \in Users

Inserted(r) == /\ Fresh # {}
               /\ ParentExists(subject[r])
               /\ owner' = [owner EXCEPT ![NextId] = user[r]]
               /\ parent' = [parent EXCEPT ![NextId] = subject[r]]
               /\ gone' = gone
               /\ subject' = [subject EXCEPT ![r] = NextId]
               /\ user' = user
               /\ user[r] \in Users

\* Every step changes the rows in one of three ways.
StepKind ==
  \/ SubjectsKept /\ UNCHANGED <<owner, parent, gone>>
  \/ /\ SubjectsKept
     /\ \E r \in Reqs : /\ subject[r] \in Mems
                        /\ user[r] \in Users
                        /\ DeleteRows(Cascade(subject[r]))
  \/ \E r \in Reqs : Inserted(r)

LEMMA ArriveKeeps ==
  ASSUME TypeOK, NEW r \in Reqs, NEW u \in Users, NEW m \in Mems \cup {None}, NEW l,
         Arrive(r, u, m, l), m = None \/ Owns(u, m)
  PROVE  SubjectsKept
BY DEF TypeOK, Arrive, SubjectsKept

LEMMA GotoKeeps ==
  ASSUME TypeOK, NEW r \in Reqs, NEW l, Goto(r, l)
  PROVE  SubjectsKept
BY DEF TypeOK, Goto, SubjectsKept

LEMMA ReturnKeeps ==
  ASSUME TypeOK, NEW r \in Reqs, Return(r)
  PROVE  SubjectsKept
BY DEF TypeOK, Return, SubjectsKept

LEMMA NextTargetKeeps ==
  ASSUME TypeOK, NEW r \in Reqs, NEW entry, NextTarget(r, entry)
  PROVE  SubjectsKept
BY DEF TypeOK, NextTarget, SubjectsKept

LEMMA EveryStepHasAKind ==
  ASSUME TypeOK, [Next]_vars
  PROVE  StepKind
<1> USE DEF At, rows
<1>1. ASSUME NEW r \in Reqs, NEW u \in Users, NEW p \in Mems \cup {None},
             CreateCheck(r, u, p)
      PROVE  StepKind
  BY <1>1, ArriveKeeps DEF CreateCheck, StepKind
<1>2. ASSUME NEW r \in Reqs, NEW u \in Users, NEW m \in Mems,
             UpdateGet(r, u, m) \/ DeleteGet(r, u, m) \/ AgentDeleteGet(r, u, m)
      PROVE  StepKind
  BY <1>2, ArriveKeeps DEF UpdateGet, DeleteGet, AgentDeleteGet, StepKind
<1>3. ASSUME NEW r \in Reqs, NEW u \in Users, NEW T \in SUBSET Mems,
             EraseStart(r, u, T)
      PROVE  StepKind
  BY <1>3 DEF EraseStart, StepKind, SubjectsKept, TypeOK
<1>4. ASSUME NEW r \in Reqs, CreateInsert(r)
      PROVE  StepKind
  <2>1. CASE ParentExists(subject[r])
    <3>1. user[r] \in Users
      BY <1>4 DEF CreateInsert, TypeOK
    <3> QED BY <1>4, <2>1, <3>1 DEF CreateInsert, StepKind, Inserted
  <2>2. CASE ~ParentExists(subject[r])
    BY <1>4, <2>2, ReturnKeeps DEF CreateInsert, StepKind
  <2> QED BY <2>1, <2>2
<1>5. ASSUME NEW r \in Reqs, Refresh(r) \/ Upsert(r) \/ UpdateCommit(r) \/ DeleteVector(r)
                             \/ AgentDeleteVector(r) \/ EraseLevel(r) \/ EraseVerify(r)
      PROVE  StepKind
  BY <1>5, GotoKeeps, ReturnKeeps
     DEF Refresh, Upsert, UpdateCommit, DeleteVector, AgentDeleteVector, EraseLevel, EraseVerify,
         StepKind
<1>6. ASSUME NEW r \in Reqs, DeleteCommit(r) \/ EraseCommit(r)
      PROVE  StepKind
  <2>1. subject[r] \in Mems /\ user[r] \in Users
    BY <1>6 DEF DeleteCommit, EraseCommit, TypeOK
  <2> QED BY <1>6, <2>1, GotoKeeps DEF DeleteCommit, EraseCommit, StepKind
<1>7. ASSUME NEW r \in Reqs, AgentDeleteCommit(r)
      PROVE  StepKind
  <2>1. subject[r] \in Mems /\ user[r] \in Users
    BY <1>7 DEF AgentDeleteCommit, TypeOK
  <2> QED BY <1>7, <2>1, ReturnKeeps DEF AgentDeleteCommit, StepKind
<1>8. ASSUME NEW r \in Reqs, NEW m \in Mems, EraseTarget(r, m)
      PROVE  StepKind
  <2>1. CASE Owns(user[r], m)
    <3>1. user[r] \in Users
      BY <1>8 DEF EraseTarget, TypeOK
    <3>2. subject' = [subject EXCEPT ![r] = m] /\ user' = user
      BY <1>8, <2>1 DEF EraseTarget
    <3>3. SubjectsKept
      BY <2>1, <3>1, <3>2 DEF SubjectsKept, TypeOK
    <3> QED BY <1>8, <3>3 DEF EraseTarget, StepKind
  <2>2. CASE ~Owns(user[r], m)
    BY <1>8, <2>2, NextTargetKeeps DEF EraseTarget, StepKind
  <2> QED BY <2>1, <2>2
<1>9. ASSUME NEW r \in Reqs, NEW m \in Mems, EraseVector(r, m)
      PROVE  StepKind
  BY <1>9 DEF EraseVector, StepKind, SubjectsKept
<1>10. ASSUME NEW r \in Reqs, NEW m \in Mems, EraseRecord(r) \/ EraseError(r, m)
       PROVE  StepKind
  BY <1>10, NextTargetKeeps DEF EraseRecord, EraseError, StepKind
<1>11. ASSUME NEW r \in Reqs, EraseReceipt(r)
       PROVE  StepKind
  BY <1>11, ReturnKeeps DEF EraseReceipt, StepKind
<1>12. CASE UNCHANGED vars
  BY <1>12 DEF vars, StepKind, SubjectsKept
<1>13. \A r \in Reqs : EraseRecord(r) => \E m \in Mems : EraseRecord(r)
  BY DEF EraseRecord, TypeOK
<1> QED
  BY <1>1, <1>2, <1>3, <1>4, <1>5, <1>6, <1>7, <1>8, <1>9, <1>10, <1>11, <1>12, <1>13
     DEF Next, Arrival, Continue

\* A cascade takes the rows under m with it, and only rows of m's owner.
LEMMA CascadeIsClosed ==
  ASSUME NEW m \in Mems, NEW c \in Mems, Live(c), parent[c] \in Cascade(m)
  PROVE  c \in Cascade(m)
BY DEF Cascade, ChildClosed

LEMMA CascadeHasOneOwner ==
  ASSUME SameOwnerTree, NEW m \in Mems, NEW d \in Cascade(m)
  PROVE  owner[d] = owner[m]
<1> DEFINE S == {x \in Mems : owner[x] = owner[m]}
<1>1. m \in S /\ S \in SUBSET Mems
  OBVIOUS
<1>2. ChildClosed(S)
  BY NoneAssumption DEF ChildClosed, SameOwnerTree
<1>3. d \in S
  BY <1>1, <1>2 DEF Cascade
<1> QED BY <1>3

LEMMA OwnershipStep ==
  ASSUME TypeOK, OwnershipInv, [Next]_vars
  PROVE  OwnershipInv'
<1>1. CASE SubjectsKept /\ UNCHANGED <<owner, parent, gone>>
  BY <1>1, NoneAssumption
     DEF SubjectsKept, OwnershipInv, SameOwnerTree, Live, Fresh, Owns
<1>2. ASSUME NEW r \in Reqs, subject[r] \in Mems, SubjectsKept,
             DeleteRows(Cascade(subject[r]))
      PROVE  OwnershipInv'
  <2> DEFINE D == Cascade(subject[r])
  <2>1. /\ D \subseteq Mems
        /\ \A c \in Mems : Live(c) /\ parent[c] \in D => c \in D
    BY <1>2, CascadeIsClosed DEF Cascade
  <2>2. /\ owner' = [m \in Mems |-> IF m \in D THEN None ELSE owner[m]]
        /\ parent' = [m \in Mems |-> IF m \in D THEN None ELSE parent[m]]
        /\ gone' = gone \cup D
    BY <1>2 DEF DeleteRows
  <2> HIDE DEF D
  <2>3. SameOwnerTree'
    <3> SUFFICES ASSUME NEW m \in Mems, parent'[m] # None
                 PROVE  owner'[m] # None /\ owner'[parent'[m]] = owner'[m]
      BY DEF SameOwnerTree, Live
    <3>1. m \notin D /\ parent'[m] = parent[m] /\ owner'[m] = owner[m]
      BY <2>2
    <3>2. Live(m) /\ owner[parent[m]] = owner[m] /\ parent[m] \in Mems
      BY <3>1 DEF OwnershipInv, SameOwnerTree, TypeOK
    <3>3. parent[m] \notin D
      BY <2>1, <3>1, <3>2
    <3> QED BY <2>2, <3>1, <3>2, <3>3 DEF Live
  <2>4. \A m \in gone' : ~(Live(m)')
    BY <2>1, <2>2 DEF OwnershipInv, Live, TypeOK
  <2>5. ASSUME NEW q \in Reqs, subject'[q] # None
        PROVE  subject'[q] \notin Fresh' /\ owner'[subject'[q]] \in {None, user'[q]}
    <3>1. CASE subject'[q] = subject[q] /\ user'[q] = user[q]
      <4>1. subject[q] \in Mems
        BY <2>5, <3>1 DEF TypeOK
      <4> QED BY <2>2, <2>5, <3>1, <4>1 DEF OwnershipInv, Fresh
    <3>2. CASE Owns(user'[q], subject'[q]) /\ user'[q] \in Users
      BY <2>2, <3>2, NoneAssumption DEF Owns, Fresh
    <3> QED BY <1>2, <2>5, <3>1, <3>2 DEF SubjectsKept
  <2> QED BY <2>3, <2>4, <2>5 DEF OwnershipInv
<1>3. ASSUME NEW r \in Reqs, Inserted(r)
      PROVE  OwnershipInv'
  <2> DEFINE n == NextId
             u == user[r]
             p == subject[r]
  <2>1. n \in Mems /\ owner[n] = None /\ n \notin gone
    BY <1>3, NextIdIsFresh DEF Inserted, Fresh
  <2>2. /\ owner' = [owner EXCEPT ![n] = u]
        /\ parent' = [parent EXCEPT ![n] = p]
        /\ gone' = gone
        /\ subject' = [subject EXCEPT ![r] = n]
        /\ user' = user
        /\ u \in Users
    BY <1>3 DEF Inserted
  <2>3. p # None => p \in Mems /\ p # n /\ owner[p] = u
    BY <1>3, <2>1, NoneAssumption
       DEF Inserted, ParentExists, OwnershipInv, TypeOK, Live
  <2> HIDE DEF n, u, p
  <2>4. SameOwnerTree'
    <3> SUFFICES ASSUME NEW m \in Mems, parent'[m] # None
                 PROVE  owner'[m] # None /\ owner'[parent'[m]] = owner'[m]
      BY DEF SameOwnerTree, Live
    <3>1. CASE m = n
      BY <2>1, <2>2, <2>3, <3>1, NoneAssumption DEF TypeOK
    <3>2. CASE m # n
      <4>1. parent[m] # None /\ parent'[m] = parent[m] /\ owner'[m] = owner[m]
        BY <2>2, <3>2 DEF TypeOK
      <4>2. Live(m) /\ owner[parent[m]] = owner[m] /\ parent[m] \in Mems
        BY <4>1 DEF OwnershipInv, SameOwnerTree, TypeOK
      <4> QED BY <2>1, <2>2, <4>1, <4>2 DEF TypeOK, Live
    <3> QED BY <3>1, <3>2
  <2>5. \A m \in gone' : ~(Live(m)')
    BY <2>1, <2>2 DEF OwnershipInv, Live, TypeOK
  <2>6. ASSUME NEW q \in Reqs, subject'[q] # None
        PROVE  subject'[q] \notin Fresh' /\ owner'[subject'[q]] \in {None, user'[q]}
    <3>1. CASE q = r
      BY <2>1, <2>2, <3>1, NoneAssumption DEF Fresh, TypeOK, u
    <3>2. CASE q # r
      <4>1. subject'[q] = subject[q] /\ user'[q] = user[q] /\ subject[q] \in Mems
        BY <2>2, <2>6, <3>2 DEF TypeOK
      <4>2. subject[q] \notin Fresh /\ owner[subject[q]] \in {None, user[q]}
        BY <2>6, <4>1 DEF OwnershipInv
      <4>3. subject[q] # n
        BY <2>1, <4>2 DEF Fresh
      <4> QED BY <2>2, <4>1, <4>2, <4>3 DEF Fresh, TypeOK
    <3> QED BY <3>1, <3>2
  <2> QED BY <2>4, <2>5, <2>6 DEF OwnershipInv
<1> QED
  BY <1>1, <1>2, <1>3, EveryStepHasAKind DEF StepKind

LEMMA OwnershipHolds == Spec => []OwnershipInv
<1>1. Init => OwnershipInv
  BY DEF Init, OwnershipInv, SameOwnerTree
<1>2. TypeOK /\ OwnershipInv /\ [Next]_vars => OwnershipInv'
  BY OwnershipStep
<1> QED
  BY <1>1, <1>2, TypeCorrect, PTL DEF Spec

\* A row's parent always exists and has the row's owner: create_memory's check,
\* the foreign key and the cascade together keep every tree within one account.
THEOREM TreesStayWithOneOwner == Spec => []SameOwnerTree
<1>1. OwnershipInv => SameOwnerTree
  BY DEF OwnershipInv
<1> QED
  BY <1>1, OwnershipHolds, PTL

--------------------------------------------------------------------------------
(* The life cycle *)

LEMMA LifecycleStep ==
  ASSUME TypeOK, OwnershipInv, [Next]_vars
  PROVE  [Lifecycle!Next]_(Lifecycle!vars)
<1> USE DEF Lifecycle!vars
<1>1. CASE UNCHANGED <<owner, parent, gone>>
  BY <1>1
<1>2. ASSUME NEW r \in Reqs, subject[r] \in Mems, user[r] \in Users,
             DeleteRows(Cascade(subject[r]))
      PROVE  [Lifecycle!Next]_(Lifecycle!vars)
  <2> DEFINE D == Cascade(subject[r])
  <2>1. /\ D \in SUBSET Mems
        /\ \A d \in D : Live(d) /\ owner[d] = owner[subject[r]]
    BY <1>2, CascadeHasOneOwner DEF Cascade, OwnershipInv
  <2>2. /\ owner' = [m \in Mems |-> IF m \in D THEN None ELSE owner[m]]
        /\ gone' = gone \cup D
    BY <1>2 DEF DeleteRows
  <2>3. owner[subject[r]] \in {None, user[r]}
    BY <1>2, NoneAssumption DEF OwnershipInv
  <2> HIDE DEF D
  <2>4. CASE D = {}
    BY <2>2, <2>4 DEF TypeOK
  <2>5. CASE D # {}
    <3>1. Lifecycle!Forget(user[r], D)
      BY <2>1, <2>2, <2>3, <2>5 DEF Lifecycle!Forget, Live
    <3> QED BY <1>2, <2>1, <3>1 DEF Lifecycle!Next
  <2> QED BY <2>4, <2>5
<1>3. ASSUME NEW r \in Reqs, Inserted(r)
      PROVE  [Lifecycle!Next]_(Lifecycle!vars)
  <2>1. NextId \in Mems /\ owner[NextId] = None /\ NextId \notin gone
    BY <1>3, NextIdIsFresh DEF Inserted, Fresh
  <2>2. Lifecycle!Store(user[r], NextId)
    BY <1>3, <2>1 DEF Inserted, Lifecycle!Store
  <2> QED BY <1>3, <2>1, <2>2 DEF Inserted, Lifecycle!Next
<1> QED
  BY <1>1, <1>2, <1>3, EveryStepHasAKind DEF StepKind

\* Every request of the store implements the life cycle of MemoryLifecycle: an id
\* is stored once, only its owner's requests remove it, and it never comes back.
THEOREM StoreImplementsLifecycle == Spec => LifecycleSpec
<1>1. Init => Lifecycle!Init
  BY DEF Init, Lifecycle!Init
<1>2. TypeOK /\ OwnershipInv /\ [Next]_vars => [Lifecycle!Next]_(Lifecycle!vars)
  BY LifecycleStep
<1> QED
  BY <1>1, <1>2, TypeCorrect, OwnershipHolds, PTL DEF Spec, LifecycleSpec, Lifecycle!Spec
--------------------------------------------------------------------------------
(* Receipts *)

ErasureLabels == {"erase", "erase_search", "erase_commit", "erase_vectors", "erase_record"}

\* What an entry says is true, and will be: its rows are gone or were never the caller's,
\* and only an upsert that came late can have brought back a vector that was absent.
EntryTrue(e, u) ==
  /\ e.status = "deleted" => e.mem \in e.affected /\ e.affected \subseteq gone
  /\ e.status = "not_found_or_foreign" => e.mem \notin Fresh /\ owner[e.mem] # u
  /\ e.checked => /\ e.status = "deleted"
                  /\ \A m \in e.affected : vecs[m] # 0 => m \in e.vectors \cup late

\* The ids of T have one entry each in E.
OneEntryEach(E, T) ==
  /\ {e.mem : e \in E} = T
  /\ \A e, f \in E : e.mem = f.mem => e = f

\* A search under way.  The ids given since it began are among the later ones, and so
\* is every row under one of them; a child of a visited row was visited, is a later
\* one or will be asked for with the frontier; and what was visited goes with the
\* target, or is gone already.
SearchTrue(r) ==
  /\ Fresh \subseteq era[r].later
  /\ era[r].frontier \subseteq era[r].affected
  /\ \A c \in Mems : Live(c) /\ parent[c] \in era[r].later => c \in era[r].later
  /\ \A c \in Mems : Live(c) /\ parent[c] \in era[r].affected =>
       c \in era[r].affected \cup era[r].later \cup {d \in Mems : parent[d] \in era[r].frontier}
  /\ era[r].affected \ gone \subseteq Cascade(subject[r])

\* The locals of an erasure agree with the rows and vectors at each await.
ErasureTrue(r) ==
  /\ pc[r] \notin ErasureLabels => era[r] = NoErasure
  /\ pc[r] \in ErasureLabels =>
       /\ era[r].requested \cap Fresh = {} /\ era[r].todo \subseteq era[r].requested
       /\ OneEntryEach(era[r].entries, era[r].requested \ era[r].todo)
  /\ pc[r] \in ErasureLabels \ {"erase"} => subject[r] \in era[r].todo \cap era[r].affected
  /\ pc[r] \in {"erase_search", "erase_commit"} => SearchTrue(r)
  /\ pc[r] \in {"erase_vectors", "erase_record"} => era[r].affected \subseteq gone
  /\ era[r].checked => \A m \in era[r].affected : vecs[m] # 0 => m \in era[r].present \cup late
  /\ era[r].checked => pc[r] = "erase_record"
  /\ \A e \in era[r].entries : EntryTrue(e, user[r])

ReceiptTrue(rc) ==
  /\ OneEntryEach(rc.targets, rc.requested)
  /\ \A e \in rc.targets : EntryTrue(e, rc.user)
  /\ rc.status = ReceiptStatus(rc.targets)

\* What makes ReceiptStaysTrue, SearchFindsCascade and VerifiedAbsenceLasts inductive.
ErasureInv == /\ \A r \in Reqs : ErasureTrue(r)
              /\ \A rc \in receipts : ReceiptTrue(rc)

\* A step of any request writes a vector of an existing row, or is recorded as late.
VectorsKept ==
  /\ \A m \in Mems : vecs'[m] # 0 => vecs[m] # 0 \/ Live(m) \/ m \in late'
  /\ late \subseteq late'

LEMMA EveryStepKeepsVectors ==
  ASSUME TypeOK, [Next]_vars
  PROVE  VectorsKept
<1> USE DEF At, VectorsKept, TypeOK
<1>1. ASSUME NEW r \in Reqs, Upsert(r) PROVE VectorsKept
  BY <1>1 DEF Upsert, SetVector
<1>2. ASSUME NEW r \in Reqs, NEW m \in Mems,
             DeleteVector(r) \/ AgentDeleteVector(r) \/ EraseVector(r, m)
      PROVE  VectorsKept
  BY <1>2 DEF DeleteVector, AgentDeleteVector, EraseVector, DropVector
<1>3. ASSUME UNCHANGED <<vecs, late>> PROVE VectorsKept
  BY <1>3
<1>4. ASSUME NEW r \in Reqs, Arrival(r) PROVE UNCHANGED <<vecs, late>>
  BY <1>4 DEF Arrival, CreateCheck, UpdateGet, DeleteGet, AgentDeleteGet, EraseStart
<1>5. ASSUME NEW r \in Reqs,
             CreateInsert(r) \/ UpdateCommit(r) \/ Refresh(r) \/ DeleteCommit(r) \/ AgentDeleteCommit(r)
      PROVE  UNCHANGED <<vecs, late>>
  BY <1>5 DEF CreateInsert, UpdateCommit, Refresh, DeleteCommit, AgentDeleteCommit
<1>6. ASSUME NEW r \in Reqs, NEW m \in Mems,
             EraseTarget(r, m) \/ EraseLevel(r) \/ EraseError(r, m) \/ EraseCommit(r) \/ EraseVerify(r)
             \/ EraseRecord(r) \/ EraseReceipt(r)
      PROVE  UNCHANGED <<vecs, late>>
  BY <1>6 DEF EraseTarget, EraseLevel, EraseError, EraseCommit, EraseVerify, EraseRecord, EraseReceipt
<1>7. ASSUME NEW r \in Reqs,
             DeleteVector(r) \/ AgentDeleteVector(r) \/ EraseVerify(r) \/ EraseRecord(r)
             \/ EraseCommit(r) \/ EraseReceipt(r)
      PROVE  VectorsKept
  BY <1>7 DEF DeleteVector, AgentDeleteVector, DropVector, EraseCommit, EraseVerify, EraseRecord,
              EraseReceipt
<1> QED
  BY <1>1, <1>2, <1>3, <1>4, <1>5, <1>6, <1>7 DEF Next, Continue, vars

\* What every step does to the rows, and to the cascades that are still to come.
RowsKept ==
  /\ gone \subseteq gone'
  /\ Fresh' \subseteq Fresh
  /\ \A m \in Mems : m \notin Fresh => owner'[m] \in {owner[m], None}
  /\ \A m \in Mems : owner'[m] # None => m \in Fresh \/ (Live(m) /\ parent'[m] = parent[m])
  /\ \A s \in Mems : \A d \in Cascade(s) : d \in gone' \/ d \in Cascade(s)'

LEMMA EveryStepKeepsRows ==
  ASSUME TypeOK, OwnershipInv, [Next]_vars
  PROVE  RowsKept
<1>1. CASE UNCHANGED <<owner, parent, gone>>
  BY <1>1 DEF RowsKept, Fresh, Cascade, ChildClosed, Live
<1>2. ASSUME NEW r \in Reqs, subject[r] \in Mems, DeleteRows(Cascade(subject[r]))
      PROVE  RowsKept
  <2> DEFINE D == Cascade(subject[r])
  <2>1. /\ D \subseteq Mems /\ \A d \in D : Live(d)
        /\ \A c \in Mems : Live(c) /\ parent[c] \in D => c \in D
    BY <1>2, CascadeIsClosed DEF Cascade
  <2>2. /\ owner' = [m \in Mems |-> IF m \in D THEN None ELSE owner[m]]
        /\ parent' = [m \in Mems |-> IF m \in D THEN None ELSE parent[m]]
        /\ gone' = gone \cup D
    BY <1>2 DEF DeleteRows
  <2> HIDE DEF D
  <2>3. gone \subseteq gone' /\ Fresh' \subseteq Fresh
    BY <2>1, <2>2 DEF Fresh
  <2>4. \A m \in Mems : /\ owner'[m] \in {owner[m], None}
                       /\ owner'[m] # None => Live(m) /\ parent'[m] = parent[m]
    BY <2>2 DEF Live
  <2>5. ASSUME NEW s \in Mems, NEW d \in Cascade(s), d \notin D
        PROVE  d \in Cascade(s)'
    <3>1. d \in Mems /\ Live(d) /\ \A S \in SUBSET Mems : s \in S /\ ChildClosed(S) => d \in S
      BY <2>5 DEF Cascade
    <3>2. Live(d)'
      BY <2>2, <2>5, <3>1 DEF Live
    <3>3. ASSUME NEW S \in SUBSET Mems, s \in S, ChildClosed(S)'
          PROVE  d \in S
      <4>1. S \cup D \in SUBSET Mems /\ s \in S \cup D
        BY <2>1, <3>3
      <4>2. ASSUME NEW c \in Mems, Live(c), parent[c] \in S \cup D, c \notin D
            PROVE  c \in S
        <5>1. parent[c] \in S
          BY <2>1, <4>2
        <5>2. parent'[c] = parent[c] /\ owner'[c] = owner[c]
          BY <2>2, <4>2
        <5> QED BY <3>3, <4>2, <5>1, <5>2 DEF ChildClosed, Live
      <4>3. ChildClosed(S \cup D)
        BY <4>2 DEF ChildClosed
      <4> QED BY <2>5, <3>1, <4>1, <4>3
    <3> QED BY <3>1, <3>2, <3>3 DEF Cascade
  <2> QED BY <2>2, <2>3, <2>4, <2>5 DEF RowsKept
<1>3. ASSUME NEW r \in Reqs, Inserted(r)
      PROVE  RowsKept
  <2> DEFINE n == NextId
  <2>1. n \in Mems /\ n \in Fresh /\ owner[n] = None /\ n \notin gone
    BY <1>3, NextIdIsFresh DEF Inserted, Fresh
  <2>2. /\ owner' = [owner EXCEPT ![n] = user[r]]
        /\ parent' = [parent EXCEPT ![n] = subject[r]]
        /\ gone' = gone /\ user[r] \in Users
    BY <1>3 DEF Inserted
  <2> HIDE DEF n
  <2>3. gone \subseteq gone' /\ Fresh' \subseteq Fresh
    BY <2>1, <2>2 DEF Fresh, TypeOK
  <2>4. ASSUME NEW m \in Mems
        PROVE  /\ m \notin Fresh => owner'[m] \in {owner[m], None}
               /\ owner'[m] # None => m \in Fresh \/ (Live(m) /\ parent'[m] = parent[m])
    <3>1. m # n => owner'[m] = owner[m] /\ parent'[m] = parent[m]
      BY <2>2 DEF TypeOK
    <3>2. CASE m = n
      BY <2>1, <3>2
    <3>3. CASE m # n
      BY <3>1, <3>3 DEF Live
    <3> QED BY <3>2, <3>3
  <2>5. ASSUME NEW s \in Mems, NEW d \in Cascade(s)
        PROVE  d \in Cascade(s)'
    <3>1. d \in Mems /\ Live(d) /\ \A S \in SUBSET Mems : s \in S /\ ChildClosed(S) => d \in S
      BY <2>5 DEF Cascade
    <3>2. Live(d)'
      BY <2>1, <2>2, <3>1 DEF Live, TypeOK
    <3>3. ASSUME NEW S \in SUBSET Mems, s \in S, ChildClosed(S)'
          PROVE  d \in S
      <4>1. ASSUME NEW c \in Mems, Live(c), parent[c] \in S
            PROVE  c \in S
        <5>1. c # n
          BY <2>1, <4>1 DEF Live
        <5>2. parent'[c] = parent[c] /\ owner'[c] = owner[c]
          BY <2>2, <4>1, <5>1 DEF TypeOK
        <5> QED BY <3>3, <4>1, <5>2 DEF ChildClosed, Live
      <4>2. ChildClosed(S)
        BY <4>1 DEF ChildClosed
      <4> QED BY <3>1, <3>3, <4>2
    <3> QED BY <3>1, <3>2, <3>3 DEF Cascade
  <2> QED BY <2>3, <2>4, <2>5 DEF RowsKept
<1> QED
  BY <1>1, <1>2, <1>3, EveryStepHasAKind DEF StepKind

LEMMA EntryStaysTrue ==
  ASSUME TypeOK, OwnershipInv, [Next]_vars, NEW e \in Entries, NEW u \in Users, EntryTrue(e, u)
  PROVE  EntryTrue(e, u)'
<1>1. RowsKept /\ VectorsKept
  BY EveryStepKeepsRows, EveryStepKeepsVectors
<1>2. e.mem \in Mems /\ e.affected \subseteq Mems
  BY DEF Entries
<1>3. e.status = "deleted" => e.mem \in e.affected /\ e.affected \subseteq gone'
  BY <1>1 DEF EntryTrue, RowsKept
<1>4. e.status = "not_found_or_foreign" => e.mem \notin Fresh' /\ owner'[e.mem] # u
  BY <1>1, <1>2, NoneAssumption DEF EntryTrue, RowsKept
<1>5. e.checked => /\ e.status = "deleted"
                   /\ \A m \in e.affected : vecs'[m] # 0 => m \in e.vectors \cup late'
  BY <1>1, <1>2 DEF EntryTrue, VectorsKept, OwnershipInv
<1> QED
  BY <1>3, <1>4, <1>5 DEF EntryTrue

\* A request whose locals the step leaves alone.
Untouched(r) == pc'[r] = pc[r] /\ user'[r] = user[r] /\ subject'[r] = subject[r] /\ era'[r] = era[r]

LEMMA EntriesStayTrue ==
  ASSUME TypeOK, OwnershipInv, [Next]_vars, NEW r \in Reqs, ErasureTrue(r), user'[r] = user[r]
  PROVE  \A e \in era[r].entries : EntryTrue(e, user[r])'
<1>1. CASE pc[r] \in ErasureLabels
  <2>1. user[r] \in Users /\ era[r].entries \subseteq Entries
    BY <1>1 DEF TypeOK, Erasures, ErasureLabels
  <2>2. ASSUME NEW e \in era[r].entries
        PROVE  EntryTrue(e, user[r])'
    <3>1. PICK u \in Users : u = user[r]
      BY <2>1
    <3>2. EntryTrue(e, u)
      BY <2>2, <3>1 DEF ErasureTrue
    <3>3. EntryTrue(e, u)'
      BY <2>1, <3>2, EntryStaysTrue
    <3>4. user'[r] = u
      BY <3>1
    <3> QED BY <3>3, <3>4 DEF EntryTrue
  <2> QED BY <2>2
<1>2. CASE pc[r] \notin ErasureLabels
  BY <1>2 DEF ErasureTrue, NoErasure
<1> QED BY <1>1, <1>2

LEMMA UntouchedStaysTrue ==
  ASSUME TypeOK, OwnershipInv, [Next]_vars, NEW r \in Reqs, ErasureTrue(r), Untouched(r)
  PROVE  ErasureTrue(r)'
<1>1. RowsKept /\ VectorsKept
  BY EveryStepKeepsRows, EveryStepKeepsVectors
<1>2. era[r] \in Erasures
  BY DEF TypeOK
<1>3. pc[r] \in ErasureLabels =>
        /\ era[r].requested \cap Fresh' = {} /\ era[r].todo \subseteq era[r].requested
        /\ OneEntryEach(era[r].entries, era[r].requested \ era[r].todo)
  BY <1>1 DEF ErasureTrue, RowsKept
<1>4. pc[r] \in {"erase_search", "erase_commit"} => SearchTrue(r)'
  <2>1. SUFFICES ASSUME pc[r] \in {"erase_search", "erase_commit"} PROVE SearchTrue(r)'
    OBVIOUS
  <2>2. SearchTrue(r) /\ subject[r] \in Mems
    BY <2>1 DEF ErasureTrue, TypeOK
  <2>3. \A c \in Mems : Live(c)' => c \in era[r].later \/ (Live(c) /\ parent'[c] = parent[c])
    BY <1>1, <2>2 DEF SearchTrue, RowsKept, Live
  <2>4. era[r].affected \ gone' \subseteq Cascade(subject[r])'
    <3>1. SUFFICES ASSUME NEW d \in era[r].affected, d \notin gone'
                   PROVE  d \in Cascade(subject[r])'
      OBVIOUS
    <3>2. d \in Cascade(subject[r])
      BY <1>1, <2>2, <3>1 DEF SearchTrue, RowsKept
    <3>3. PICK s \in Mems : s = subject[r]
      BY <2>2
    <3>4. d \in Cascade(s)'
      BY <1>1, <3>1, <3>2, <3>3 DEF RowsKept
    <3>5. (subject[r])' = s
      BY <3>3 DEF Untouched
    <3> QED BY <3>4, <3>5 DEF Cascade
  <2>5. Fresh' \subseteq era[r].later
    BY <1>1, <2>2 DEF SearchTrue, RowsKept
  <2>6. \A c \in Mems : Live(c)' /\ parent'[c] \in era[r].later => c \in era[r].later
    BY <2>2, <2>3 DEF SearchTrue
  <2>7. \A c \in Mems : Live(c)' /\ parent'[c] \in era[r].affected =>
          c \in era[r].affected \cup era[r].later \cup {d \in Mems : parent'[d] \in era[r].frontier}
    BY <2>2, <2>3 DEF SearchTrue
  <2> QED BY <2>2, <2>4, <2>5, <2>6, <2>7 DEF SearchTrue, Untouched
<1>5. pc[r] \in {"erase_vectors", "erase_record"} => era[r].affected \subseteq gone'
  BY <1>1 DEF ErasureTrue, RowsKept
<1>6. era[r].checked => \A m \in era[r].affected : vecs'[m] # 0 => m \in era[r].present \cup late'
  <2>1. SUFFICES ASSUME era[r].checked, NEW m \in era[r].affected, vecs'[m] # 0
                 PROVE  m \in era[r].present \cup late'
    OBVIOUS
  <2>2. m \in Mems /\ m \in gone
    BY <1>2, <2>1 DEF ErasureTrue, Erasures
  <2> QED BY <1>1, <2>1, <2>2 DEF ErasureTrue, VectorsKept, OwnershipInv
<1>7. \A e \in era[r].entries : EntryTrue(e, user[r])'
  BY EntriesStayTrue DEF Untouched
<1> QED
  BY <1>3, <1>4, <1>5, <1>6, <1>7 DEF ErasureTrue, OneEntryEach, Untouched

\* Outside an erasure there is nothing to be true.
LEMMA NoErasureIsTrue ==
  ASSUME NEW r \in Reqs, pc'[r] \notin ErasureLabels, era'[r] = NoErasure
  PROVE  ErasureTrue(r)'
BY DEF ErasureTrue, NoErasure, ErasureLabels

\* The next target: one entry more, and one id less to do.
LEMMA NextTargetTrue ==
  ASSUME TypeOK, OwnershipInv, [Next]_vars, NEW r \in Reqs, ErasureTrue(r),
         pc[r] \in ErasureLabels, NEW entry \in Entries, NextTarget(r, entry),
         entry.mem \in era[r].todo, EntryTrue(entry, user[r])'
  PROVE  ErasureTrue(r)'
<1>1. era[r] \in Erasures
  BY DEF TypeOK
<1>2. /\ era'[r].requested = era[r].requested
      /\ era'[r].todo = era[r].todo \ {entry.mem}
      /\ era'[r].entries = era[r].entries \cup {entry}
      /\ era'[r].checked = FALSE
  <2> DEFINE rest == [NoErasure EXCEPT !.requested = era[r].requested,
                                       !.todo = era[r].todo \ {entry.mem},
                                       !.entries = era[r].entries \cup {entry}]
  <2>1. era'[r] = rest
    BY DEF NextTarget, TypeOK
  <2>2. /\ rest.requested = era[r].requested
        /\ rest.todo = era[r].todo \ {entry.mem}
        /\ rest.entries = era[r].entries \cup {entry}
        /\ rest.checked = FALSE
    BY DEF NoErasure
  <2> HIDE DEF rest
  <2> QED BY <2>1, <2>2
<1>3. pc'[r] = "erase" /\ user'[r] = user[r]
  BY DEF NextTarget, TypeOK
<1>4. \A e \in era'[r].entries : EntryTrue(e, user[r])'
  BY <1>2, <1>3, EntriesStayTrue
<1>5. OneEntryEach(era'[r].entries, era'[r].requested \ era'[r].todo)
  <2>1. /\ {e.mem : e \in era[r].entries} = era[r].requested \ era[r].todo
        /\ \A e, f \in era[r].entries : e.mem = f.mem => e = f
        /\ era[r].todo \subseteq era[r].requested
    BY DEF ErasureTrue, OneEntryEach
  <2>2. \A e \in era[r].entries : e.mem # entry.mem
    BY <2>1
  <2> QED BY <1>2, <2>1, <2>2 DEF OneEntryEach
<1>6. era'[r].requested \cap Fresh' = {} /\ era'[r].todo \subseteq era'[r].requested
  BY <1>2, EveryStepKeepsRows DEF ErasureTrue, RowsKept
<1> QED
  BY <1>2, <1>3, <1>4, <1>5, <1>6 DEF ErasureTrue, OneEntryEach, ErasureLabels

LEMMA ReceiptsStayTrue ==
  ASSUME TypeOK, OwnershipInv, [Next]_vars, NEW rc \in receipts, ReceiptTrue(rc)
  PROVE  ReceiptTrue(rc)'
<1>1. rc.user \in Users /\ rc.targets \subseteq Entries
  BY DEF TypeOK, Receipts
<1>2. \A e \in rc.targets : EntryTrue(e, rc.user)'
  BY <1>1, EntryStaysTrue DEF ReceiptTrue
<1> QED
  BY <1>2 DEF ReceiptTrue, OneEntryEach, ReceiptStatus

\* The step of request q: the others stand still, and no receipt is written.
LEMMA OneRequestMoves ==
  ASSUME TypeOK, OwnershipInv, ErasureInv, [Next]_vars, NEW q \in Reqs,
         \A r \in Reqs \ {q} : Untouched(r), ErasureTrue(q)', receipts' = receipts
  PROVE  ErasureInv'
<1>1. \A r \in Reqs : ErasureTrue(r)'
  BY UntouchedStaysTrue DEF ErasureInv
<1>2. \A rc \in receipts' : ReceiptTrue(rc)'
  BY ReceiptsStayTrue DEF ErasureInv
<1> QED BY <1>1, <1>2 DEF ErasureInv

LEMMA ErasureStep ==
  ASSUME TypeOK, OwnershipInv, ErasureInv, [Next]_vars
  PROVE  ErasureInv'
<1> USE DEF At, rows
<1>0. \A r \in Reqs : ErasureTrue(r) /\ era[r] \in Erasures
  BY DEF ErasureInv, TypeOK
<1>1. ASSUME NEW q \in Reqs, pc[q] \notin ErasureLabels, pc'[q] \notin ErasureLabels,
             era'[q] \in {era[q], NoErasure}, \A r \in Reqs \ {q} : Untouched(r),
             receipts' = receipts
      PROVE  ErasureInv'
  <2>1. ErasureTrue(q)'
    BY <1>0, <1>1, NoErasureIsTrue DEF ErasureTrue
  <2> QED BY <1>1, <2>1, OneRequestMoves
<1>2. ASSUME NEW q \in Reqs, NEW u \in Users, NEW p \in Mems \cup {None},
             \/ CreateCheck(q, u, p) \/ UpdateGet(q, u, p)
             \/ DeleteGet(q, u, p) \/ AgentDeleteGet(q, u, p)
      PROVE  ErasureInv'
  BY <1>1, <1>2 DEF CreateCheck, UpdateGet, DeleteGet, AgentDeleteGet, Arrive, Untouched,
                    ErasureLabels, TypeOK
<1>3. ASSUME NEW q \in Reqs, NEW u \in Users, NEW T \in SUBSET Mems, EraseStart(q, u, T)
      PROVE  ErasureInv'
  <2> DEFINE e == [NoErasure EXCEPT !.requested = T, !.todo = T]
  <2>1. /\ e.requested = T /\ e.todo = T /\ e.entries = {} /\ e.checked = FALSE
    BY DEF NoErasure
  <2>2. era'[q] = e /\ pc'[q] = "erase" /\ T \cap Fresh = {}
    BY <1>3 DEF EraseStart, TypeOK
  <2>3. Fresh' = Fresh
    BY <1>3 DEF EraseStart, Fresh
  <2> HIDE DEF e
  <2>4. ErasureTrue(q)'
    BY <2>1, <2>2, <2>3 DEF ErasureTrue, OneEntryEach, ErasureLabels
  <2>5. (\A r \in Reqs \ {q} : Untouched(r)) /\ receipts' = receipts
    BY <1>3 DEF EraseStart, Untouched, TypeOK
  <2> QED BY <2>4, <2>5, OneRequestMoves
<1>4. ASSUME NEW q \in Reqs,
             \/ CreateInsert(q) \/ UpdateCommit(q) \/ Refresh(q) \/ Upsert(q) \/ DeleteCommit(q)
             \/ DeleteVector(q) \/ AgentDeleteVector(q) \/ AgentDeleteCommit(q)
      PROVE  ErasureInv'
  <2> USE DEF Untouched, ErasureLabels, Goto, Return, TypeOK
  <2>1. CASE CreateInsert(q)
    <3>1. CASE ParentExists(subject[q])
      BY <1>1, <2>1, <3>1 DEF CreateInsert
    <3>2. CASE ~ParentExists(subject[q])
      BY <1>1, <2>1, <3>2 DEF CreateInsert
    <3> QED BY <3>1, <3>2
  <2>2. CASE UpdateCommit(q)
    BY <1>1, <2>2 DEF UpdateCommit
  <2>3. CASE Refresh(q)
    BY <1>1, <2>3 DEF Refresh
  <2>4. CASE Upsert(q) \/ DeleteVector(q) \/ AgentDeleteCommit(q)
    BY <1>1, <2>4 DEF Upsert, DeleteVector, AgentDeleteCommit
  <2>5. CASE DeleteCommit(q) \/ AgentDeleteVector(q)
    BY <1>1, <2>5 DEF DeleteCommit, AgentDeleteVector
  <2> QED BY <1>4, <2>1, <2>2, <2>3, <2>4, <2>5
<1>5. ASSUME NEW q \in Reqs, NEW entry \in Entries, NextTarget(q, entry), pc[q] \in ErasureLabels,
             entry.mem \in era[q].todo, EntryTrue(entry, user[q])', receipts' = receipts
      PROVE  ErasureInv'
  <2>1. ErasureTrue(q)'
    BY <1>0, <1>5, NextTargetTrue
  <2>2. \A r \in Reqs \ {q} : Untouched(r)
    BY <1>5 DEF NextTarget, Untouched, TypeOK
  <2> QED BY <1>5, <2>1, <2>2, OneRequestMoves
<1>6. ASSUME NEW q \in Reqs, NEW m \in Mems, EraseTarget(q, m)
      PROVE  ErasureInv'
  <2>1. pc[q] = "erase" /\ m \in era[q].todo /\ user[q] \in Users
        /\ UNCHANGED <<owner, parent, gone, receipts>>
    BY <1>6 DEF EraseTarget, TypeOK
  <2>2. CASE Owns(user[q], m)
    <3>1. /\ era'[q].affected = {m} /\ era'[q].frontier = {m} /\ era'[q].later = Fresh
          /\ pc'[q] = "erase_search" /\ subject'[q] = m
          /\ era'[q].requested = era[q].requested /\ era'[q].todo = era[q].todo
          /\ era'[q].entries = era[q].entries /\ era'[q].checked = era[q].checked
          /\ user'[q] = user[q]
      BY <1>0, <1>6, <2>2 DEF EraseTarget, TypeOK, Erasures
    <3>2. m \in Cascade(m)
      BY <2>1, <2>2, NoneAssumption DEF Cascade, Owns, Live
    <3>3. (Cascade(subject[q]))' = Cascade(m)
      BY <2>1, <3>1 DEF Cascade, ChildClosed, Live
    <3>4. Fresh' = Fresh
      BY <2>1 DEF Fresh
    <3>5. \A e \in era[q].entries : EntryTrue(e, user[q])'
      BY <1>0, <3>1, EntriesStayTrue
    <3>6. \A c \in Mems : Live(c) /\ parent[c] \in Fresh => c \in Fresh
      BY NoneAssumption DEF OwnershipInv, SameOwnerTree, Fresh, Live
    <3>7. SearchTrue(q)'
      BY <2>1, <3>1, <3>2, <3>3, <3>4, <3>6 DEF SearchTrue, Live
    <3>8. ErasureTrue(q)'
      BY <1>0, <2>1, <3>1, <3>4, <3>5, <3>7 DEF ErasureTrue, OneEntryEach, ErasureLabels
    <3>9. \A r \in Reqs \ {q} : Untouched(r)
      BY <1>6, <2>2 DEF EraseTarget, Untouched, TypeOK
    <3> QED BY <2>1, <3>8, <3>9, OneRequestMoves
  <2>3. CASE ~Owns(user[q], m)
    <3> DEFINE entry == EmptyEntry(m, "not_found_or_foreign")
    <3>1. entry \in Entries /\ entry.mem = m /\ entry.status = "not_found_or_foreign"
          /\ entry.checked = FALSE
      BY EntryType, NoErasureType DEF EmptyEntry, Entry, NoErasure
    <3>2. NextTarget(q, entry)
      BY <1>6, <2>3 DEF EraseTarget
    <3> HIDE DEF entry
    <3>3. m \notin Fresh' /\ owner'[m] # user'[q]
      BY <1>0, <2>1, <2>3, <3>2 DEF ErasureTrue, ErasureLabels, Owns, Fresh, NextTarget
    <3>4. EntryTrue(entry, user[q])'
      BY <3>1, <3>3 DEF EntryTrue
    <3> QED BY <1>5, <2>1, <3>1, <3>2, <3>4 DEF ErasureLabels
  <2> QED BY <2>2, <2>3
<1>7. ASSUME NEW q \in Reqs, EraseCommit(q)
      PROVE  ErasureInv'
  <2>1. /\ pc[q] = "erase_commit" /\ pc'[q] = "erase_vectors" /\ user'[q] = user[q]
        /\ subject'[q] = subject[q] /\ gone' = gone \cup Cascade(subject[q])
        /\ era'[q].affected = era[q].affected
        /\ era'[q].requested = era[q].requested /\ era'[q].todo = era[q].todo
        /\ era'[q].entries = era[q].entries /\ era'[q].checked = era[q].checked
    BY <1>0, <1>7 DEF EraseCommit, Goto, DeleteRows, TypeOK, Erasures
  <2>2. \A e \in era[q].entries : EntryTrue(e, user[q])'
    BY <1>0, <2>1, EntriesStayTrue
  <2>3. Fresh' \subseteq Fresh
    BY EveryStepKeepsRows DEF RowsKept
  <2>4. ErasureTrue(q)'
    BY <1>0, <2>1, <2>2, <2>3 DEF ErasureTrue, SearchTrue, OneEntryEach, ErasureLabels
  <2>5. (\A r \in Reqs \ {q} : Untouched(r)) /\ receipts' = receipts
    BY <1>7 DEF EraseCommit, Goto, Untouched, TypeOK
  <2> QED BY <2>4, <2>5, OneRequestMoves
<1>8. ASSUME NEW q \in Reqs, NEW m \in Mems, EraseVector(q, m)
      PROVE  ErasureInv'
  <2>1. /\ pc[q] = "erase_vectors" /\ pc'[q] = "erase_vectors" /\ user'[q] = user[q]
        /\ subject'[q] = subject[q] /\ UNCHANGED <<owner, gone>>
        /\ era'[q].affected = era[q].affected
        /\ era'[q].requested = era[q].requested /\ era'[q].todo = era[q].todo
        /\ era'[q].entries = era[q].entries /\ era'[q].checked = era[q].checked
    BY <1>0, <1>8 DEF EraseVector, TypeOK, Erasures
  <2>2. \A e \in era[q].entries : EntryTrue(e, user[q])'
    BY <1>0, <2>1, EntriesStayTrue
  <2>3. Fresh' = Fresh
    BY <2>1 DEF Fresh
  <2>4. ErasureTrue(q)'
    BY <1>0, <2>1, <2>2, <2>3 DEF ErasureTrue, OneEntryEach, ErasureLabels
  <2>5. (\A r \in Reqs \ {q} : Untouched(r)) /\ receipts' = receipts
    BY <1>8 DEF EraseVector, Untouched, TypeOK
  <2> QED BY <2>4, <2>5, OneRequestMoves
<1>9. ASSUME NEW q \in Reqs, EraseVerify(q)
      PROVE  ErasureInv'
  <2>1. /\ pc[q] = "erase_vectors" /\ pc'[q] = "erase_record" /\ user'[q] = user[q]
        /\ subject'[q] = subject[q] /\ UNCHANGED <<owner, gone, vecs, late>>
        /\ era'[q].affected = era[q].affected
        /\ era'[q].requested = era[q].requested /\ era'[q].todo = era[q].todo
        /\ era'[q].entries = era[q].entries
    BY <1>0, <1>9 DEF EraseVerify, Goto, TypeOK, Erasures
  <2>2. \A e \in era[q].entries : EntryTrue(e, user[q])'
    BY <1>0, <2>1, EntriesStayTrue
  <2>3. Fresh' = Fresh
    BY <2>1 DEF Fresh
  <2>4. era'[q].checked => \A m \in era[q].affected : vecs'[m] # 0 => m \in era'[q].present \cup late'
    <3>1. CASE era'[q] = era[q]
      BY <1>0, <2>1, <3>1 DEF ErasureTrue
    <3>2. CASE era'[q].present = {m \in era[q].affected : vecs[m] # 0}
      BY <2>1, <3>2
    <3> QED BY <1>0, <1>9, <3>1, <3>2 DEF EraseVerify, TypeOK, Erasures
  <2>5. ErasureTrue(q)'
    BY <1>0, <2>1, <2>2, <2>3, <2>4 DEF ErasureTrue, OneEntryEach, ErasureLabels
  <2>6. (\A r \in Reqs \ {q} : Untouched(r)) /\ receipts' = receipts
    BY <1>9 DEF EraseVerify, Goto, Untouched, TypeOK
  <2> QED BY <2>5, <2>6, OneRequestMoves
<1>10. ASSUME NEW q \in Reqs, EraseRecord(q)
       PROVE  ErasureInv'
  <2>1. /\ pc[q] = "erase_record" /\ subject[q] \in Mems
        /\ UNCHANGED <<gone, vecs, late, receipts>>
        /\ NextTarget(q, Entry(subject[q], "deleted", era[q], RowsLeft(era[q].affected)))
    BY <1>10 DEF EraseRecord, TypeOK
  <2>2. PICK entry \in Entries :
          entry = Entry(subject[q], "deleted", era[q], RowsLeft(era[q].affected))
    <3>1. RowsLeft(era[q].affected) \in SUBSET Mems
      BY DEF RowsLeft
    <3> QED BY <1>0, <2>1, <3>1, EntryType
  <2>3. /\ entry.mem = subject[q] /\ entry.status = "deleted" /\ entry.affected = era[q].affected
        /\ entry.checked = era[q].checked /\ entry.vectors = era[q].present
    BY <2>2 DEF Entry
  <2>4. subject[q] \in era[q].todo \cap era[q].affected /\ era[q].affected \subseteq gone
    BY <1>0, <2>1 DEF ErasureTrue, ErasureLabels
  <2>5. EntryTrue(entry, user[q])'
    BY <1>0, <2>1, <2>3, <2>4 DEF EntryTrue, ErasureTrue
  <2> QED BY <1>5, <2>1, <2>2, <2>3, <2>4, <2>5 DEF ErasureLabels
<1>11. ASSUME NEW q \in Reqs, NEW m \in Mems, EraseError(q, m)
       PROVE  ErasureInv'
  <2> DEFINE entry == EmptyEntry(m, "error")
  <2>1. entry \in Entries /\ entry.mem = m /\ entry.status = "error" /\ entry.checked = FALSE
    BY EntryType, NoErasureType DEF EmptyEntry, Entry, NoErasure
  <2>2. NextTarget(q, entry) /\ receipts' = receipts /\ pc[q] \in ErasureLabels
    BY <1>11 DEF EraseError, ErasureLabels
  <2> HIDE DEF entry
  <2>3. m \in era[q].todo
    BY <1>0, <1>11 DEF EraseError, ErasureTrue, ErasureLabels
  <2>4. EntryTrue(entry, user[q])'
    BY <2>1 DEF EntryTrue
  <2> QED BY <1>5, <2>1, <2>2, <2>3, <2>4
<1>12. ASSUME NEW q \in Reqs, EraseReceipt(q)
       PROVE  ErasureInv'
  <2>1. pc[q] = "erase" /\ era[q].todo = {} /\ user[q] \in Users /\ era[q].entries \subseteq Entries
    BY <1>0, <1>12 DEF EraseReceipt, TypeOK, Erasures
  <2>2. PICK rc : rc = [user |-> user[q], requested |-> era[q].requested,
                        status |-> ReceiptStatus(era[q].entries), targets |-> era[q].entries]
    OBVIOUS
  <2>3. (receipts' = receipts \cup {rc} \/ receipts' = receipts) /\ Return(q)
    BY <1>12, <2>2 DEF EraseReceipt
  <2>4. \A r \in Reqs : ErasureTrue(r)'
    <3>1. ErasureTrue(q)'
      BY <2>3, NoErasureIsTrue DEF Return, TypeOK, ErasureLabels
    <3>2. \A r \in Reqs \ {q} : Untouched(r)
      BY <2>3 DEF Return, Untouched, TypeOK
    <3> QED BY <1>0, <3>1, <3>2, UntouchedStaysTrue
  <2>5. OneEntryEach(rc.targets, rc.requested)
    BY <1>0, <2>1, <2>2 DEF ErasureTrue, ErasureLabels
  <2>6. ASSUME NEW e \in rc.targets
        PROVE  EntryTrue(e, rc.user)'
    <3>1. EntryTrue(e, rc.user) /\ rc.user \in Users /\ e \in Entries
      BY <1>0, <2>1, <2>2, <2>6 DEF ErasureTrue
    <3> QED BY <3>1, EntryStaysTrue
  <2>7. ReceiptTrue(rc)'
    BY <2>2, <2>5, <2>6 DEF ReceiptTrue, OneEntryEach, ReceiptStatus
  <2>8. \A x \in receipts : ReceiptTrue(x)'
    BY ReceiptsStayTrue DEF ErasureInv
  <2> QED BY <2>3, <2>4, <2>7, <2>8 DEF ErasureInv
<1>13. ASSUME NEW q \in Reqs, EraseLevel(q)
       PROVE  ErasureInv'
  <2> DEFINE N == NextLevel(q)
  <2>1. /\ pc[q] = "erase_search" /\ pc'[q] \in {"erase_search", "erase_commit"}
        /\ user'[q] = user[q] /\ subject'[q] = subject[q]
        /\ UNCHANGED <<owner, parent, gone, receipts>>
        /\ era'[q].affected = era[q].affected \cup N /\ era'[q].frontier = N
        /\ era'[q].later = era[q].later /\ era'[q].checked = era[q].checked
        /\ era'[q].requested = era[q].requested /\ era'[q].todo = era[q].todo
        /\ era'[q].entries = era[q].entries
    BY <1>0, <1>13 DEF EraseLevel, Goto, TypeOK, Erasures
  <2>2. /\ SearchTrue(q) /\ subject[q] \in Mems /\ user[q] \in Users
        /\ owner[subject[q]] \in {None, user[q]}
    <3>1. SearchTrue(q) /\ subject[q] \in Mems /\ user[q] \in Users
      BY <1>0, <2>1 DEF ErasureTrue, TypeOK
    <3> QED BY <3>1, NoneAssumption DEF OwnershipInv
  <2>3. ASSUME NEW c \in Mems, Live(c), parent[c] \in era[q].affected
        PROVE  /\ parent[c] \in Mems /\ parent[c] \in Cascade(subject[q])
               /\ owner[parent[c]] = owner[c] /\ owner[c] = user[q]
    <3>1. parent[c] \in Mems
      BY <1>0, <2>3 DEF Erasures
    <3>2. Live(parent[c]) /\ owner[parent[c]] = owner[c] /\ parent[c] \notin gone
      BY <2>3, <3>1, NoneAssumption DEF OwnershipInv, SameOwnerTree, Live
    <3>3. parent[c] \in Cascade(subject[q])
      BY <2>2, <2>3, <3>2 DEF SearchTrue
    <3>4. owner[parent[c]] = owner[subject[q]]
      BY <2>2, <3>3, CascadeHasOneOwner DEF OwnershipInv
    <3> QED BY <2>2, <3>1, <3>2, <3>3, <3>4 DEF Live
  <2>4. N \subseteq Mems /\ N \subseteq Cascade(subject[q])
    <3>1. ASSUME NEW c \in N
          PROVE  c \in Mems /\ c \in Cascade(subject[q])
      <4>1. c \in Mems /\ owner[c] = user[q] /\ parent[c] \in era[q].frontier
        BY <3>1 DEF NextLevel
      <4>2. Live(c) /\ parent[c] \in era[q].affected
        BY <2>2, <4>1, NoneAssumption DEF Live, SearchTrue
      <4> QED BY <2>2, <2>3, <4>1, <4>2, CascadeIsClosed
    <3> QED BY <3>1
  <2>5. ASSUME NEW c \in Mems, Live(c), parent[c] \in era[q].affected
        PROVE  c \in era[q].affected \cup era[q].later \cup N
    <3>1. CASE parent[c] \in era[q].frontier
      BY <2>3, <2>5, <3>1 DEF NextLevel
    <3>2. CASE parent[c] \notin era[q].frontier
      BY <2>2, <2>5, <3>2 DEF SearchTrue
    <3> QED BY <3>1, <3>2
  <2> HIDE DEF N
  <2>6. (Cascade(subject[q]))' = Cascade(subject[q]) /\ Fresh' = Fresh
    BY <2>1 DEF Cascade, ChildClosed, Live, Fresh
  <2>7. SearchTrue(q)'
    BY <2>1, <2>2, <2>4, <2>5, <2>6 DEF SearchTrue, Live
  <2>8. \A e \in era[q].entries : EntryTrue(e, user[q])'
    BY <1>0, <2>1, EntriesStayTrue
  <2>9. ErasureTrue(q)'
    BY <1>0, <2>1, <2>6, <2>7, <2>8 DEF ErasureTrue, OneEntryEach, ErasureLabels
  <2>10. \A r \in Reqs \ {q} : Untouched(r)
    BY <1>13 DEF EraseLevel, Goto, Untouched, TypeOK
  <2> QED BY <2>1, <2>9, <2>10, OneRequestMoves
<1>14. CASE UNCHANGED vars
  <2>1. \A r \in Reqs : Untouched(r)
    BY <1>14 DEF vars, Untouched
  <2>2. receipts' = receipts
    BY <1>14 DEF vars
  <2>3. \A r \in Reqs : ErasureTrue(r)'
    BY <1>0, <2>1, UntouchedStaysTrue
  <2>4. \A rc \in receipts' : ReceiptTrue(rc)'
    BY <2>2, ReceiptsStayTrue DEF ErasureInv
  <2> QED BY <2>3, <2>4 DEF ErasureInv
<1> QED
  BY <1>2, <1>3, <1>4, <1>6, <1>7, <1>8, <1>9, <1>10, <1>11, <1>12, <1>13,
     <1>14 DEF Next, Arrival, Continue

LEMMA ErasureHolds == Spec => []ErasureInv
<1>1. Init => ErasureInv
  BY DEF Init, ErasureInv, ErasureTrue, NoErasure, ErasureLabels
<1>2. TypeOK /\ OwnershipInv /\ ErasureInv /\ [Next]_vars => ErasureInv'
  BY ErasureStep
<1> QED
  BY <1>1, <1>2, TypeCorrect, OwnershipHolds, PTL DEF Spec

\* Whatever fails and whoever else writes, a receipt has one entry for each requested id,
\* and what it says of a target stays true for good (erase_memories, _erase_one).
THEOREM ReceiptsStayTrueForGood == Spec => []ReceiptStaysTrue
<1>1. TypeOK /\ ErasureInv => ReceiptStaysTrue
  BY DEF ErasureInv, ReceiptTrue, EntryTrue, OneEntryEach, ReceiptStaysTrue
<1> QED
  BY <1>1, TypeCorrect, ErasureHolds, PTL

\* Although each level is asked for on its own, a search never lists a row that will
\* survive its target's cascade, and one that its depth cap did not cut off accounts
\* for every row of the cascade but those stored since it began (_collect_descendants).
THEOREM SearchMeetsCascade == Spec => []SearchFindsCascade
<1>1. ASSUME TypeOK, ErasureInv PROVE SearchFindsCascade
  <2>1. SUFFICES ASSUME NEW r \in Reqs, pc[r] = "erase_commit"
                 PROVE  /\ era[r].affected \ gone \subseteq Cascade(subject[r])
                        /\ era[r].frontier = {} =>
                             Cascade(subject[r]) \ era[r].affected \subseteq era[r].later
    BY DEF SearchFindsCascade, At
  <2>2. SearchTrue(r) /\ subject[r] \in era[r].affected /\ era[r] \in Erasures
    BY <1>1, <2>1 DEF ErasureInv, ErasureTrue, ErasureLabels, TypeOK
  <2>3. ASSUME era[r].frontier = {}
        PROVE  Cascade(subject[r]) \subseteq era[r].affected \cup era[r].later
    <3> DEFINE S == era[r].affected \cup era[r].later
    <3>1. S \in SUBSET Mems /\ subject[r] \in S
      BY <2>2 DEF Erasures
    <3>2. ChildClosed(S)
      BY <2>2, <2>3 DEF ChildClosed, SearchTrue
    <3> QED BY <3>1, <3>2 DEF Cascade
  <2> QED BY <2>2, <2>3 DEF SearchTrue
<1> QED
  BY <1>1, TypeCorrect, ErasureHolds, PTL

\* A vector that the verification pass did not find comes back only through an upsert
\* that was under way, and a "completed" receipt lists none (_verify_absent).
THEOREM VerifiedAbsenceHolds == Spec => []VerifiedAbsenceLasts
<1>1. ASSUME ErasureInv PROVE VerifiedAbsenceLasts
  <2>1. SUFFICES ASSUME NEW rc \in receipts, NEW e \in rc.targets, e.checked
                 PROVE  /\ \A m \in e.affected : vecs[m] # 0 => m \in e.vectors \cup late
                        /\ rc.status = "completed" => e.vectors = {}
    BY DEF VerifiedAbsenceLasts
  <2>2. EntryTrue(e, rc.user) /\ rc.status = ReceiptStatus(rc.targets)
    BY <1>1, <2>1 DEF ErasureInv, ReceiptTrue
  <2> QED BY <2>1, <2>2 DEF EntryTrue, ReceiptStatus
<1> QED
  BY <1>1, ErasureHolds, PTL
===============================================================================
