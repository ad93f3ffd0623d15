--------------------------- MODULE ReportsProofs ---------------------------
(***************************************************************************)
(* Proofs about the figures of the reports, for any number of tickets and  *)
(* users.  The sums are recursive functions: what they compute is proved   *)
(* here by least counterexamples.                                          *)
(***************************************************************************)
EXTENDS Reports, TicketsProofs, FiniteSetTheorems, WellFoundedInduction

-----------------------------------------------------------------------------
(* Induction, without an operator for the property.                        *)

LEMMA NatOrder == \E R : IsWellFoundedOn(R, Nat) /\ \A m, n \in Nat : m < n => <<m, n>> \in R
<1> DEFINE R == OpToRel(<, Nat)
<1>1. IsWellFoundedOn(R, Nat)
  BY NatLessThanWellFounded
<1>2. \A m, n \in Nat : m < n => <<m, n>> \in R
  BY DEF OpToRel
<1> QED
  BY <1>1, <1>2, Zenon

\* A set of naturals that is not empty has a least element.
LEMMA Least ==
    ASSUME NEW T \in SUBSET Nat, T # {}
    PROVE  \E n \in T : \A m \in T : n <= m
<1>1. PICK R : IsWellFoundedOn(R, Nat) /\ \A m, n \in Nat : m < n => <<m, n>> \in R
  BY NatOrder
<1>2. IsWellFoundedOn(R, Nat) /\ T \subseteq Nat /\ T # {}
  BY <1>1
<1>3. PICK n \in T : \A m \in T : ~(<<m, n>> \in R)
  BY <1>2, WFMin, Zenon
<1>4. ASSUME NEW m \in T PROVE n <= m
  <2>1. m \in Nat /\ n \in Nat
    OBVIOUS
  <2>2. ~(m < n)
    BY <1>1, <1>3, <2>1
  <2> QED
    BY <2>1, <2>2
<1> QED
  BY <1>4

\* A set G of subsets of a finite set that has the empty one, and every other of
\* which it has all that lack one element, has the whole.
LEMMA SubsetInduction ==
    ASSUME NEW S, IsFiniteSet(S), NEW G, {} \in G,
           \A s \in SUBSET S : (s # {} /\ \A x \in s : s \ {x} \in G) => s \in G
    PROVE  S \in G
<1> DEFINE Bad == {n \in Nat : \E s \in SUBSET S : s \notin G /\ Cardinality(s) = n}
<1>1. \A s \in SUBSET S : IsFiniteSet(s) /\ Cardinality(s) \in Nat
  BY FS_Subset, FS_CardinalityType
<1>2. SUFFICES ASSUME S \notin G PROVE FALSE
  OBVIOUS
<1>3. Bad \in SUBSET Nat /\ Bad # {}
  BY <1>1, <1>2
<1>4. PICK n \in Bad : \A m \in Bad : n <= m
  BY <1>3, Least
<1>5. PICK s \in SUBSET S : s \notin G /\ Cardinality(s) = n
  BY <1>4
<1>6. PICK x \in s : s \ {x} \notin G
  BY <1>5
<1>7. s \ {x} \in SUBSET S /\ Cardinality(s \ {x}) = n - 1 /\ Cardinality(s \ {x}) \in Nat
  BY <1>1, <1>5, FS_RemoveElement
<1>8. n - 1 \in Bad
  BY <1>6, <1>7
<1> QED
  BY <1>3, <1>4, <1>8

-----------------------------------------------------------------------------
(* Sums.                                                                   *)

\* Element by element, in the order the library takes them.
Adds(f, g, D) ==
    /\ f \in [D -> Int]
    /\ \A s \in D : f[s] = IF s = {} THEN 0
                           ELSE g[CHOOSE x \in s : TRUE] + f[s \ {CHOOSE x \in s : TRUE}]

\* There is such a function on all subsets of a finite set.
LEMMA SumExists ==
    ASSUME NEW S, IsFiniteSet(S), NEW g \in [S -> Int]
    PROVE  \E f : Adds(f, g, SUBSET S)
<1> DEFINE D(n) == {s \in SUBSET S : Cardinality(s) <= n}
           Bad == {n \in Nat : ~\E f : Adds(f, g, D(n))}
<1>1. \A s \in SUBSET S : /\ IsFiniteSet(s) /\ Cardinality(s) \in Nat
                          /\ Cardinality(s) <= Cardinality(S)
                          /\ Cardinality(s) = 0 <=> s = {}
  BY FS_Subset, FS_CardinalityType, FS_EmptySet
<1>2. ASSUME NEW n \in Nat, NEW s \in D(n), s # {}
      PROVE  /\ (CHOOSE x \in s : TRUE) \in S
             /\ s \ {CHOOSE x \in s : TRUE} \in SUBSET S
             /\ Cardinality(s \ {CHOOSE x \in s : TRUE}) <= n - 1
             /\ n > 0
  <2>1. (CHOOSE x \in s : TRUE) \in s
    BY <1>2
  <2>2. Cardinality(s \ {CHOOSE x \in s : TRUE}) = Cardinality(s) - 1
    BY <1>1, <2>1, FS_RemoveElement
  <2> QED
    BY <1>1, <1>2, <2>1, <2>2
<1>3. SUFFICES Bad = {}
  <2>1. D(Cardinality(S)) = SUBSET S /\ Cardinality(S) \in Nat
    BY <1>1
  <2>2. \E f : Adds(f, g, D(Cardinality(S)))
    BY <1>3, <2>1
  <2> QED
    BY <2>1, <2>2
<1>4. SUFFICES ASSUME Bad # {} PROVE FALSE
  OBVIOUS
<1>5. PICK n \in Bad : \A m \in Bad : n <= m
  <2>1. Bad \in SUBSET Nat
    OBVIOUS
  <2> QED
    BY <1>4, <2>1, Least
<1>6. n \in Nat
  OBVIOUS
<1>7. \A m \in Nat : m \notin Bad => \E f : Adds(f, g, D(m))
  OBVIOUS
<1>8. \A m \in Nat : (\E f : Adds(f, g, D(m))) => m \notin Bad
  OBVIOUS
<1> HIDE DEF Bad
<1>9. \E f : Adds(f, g, D(n))
  <2>1. CASE n = 0
    <3> DEFINE f == [s \in D(n) |-> 0]
    <3>1. \A s \in D(n) : s = {}
      BY <1>1, <2>1
    <3>2. Adds(f, g, D(n))
      BY <3>1 DEF Adds
    <3> QED
      BY <3>2
  <2>2. CASE n # 0
    <3> DEFINE m == n - 1
    <3>1. m \in Nat /\ m < n
      BY <1>6, <2>2
    <3>2. PICK h : Adds(h, g, D(m))
      <4> HIDE DEF m, D
      <4>1. ~(n <= m)
        BY <1>6, <3>1
      <4>2. m \notin Bad
        BY <1>5, <4>1
      <4> QED
        BY <1>7, <3>1, <4>2
    <3> DEFINE next(s) == IF s = {} THEN 0
                          ELSE g[CHOOSE x \in s : TRUE] + h[s \ {CHOOSE x \in s : TRUE}]
               f == [s \in D(n) |-> next(s)]
    <3>3. \A s \in D(m) : s \in D(n) /\ h[s] \in Int /\ h[s] = next(s)
      <4>1. \A s \in D(m) : s \in D(n)
        BY <1>1, <1>6
      <4>2. \A s \in D(m) : h[s] \in Int /\ h[s] = next(s)
        BY <3>2 DEF Adds
      <4> QED
        BY <4>1, <4>2
    <3>4. ASSUME NEW s \in D(n), s # {}
          PROVE  /\ s \ {CHOOSE x \in s : TRUE} \in D(m)
                 /\ g[CHOOSE x \in s : TRUE] \in Int
      BY <1>2, <1>6, <3>4
    <3> HIDE DEF m, D
    <3>5. ASSUME NEW s \in D(n) PROVE next(s) \in Int
      <4>1. CASE s = {}
        BY <4>1
      <4>2. CASE s # {}
        <5> DEFINE x == CHOOSE x \in s : TRUE
        <5>1. g[x] \in Int /\ h[s \ {x}] \in Int
          BY <3>3, <3>4, <4>2
        <5>2. next(s) = g[x] + h[s \ {x}]
          BY <4>2
        <5> HIDE DEF x, next
        <5> QED
          BY <5>1, <5>2
      <4> QED
        BY <4>1, <4>2
    <3>6. \A s \in D(m) : f[s] = h[s]
      BY <3>3
    <3>7. ASSUME NEW s \in D(n)
          PROVE  f[s] = IF s = {} THEN 0
                        ELSE g[CHOOSE x \in s : TRUE] + f[s \ {CHOOSE x \in s : TRUE}]
      <4>1. f[s] = next(s)
        OBVIOUS
      <4>2. s # {} => f[s \ {CHOOSE x \in s : TRUE}] = h[s \ {CHOOSE x \in s : TRUE}]
        BY <3>4, <3>6
      <4> HIDE DEF f
      <4> QED
        BY <4>1, <4>2
    <3>8. f \in [D(n) -> Int]
      <4> HIDE DEF next
      <4> QED
        BY <3>5
    <3> HIDE DEF f
    <3>9. Adds(f, g, D(n))
      BY <3>7, <3>8 DEF Adds
    <3> QED
      BY <3>9
  <2> QED
    BY <2>1, <2>2
<1> QED
  BY <1>5, <1>6, <1>8, <1>9

\* The sum of a function is the value of one of these for the whole set.
LEMMA SumAdds ==
    ASSUME NEW S, IsFiniteSet(S), NEW g \in [S -> Int]
    PROVE  \E h : Adds(h, g, SUBSET S) /\ SumFunction(g) = h[S]
<1> DEFINE IsIter(f) == f = [s \in SUBSET S |-> IF s = {} THEN 0
                               ELSE g[CHOOSE x \in s : TRUE] + f[s \ {CHOOSE x \in s : TRUE}]]
           f == CHOOSE h : IsIter(h)
<1>1. PICK h : Adds(h, g, SUBSET S)
  BY SumExists
<1>2. IsIter(h)
  BY <1>1 DEF Adds
<1>3. IsIter(f)
  BY <1>2
<1>4. SumFunction(g) = f[S]
  BY DEF SumFunction, SumFunctionOnSet, FoldFunctionOnSet, MapThenFoldSet
<1>5. \A s \in SUBSET S : /\ f[s] = IF s = {} THEN 0
                                    ELSE g[CHOOSE x \in s : TRUE] + f[s \ {CHOOSE x \in s : TRUE}]
                          /\ h[s] = IF s = {} THEN 0
                                    ELSE g[CHOOSE x \in s : TRUE] + h[s \ {CHOOSE x \in s : TRUE}]
  BY <1>2, <1>3
<1> DEFINE G == {s \in SUBSET S : f[s] = h[s]}
<1> HIDE DEF f
<1>6. {} \in G
  BY <1>5
<1>7. ASSUME NEW s \in SUBSET S, s # {}, \A x \in s : s \ {x} \in G PROVE s \in G
  <2>1. (CHOOSE x \in s : TRUE) \in s
    BY <1>7
  <2>2. f[s \ {CHOOSE x \in s : TRUE}] = h[s \ {CHOOSE x \in s : TRUE}]
    BY <1>7, <2>1
  <2> QED
    BY <1>5, <1>7, <2>2
<1>8. S \in G
  <2> HIDE DEF G
  <2> QED
    BY <1>6, <1>7, SubsetInduction
<1> QED
  BY <1>1, <1>4, <1>8

\* Adding up what is not negative gives nothing negative.
LEMMA SumNotNegative ==
    ASSUME NEW S, IsFiniteSet(S), NEW g \in [S -> Int], \A x \in S : g[x] >= 0
    PROVE  SumFunction(g) \in Nat
<1>1. PICK f : Adds(f, g, SUBSET S) /\ SumFunction(g) = f[S]
  BY SumAdds
<1> DEFINE G == {s \in SUBSET S : f[s] \in Nat}
<1>2. {} \in G
  BY <1>1 DEF Adds
<1>3. ASSUME NEW s \in SUBSET S, s # {}, \A x \in s : s \ {x} \in G PROVE s \in G
  <2> DEFINE x == CHOOSE x \in s : TRUE
  <2>1. x \in s
    BY <1>3
  <2>2. f[s] = g[x] + f[s \ {x}]
    BY <1>1, <1>3 DEF Adds
  <2> HIDE DEF x
  <2>3. g[x] \in Nat /\ f[s \ {x}] \in Nat
    BY <1>3, <2>1
  <2> QED
    BY <2>2, <2>3
<1>4. S \in G
  <2> HIDE DEF G
  <2> QED
    BY <1>2, <1>3, SubsetInduction
<1> QED
  BY <1>1, <1>4

\* A finite set counted owner by owner.
LEMMA SumOfParts ==
    ASSUME NEW A, IsFiniteSet(A), NEW T, IsFiniteSet(T), NEW owner, NEW g \in [A -> Int],
           \A u \in A : g[u] = Cardinality({t \in T : owner[t] = u})
    PROVE  SumFunction(g) = Cardinality({t \in T : owner[t] \in A})
<1>1. PICK f : Adds(f, g, SUBSET A) /\ SumFunction(g) = f[A]
  BY SumAdds
<1> DEFINE Of(s) == {t \in T : owner[t] \in s}
           G == {s \in SUBSET A : f[s] = Cardinality(Of(s))}
<1>2. {} \in G
  <2>1. Of({}) = {}
    OBVIOUS
  <2>2. f[{}] = 0
    BY <1>1 DEF Adds
  <2> QED
    BY <2>1, <2>2, FS_EmptySet
<1>3. ASSUME NEW s \in SUBSET A, s # {}, \A x \in s : s \ {x} \in G PROVE s \in G
  <2> DEFINE x == CHOOSE x \in s : TRUE
  <2>1. x \in s
    BY <1>3
  <2>2. f[s] = g[x] + f[s \ {x}]
    BY <1>1, <1>3 DEF Adds
  <2> HIDE DEF x
  <2>3. f[s \ {x}] = Cardinality(Of(s \ {x}))
    BY <1>3, <2>1
  <2>4. g[x] = Cardinality({t \in T : owner[t] = x})
    BY <2>1
  <2> DEFINE P == {t \in T : owner[t] = x}
             Q == Of(s \ {x})
  <2>5. Of(s) = P \cup Q /\ P \cap Q = {}
    BY <2>1
  <2>6. IsFiniteSet(P) /\ IsFiniteSet(Q) /\ Cardinality(P) \in Nat /\ Cardinality(Q) \in Nat
    BY FS_Subset, FS_CardinalityType
  <2> HIDE DEF P, Q
  <2>7. Cardinality(P \cup Q) = Cardinality(P) + Cardinality(Q)
    <3>1. Cardinality(P \cap Q) = 0
      BY <2>5, FS_EmptySet
    <3>2. Cardinality(P \cup Q) = Cardinality(P) + Cardinality(Q) - Cardinality(P \cap Q)
      BY <2>6, FS_Union
    <3> QED
      BY <2>6, <3>1, <3>2
  <2>8. f[s] = Cardinality(Of(s))
    BY <2>2, <2>3, <2>4, <2>5, <2>7 DEF P, Q
  <2> QED
    BY <2>8
<1>4. A \in G
  <2> HIDE DEF G
  <2> QED
    BY <1>2, <1>3, SubsetInduction
<1> QED
  BY <1>1, <1>4

-----------------------------------------------------------------------------
(* The documents are finitely many, and what the reports count of them.    *)

Documents == TypeOK /\ IsFiniteSet(Stored)

\* A step stores one document at most.
LEMMA NextDocuments == Documents /\ [Next]_vars => Documents'
<1> SUFFICES ASSUME Documents, [Next]_vars PROVE Documents'
  OBVIOUS
<1>1. TypeOK'
  BY NextType DEF Documents
<1>2. Stored' = Stored \/ \E t : Stored' = Stored \cup {t}
  <2>1. ASSUME NEW r \in Requests, CreateTicket(r)
        PROVE  \E t : Stored' = Stored \cup {t}
    BY <2>1 DEF CreateTicket, Stored
  <2>2. ASSUME NEW r \in Requests, SaveTicket(r)
        PROVE  Stored' = Stored
    BY <2>2 DEF SaveTicket, Stored
  <2>3. CASE UNCHANGED tickets
    BY <2>3 DEF Stored
  <2> QED
    BY <2>1, <2>2, <2>3 DEF Next, vars, Arrive, Receive, ReceiveCreate, ReceiveUpdate, ReceiveAssign,
       ReceiveAccept, ReceiveReject, ReceiveDelete, Handle, GetTicketById, AssignTicket, UpdateTicket,
       AcceptTicket, RejectTicket, DeleteTicket, Save, Refuse, Audit, AuditFails, RequestFails,
       ChangeAccount, Tick
<1>3. IsFiniteSet(Stored')
  BY <1>2, FS_AddElement DEF Documents
<1> QED
  BY <1>1, <1>3 DEF Documents

LEMMA DocumentsAlways == Spec => []Documents
<1>1. Init => Documents
  <2> SUFFICES ASSUME Init PROVE Documents
    OBVIOUS
  <2>1. Stored = {}
    BY DEF Init, Stored
  <2> QED
    BY <2>1, InitType, FS_EmptySet DEF Documents
<1> QED
  BY <1>1, NextDocuments, PTL DEF Spec

\* Any part of the documents can be counted, part by part.
LEMMA Counts ==
    ASSUME Documents, NEW T \in SUBSET Kept
    PROVE  /\ IsFiniteSet(T) /\ Cardinality(T) \in Nat
           /\ \A U \in SUBSET T : Cardinality(U) <= Cardinality(T)
           /\ \A U, V : T = U \cup V /\ U \cap V = {} => Cardinality(T) = Cardinality(U) + Cardinality(V)
<1>1. IsFiniteSet(T)
  BY FS_Subset DEF Documents, Kept
<1>2. Cardinality(T) \in Nat
  BY <1>1, FS_CardinalityType
<1>3. \A U \in SUBSET T : Cardinality(U) <= Cardinality(T)
  BY <1>1, FS_Subset
<1>4. ASSUME NEW U, NEW V, T = U \cup V, U \cap V = {}
      PROVE  Cardinality(T) = Cardinality(U) + Cardinality(V)
  <2>1. IsFiniteSet(U) /\ IsFiniteSet(V)
    <3>1. U \in SUBSET T /\ V \in SUBSET T
      BY <1>4
    <3> QED
      BY <1>1, <3>1, FS_Subset
  <2>2. Cardinality(U) \in Nat /\ Cardinality(V) \in Nat
    BY <2>1, FS_CardinalityType
  <2> QED
    BY <1>4, <2>1, <2>2, FS_Union, FS_EmptySet
<1> QED
  BY <1>1, <1>2, <1>3, <1>4

\* So can their assignees.
LEMMA AgentsFinite ==
    ASSUME Documents, NEW P
    PROVE  IsFiniteSet(Agents(P))
<1> DEFINE T == {t \in Kept : tickets[t].assignedTo \in Agents(P)}
           f == [t \in T |-> tickets[t].assignedTo]
<1>1. IsFiniteSet(T)
  BY Counts
<1>2. f \in [T -> Agents(P)]
  OBVIOUS
<1>3. \A u \in Agents(P) : \E t \in T : f[t] = u
  BY DEF Agents, Reported
<1>4. f \in Surjection(T, Agents(P))
  BY <1>2, <1>3 DEF Surjection
<1> HIDE DEF f, T
<1> QED
  BY <1>1, <1>4, FS_Surjection

\* A column of the report, added up: the documents in T that somebody has.
LEMMA ColumnSum ==
    ASSUME Documents, NEW P, NEW T \in SUBSET Kept, NEW g \in [Agents(P) -> Int],
           \A u \in Agents(P) : g[u] = Cardinality({t \in T : tickets[t].assignedTo = u})
    PROVE  SumFunction(g) = Cardinality({t \in T : tickets[t].assignedTo \in Agents(P)})
<1> DEFINE owner == [t \in T |-> tickets[t].assignedTo]
<1>1. IsFiniteSet(T) /\ IsFiniteSet(Agents(P))
  BY Counts, AgentsFinite
<1>2. \A u \in Agents(P) : {t \in T : owner[t] = u} = {t \in T : tickets[t].assignedTo = u}
  OBVIOUS
<1>3. {t \in T : owner[t] \in Agents(P)} = {t \in T : tickets[t].assignedTo \in Agents(P)}
  OBVIOUS
<1>4. \A u \in Agents(P) : g[u] = Cardinality({t \in T : owner[t] = u})
  BY <1>2
<1> HIDE DEF owner
<1> QED
  BY <1>1, <1>3, <1>4, SumOfParts

\* The columns the strip of the manager's dashboard is made of.
LEMMA Columns ==
    ASSUME Documents, NEW P
    PROVE  LET had(T) == Cardinality({t \in T : tickets[t].assignedTo \in Agents(P)}) IN
           /\ Summary(P).totalAssigned = had(Kept \cap P)
           /\ Summary(P).totalInProgress = had({t \in Kept \cap P : tickets[t].status = "in_progress"})
           /\ Summary(P).totalOpen = had({t \in Kept \cap P : tickets[t].status = "open"})
<1> DEFINE K == Kept \cap P
           A == Agents(P)
           had(T) == Cardinality({t \in T : tickets[t].assignedTo \in A})
           In(s) == {t \in K : tickets[t].status = s}
           assigned == [u \in A |-> AgentRow(u, P).totalAssigned]
           progress == [u \in A |-> AgentRow(u, P).inProgress]
           open == [u \in A |-> AgentRow(u, P).open]
<1>1. /\ Summary(P).totalAssigned = SumFunction(assigned)
      /\ Summary(P).totalInProgress = SumFunction(progress)
      /\ Summary(P).totalOpen = SumFunction(open)
  BY DEF Summary
<1>2. ASSUME NEW u \in A
      PROVE  /\ assigned[u] = Cardinality({t \in K : tickets[t].assignedTo = u})
             /\ progress[u] = Cardinality({t \in In("in_progress") : tickets[t].assignedTo = u})
             /\ open[u] = Cardinality({t \in In("open") : tickets[t].assignedTo = u})
  <2>1. /\ assigned[u] = Cardinality(Reported(u, P))
        /\ progress[u] = Cardinality({t \in Reported(u, P) : tickets[t].status \in {"in_progress"}})
        /\ open[u] = Cardinality({t \in Reported(u, P) : tickets[t].status \in {"open"}})
    BY DEF AgentRow, Count
  <2>2. \A s : {t \in Reported(u, P) : tickets[t].status \in {s}}
                  = {t \in In(s) : tickets[t].assignedTo = u}
    BY DEF Reported
  <2> QED
    BY <2>1, <2>2 DEF Reported
<1>3. /\ assigned \in [A -> Int]
      /\ progress \in [A -> Int]
      /\ open \in [A -> Int]
  <2>1. \A u \in A, T \in SUBSET Kept : Cardinality({t \in T : tickets[t].assignedTo = u}) \in Int
    <3> SUFFICES ASSUME NEW u \in A, NEW T \in SUBSET Kept
                 PROVE  Cardinality({t \in T : tickets[t].assignedTo = u}) \in Int
      OBVIOUS
    <3>1. {t \in T : tickets[t].assignedTo = u} \in SUBSET Kept
      OBVIOUS
    <3> QED
      BY <3>1, Counts
  <2>2. \A u \in A : assigned[u] \in Int /\ progress[u] \in Int /\ open[u] \in Int
    BY <1>2, <2>1
  <2>3. /\ DOMAIN assigned = A /\ assigned = [u \in A |-> assigned[u]]
        /\ DOMAIN progress = A /\ progress = [u \in A |-> progress[u]]
        /\ DOMAIN open = A /\ open = [u \in A |-> open[u]]
    OBVIOUS
  <2> HIDE DEF assigned, progress, open, A
  <2> QED
    BY <2>2, <2>3
<1>4. K \in SUBSET Kept /\ In("in_progress") \in SUBSET Kept /\ In("open") \in SUBSET Kept
  OBVIOUS
<1> HIDE DEF assigned, progress, open, K, In
<1>5. SumFunction(assigned) = had(K)
  BY <1>2, <1>3, <1>4, ColumnSum
<1>6. SumFunction(progress) = had(In("in_progress"))
  BY <1>2, <1>3, <1>4, ColumnSum
<1>7. SumFunction(open) = had(In("open"))
  BY <1>2, <1>3, <1>4, ColumnSum
<1> QED
  BY <1>1, <1>5, <1>6, <1>7 DEF K, In

\* Somebody has a document, or nobody.
LEMMA AssignedOrNot ==
    ASSUME Documents, NEW P, NEW t \in Kept
    PROVE  /\ t \in P => tickets[t].assignedTo \in Agents(P) \cup {NoUser}
           /\ NoUser \notin Agents(P)
           /\ tickets[t].status \in Statuses
<1>1. tickets[t].assignedTo \in Users \cup {NoUser} /\ tickets[t].status \in Statuses
  BY TicketFields DEF Documents, TypeOK, Kept
<1> QED
  BY <1>1, NoUserAssumption DEF Agents, Reported

\* Of the documents in T those of the period that somebody has, and the older ones
\* that somebody has, are together those somebody has.
LEMMA ByPeriod ==
    ASSUME Documents, NEW P, NEW T \in SUBSET Kept
    PROVE  Cardinality({t \in T : tickets[t].assignedTo # NoUser})
             = Cardinality({t \in T \cap P : tickets[t].assignedTo \in Agents(P)})
                 + Cardinality({t \in T \ P : tickets[t].assignedTo # NoUser})
<1> DEFINE had == {t \in T : tickets[t].assignedTo # NoUser}
           new == {t \in T \cap P : tickets[t].assignedTo \in Agents(P)}
           old == {t \in T \ P : tickets[t].assignedTo # NoUser}
<1>1. had = new \cup old /\ new \cap old = {} /\ had \in SUBSET Kept
  <2>1. \A t \in T : /\ t \in P => tickets[t].assignedTo \in Agents(P) \cup {NoUser}
                     /\ NoUser \notin Agents(P)
    BY AssignedOrNot
  <2> QED
    BY <2>1
<1> HIDE DEF had, new, old
<1>2. Cardinality(had) = Cardinality(new) + Cardinality(old)
  BY <1>1, Counts
<1> QED
  BY <1>2 DEF had, new, old

LEMMA ManagersAgree ==
    ASSUME Documents, NEW P, NEW u \in Users, accounts[u].role \in {"admin", "manager"}
    PROVE  ManagerFiguresAgree(u, P)
<1> DEFINE In(s) == {t \in Kept : tickets[t].status = s}
           Had(T) == {t \in T : tickets[t].assignedTo # NoUser}
           New(T) == {t \in T \cap P : tickets[t].assignedTo \in Agents(P)}
           Old(T) == {t \in T \ P : tickets[t].assignedTo # NoUser}
           Free == {t \in In("open") : tickets[t].assignedTo = NoUser}
           older == {t \in Kept \ P : tickets[t].assignedTo # NoUser}
           shown == ManagerDashboard(TicketStats(u), Summary(P))
<1>1. Own(u) = Kept
  BY DEF Own
<1>2. \A T, s : {t \in T : tickets[t].status \in {s}} = {t \in T : tickets[t].status = s}
  OBVIOUS
<1>3. /\ shown.total = Cardinality(Kept)
      /\ shown.open = Cardinality(In("open"))
      /\ shown.inProgress = Cardinality(In("in_progress"))
      /\ shown.team = Summary(P)
  BY <1>1, <1>2 DEF ManagerDashboard, TicketStats, Count
<1>4. shown.unassigned = Cardinality(Free)
  <2>1. {t \in {x \in Kept : tickets[x].assignedTo = NoUser} : tickets[t].status \in {"open"}} = Free
    OBVIOUS
  <2> QED
    BY <2>1 DEF ManagerDashboard, Count
<1>5. /\ Summary(P).totalAssigned = Cardinality(New(Kept))
      /\ Summary(P).totalInProgress = Cardinality(New(In("in_progress")))
      /\ Summary(P).totalOpen = Cardinality(New(In("open")))
  <2>1. \A s : {t \in Kept \cap P : tickets[t].status = s} = In(s) \cap P
    OBVIOUS
  <2> QED
    BY <2>1, Columns
<1>6. /\ Count(older, {"open"}) = Cardinality(Old(In("open")))
      /\ Count(older, {"in_progress"}) = Cardinality(Old(In("in_progress")))
      /\ older = Old(Kept)
  <2>1. \A s : {t \in older : tickets[t].status \in {s}} = Old(In(s))
    OBVIOUS
  <2> QED
    BY <2>1 DEF Count
<1>7. In("open") = Had(In("open")) \cup Free /\ Had(In("open")) \cap Free = {}
  OBVIOUS
<1>8. /\ In("open") \in SUBSET Kept /\ In("in_progress") \in SUBSET Kept /\ Kept \in SUBSET Kept
      /\ Had(Kept) \in SUBSET Kept /\ Had(In("in_progress")) \in SUBSET In("in_progress")
  OBVIOUS
<1>9. \A T \in SUBSET Kept : Cardinality(Had(T)) = Cardinality(New(T)) + Cardinality(Old(T))
  BY ByPeriod
<1>10. \A T \in SUBSET Kept : Cardinality(New(T)) \in Nat /\ Cardinality(Old(T)) \in Nat
  <2>1. ASSUME NEW T \in SUBSET Kept
        PROVE  New(T) \in SUBSET Kept /\ Old(T) \in SUBSET Kept
    OBVIOUS
  <2> HIDE DEF New, Old
  <2> QED
    BY <2>1, Counts
<1> HIDE DEF In, Had, New, Old, Free, shown, older
<1>11. /\ Cardinality(In("open")) = Cardinality(Had(In("open"))) + Cardinality(Free)
       /\ Cardinality(Had(Kept)) <= Cardinality(Kept)
       /\ Cardinality(Had(In("in_progress"))) <= Cardinality(In("in_progress"))
       /\ Cardinality(Free) \in Nat
  <2>1. Free \in SUBSET Kept
    BY <1>7, <1>8
  <2> QED
    BY <1>7, <1>8, <2>1, Counts
<1>12. /\ shown.open = shown.unassigned + shown.team.totalOpen + Count(older, {"open"})
       /\ shown.team.totalAssigned + Cardinality(older) <= shown.total
       /\ shown.team.totalInProgress + Count(older, {"in_progress"}) <= shown.inProgress
  BY <1>3, <1>4, <1>5, <1>6, <1>8, <1>9, <1>10, <1>11
<1> QED
  BY <1>12 DEF ManagerFiguresAgree, shown, older

LEMMA AgentsAgree ==
    ASSUME Documents, NEW P, NEW u \in Users, accounts[u].role = "agent"
    PROVE  AgentFiguresAgree(u, P)
<1> DEFINE T == Own(u)
           In(S) == {t \in T : tickets[t].status \in S}
           stats == TicketStats(u)
           row == AgentRow(u, P)
           older == T \ P
<1>1. Reported(u, P) = T \cap P
  BY DEF Own, Reported
<1>2. /\ stats.total = Cardinality(T)
      /\ stats.inProgress = Cardinality(In({"in_progress"}))
      /\ stats.resolved = Cardinality(In({"resolved"})) /\ stats.closed = Cardinality(In({"closed"}))
      /\ stats.resolution = {t \in T : tickets[t].resolvedAt # Never}
  BY DEF TicketStats, Count
<1>3. /\ row.totalAssigned = Cardinality(T \cap P)
      /\ row.inProgress = Cardinality(In({"in_progress"}) \cap P)
      /\ row.resolved = Cardinality(In({"resolved", "closed"}) \cap P)
  <2>1. \A S : {t \in T \cap P : tickets[t].status \in S} = In(S) \cap P
    OBVIOUS
  <2> QED
    BY <1>1, <2>1 DEF AgentRow, Count
<1>4. /\ Count(older, {"in_progress"}) = Cardinality(In({"in_progress"}) \ P)
      /\ Count(older, {"resolved", "closed"}) = Cardinality(In({"resolved", "closed"}) \ P)
  <2>1. \A S : {t \in older : tickets[t].status \in S} = In(S) \ P
    OBVIOUS
  <2> QED
    BY <2>1 DEF Count
<1>5. row.resolution \subseteq stats.resolution
  BY <1>1, <1>2 DEF AgentRow, Finished
<1>6. In({"resolved", "closed"}) = In({"resolved"}) \cup In({"closed"})
      /\ In({"resolved"}) \cap In({"closed"}) = {}
  OBVIOUS
<1>7. T \in SUBSET Kept /\ \A S : In(S) \in SUBSET Kept
  BY DEF Own
<1> HIDE DEF T, In, stats, row, older
<1>8. Cardinality(In({"resolved", "closed"})) = Cardinality(In({"resolved"})) + Cardinality(In({"closed"}))
  BY <1>6, <1>7, Counts
<1>9. ASSUME NEW U \in SUBSET Kept
      PROVE  Cardinality(U) = Cardinality(U \cap P) + Cardinality(U \ P)
  <2>1. U = (U \cap P) \cup (U \ P) /\ (U \cap P) \cap (U \ P) = {}
    OBVIOUS
  <2> QED
    BY <2>1, Counts
<1>10. /\ stats.total = row.totalAssigned + Cardinality(older)
       /\ stats.inProgress = row.inProgress + Count(older, {"in_progress"})
       /\ stats.resolved + stats.closed = row.resolved + Count(older, {"resolved", "closed"})
  BY <1>2, <1>3, <1>4, <1>7, <1>8, <1>9 DEF older
<1> QED
  BY <1>5, <1>10 DEF AgentFiguresAgree, AgentDashboard, stats, row, older, T

LEMMA AdminsAgree ==
    ASSUME NEW u \in Users, accounts[u].role = "admin"
    PROVE  AdminFiguresAgree(TicketStats(u))
<1>1. Own(u) = Kept
  BY DEF Own
<1> QED
  BY <1>1 DEF AdminFiguresAgree, AdminDashboard, TicketStats, Overview

LEMMA CustomersAgree ==
    ASSUME Documents, NEW u \in Users, accounts[u].role = "customer"
    PROVE  CustomerFiguresAgree(TicketStats(u))
<1> DEFINE In(s) == {t \in Own(u) : tickets[t].status = s}
           stats == TicketStats(u)
<1>1. Own(u) \in SUBSET Kept
  BY DEF Own
<1>2. \A s : {t \in Own(u) : tickets[t].status \in {s}} = In(s)
  OBVIOUS
<1>3. /\ stats.total = Cardinality(Own(u)) /\ stats.open = Cardinality(In("open"))
      /\ stats.inProgress = Cardinality(In("in_progress"))
      /\ stats.resolved = Cardinality(In("resolved")) /\ stats.closed = Cardinality(In("closed"))
  BY <1>2 DEF TicketStats, Count
<1>4. Cardinality(Own(u)) <= Cardinality(Kept)
  BY <1>1, Counts
<1> DEFINE begun == In("open") \cup In("in_progress")
           over == In("resolved") \cup In("closed")
<1>5. /\ Own(u) = begun \cup over /\ begun \cap over = {}
      /\ In("open") \cap In("in_progress") = {} /\ In("resolved") \cap In("closed") = {}
  BY <1>1, AssignedOrNot DEF Statuses
<1>6. /\ begun \in SUBSET Kept /\ over \in SUBSET Kept /\ In("open") \in SUBSET Kept
      /\ In("in_progress") \in SUBSET Kept /\ In("resolved") \in SUBSET Kept /\ In("closed") \in SUBSET Kept
  BY <1>1
<1>7. begun = In("open") \cup In("in_progress") /\ over = In("resolved") \cup In("closed")
  OBVIOUS
<1> HIDE DEF In, begun, over, stats
<1>8. /\ Cardinality(Own(u)) = Cardinality(begun) + Cardinality(over)
      /\ Cardinality(begun) = Cardinality(In("open")) + Cardinality(In("in_progress"))
      /\ Cardinality(over) = Cardinality(In("resolved")) + Cardinality(In("closed"))
  BY <1>1, <1>5, <1>6, <1>7, Counts
<1>9. /\ Cardinality(In("open")) \in Nat /\ Cardinality(In("in_progress")) \in Nat
      /\ Cardinality(In("resolved")) \in Nat /\ Cardinality(In("closed")) \in Nat
  BY <1>6, Counts
<1> QED
  BY <1>3, <1>4, <1>8, <1>9 DEF CustomerFiguresAgree, CustomerDashboard, Overview, stats

\* THEOREM: the figures agree, whatever requests cross each other.
THEOREM ReportsAgree == Spec => []FiguresAgree
<1>1. Documents => FiguresAgree
  <2> SUFFICES ASSUME Documents, NEW u \in Users, NEW P \in SUBSET Stored
               PROVE  CASE accounts[u].role = "agent"    -> AgentFiguresAgree(u, P)
                        [] accounts[u].role = "manager"  -> ManagerFiguresAgree(u, P)
                        [] accounts[u].role = "admin"    -> AdminFiguresAgree(TicketStats(u)) /\ ManagerFiguresAgree(u, P)
                        [] accounts[u].role = "customer" -> CustomerFiguresAgree(TicketStats(u))
    BY DEF FiguresAgree
  <2>1. accounts[u].role \in Roles
    BY DEF Documents, TypeOK, Accounts
  <2> QED
    BY <2>1, AgentsAgree, ManagersAgree, AdminsAgree, CustomersAgree DEF Roles
<1> QED
  BY <1>1, DocumentsAlways, PTL

-----------------------------------------------------------------------------
(* Response times.  They hang on the order of two dates of a ticket, and so *)
(* on every copy a save is made from being the stored document still, as    *)
(* the theorems of TicketsProofs under NoSaveRace do.                       *)

\* The dates of a document: none is ahead, and an acceptance follows the
\* assignment it accepts.
Dated(d) ==
    /\ d.assignedAt <= now /\ d.acceptedAt <= now
    /\ d.acceptanceStatus = "accepted" => d.assignedAt # Never /\ d.assignedAt <= d.acceptedAt

\* The same of what a request in flight is about to write.
IsDating(q) ==
    /\ q.phase = "find" /\ "assignedAt" \in DOMAIN q.body => q.body.assignedAt <= now
    /\ q.phase = "save" => Dated(Written(tickets[q.ticket], q.set, q.push))

DatesInOrder ==
    /\ \A t \in Stored : Dated(tickets[t])
    /\ \A r \in Requests : IsDating(req[r])

\* A patch whose dates are of this instant or, in an assignment, of an earlier.
IsDatedPatch(p, d) ==
    /\ DOMAIN p \cap {"resolvedAt", "closedAt", "rejectionHistory"} = {}
    /\ "assignedAt" \in DOMAIN p =>
           /\ p.assignedAt <= now
           /\ "acceptanceStatus" \in DOMAIN p /\ p.acceptanceStatus = "pending"
    /\ "acceptedAt" \in DOMAIN p =>
           /\ p.acceptedAt = now
           /\ "acceptanceStatus" \in DOMAIN p /\ "assignedAt" \notin DOMAIN p
    /\ "acceptanceStatus" \in DOMAIN p /\ p.acceptanceStatus = "accepted" =>
           "acceptedAt" \in DOMAIN p /\ d.assignedTo # NoUser

LEMMA DatedSave ==
    ASSUME NEW d, IsTicket(d), MilestonesOf(d), Dated(d), now \in Nat \ {0},
           NEW p, IsPatch(p), IsDatedPatch(p, d), NEW push
    PROVE  Dated(Written(d, Modified(d, PreSave(d, Assign(d, p))), push))
<1> DEFINE mid == Assign(d, p)
           new == PreSave(d, mid)
           set == Modified(d, new)
           e   == Written(d, set, push)
<1>1. IsTicket(mid) /\ IsTicket(new)
  BY AssignType, PreSaveType
<1>2. \A f \in Fields : mid[f] = IF f \in DOMAIN p THEN p[f] ELSE d[f]
  BY DEF Assign
<1>3. \A f \in Fields \ {"resolvedAt", "closedAt", "assignedAt"} : new[f] = mid[f]
  BY <1>1, PreSaveType
<1>4. new.assignedAt = IF mid.assignedTo \notin {d.assignedTo, NoUser} /\ mid.assignedAt = Never
                       THEN now ELSE mid.assignedAt
  BY FieldTypes DEF PreSave, Assign
<1>5. DOMAIN set = {f \in Fields : new[f] # d[f]} /\ \A f \in DOMAIN set : set[f] = new[f]
  BY DEF Modified
<1>6. \A f \in Fields \ {"rejectionHistory"} :
         e[f] = IF f \in DOMAIN set THEN set[f] ELSE d[f]
  BY FieldTypes DEF Written, Assign
<1> HIDE DEF mid, new, set, e
<1>7. \A f \in Fields \ {"rejectionHistory"} : e[f] = new[f]
  BY <1>5, <1>6
<1>8. /\ e.assignedAt = new.assignedAt /\ e.acceptedAt = mid.acceptedAt
      /\ e.acceptanceStatus = mid.acceptanceStatus
  BY <1>3, <1>7, FieldTypes
<1>9. /\ mid.assignedAt = IF "assignedAt" \in DOMAIN p THEN p.assignedAt ELSE d.assignedAt
      /\ mid.acceptedAt = IF "acceptedAt" \in DOMAIN p THEN p.acceptedAt ELSE d.acceptedAt
      /\ mid.acceptanceStatus = IF "acceptanceStatus" \in DOMAIN p THEN p.acceptanceStatus
                                ELSE d.acceptanceStatus
      /\ mid.assignedAt \in Nat /\ mid.acceptedAt \in Nat
      /\ d.assignedAt \in Nat /\ d.acceptedAt \in Nat
  BY <1>1, <1>2, FieldTypes, TicketFields
<1>10. d.assignedTo # NoUser => d.assignedAt # Never
  BY DEF MilestonesOf, DateFields
<1>11. e.assignedAt <= now /\ e.acceptedAt <= now
  BY <1>4, <1>8, <1>9 DEF Dated, IsDatedPatch
<1>12. ASSUME e.acceptanceStatus = "accepted"
       PROVE  e.assignedAt # Never /\ e.assignedAt <= e.acceptedAt
  <2>1. "assignedAt" \notin DOMAIN p
    BY <1>8, <1>9, <1>12 DEF IsDatedPatch
  <2>2. CASE "acceptanceStatus" \in DOMAIN p
    <3>1. e.acceptedAt = now /\ d.assignedAt # Never
      BY <1>8, <1>9, <1>10, <1>12, <2>2 DEF IsDatedPatch
    <3> QED
      BY <1>4, <1>8, <1>9, <1>11, <2>1, <3>1
  <2>3. CASE "acceptanceStatus" \notin DOMAIN p
    <3>1. d.acceptanceStatus = "accepted" /\ e.acceptedAt = d.acceptedAt
      BY <1>8, <1>9, <1>12, <2>3 DEF IsDatedPatch
    <3>2. d.assignedAt # Never /\ d.assignedAt <= d.acceptedAt
      BY <3>1 DEF Dated
    <3> QED
      BY <1>4, <1>8, <1>9, <2>1, <3>1, <3>2
  <2> QED
    BY <2>2, <2>3
<1>13. Dated(e)
  BY <1>11, <1>12 DEF Dated
<1> QED
  BY <1>13 DEF e, set, new, mid

\* A step that moves one request on, and no ticket.
LEMMA DatesQuietStep ==
    ASSUME IInv, DatesInOrder, NEW r \in Requests, NEW q, Become(r, q), IsDating(q),
           UNCHANGED <<tickets, now>>
    PROVE  DatesInOrder'
<1>1. req'[r] = q /\ \A x \in Requests \ {r} : req'[x] = req[x]
  BY DEF IInv, TypeOK, Become
<1>2. \A x \in Requests : IsDating(req'[x])
  BY <1>1 DEF DatesInOrder
<1>3. \A d : Dated(d)' <=> Dated(d)
  BY DEF Dated
<1>4. \A x : IsDating(x)' <=> IsDating(x)
  BY <1>3 DEF IsDating
<1> QED
  BY <1>2, <1>3, <1>4 DEF DatesInOrder, Stored

LEMMA DatesIdle ==
    ASSUME IInv, DatesInOrder, NEW r \in Requests, Become(r, Idle), UNCHANGED <<tickets, now>>
    PROVE  DatesInOrder'
  BY DatesQuietStep DEF Idle, IsDating

\* A handler calls save().
LEMMA DatesSave ==
    ASSUME IInv, DatesInOrder, NEW r \in Requests, req[r].phase = "find",
           NEW p, IsPatch(p), IsDatedPatch(p, tickets[req[r].ticket]), NEW push, NEW action,
           Save(r, tickets[req[r].ticket], p, push, action), UNCHANGED now
    PROVE  DatesInOrder'
<1> DEFINE q   == req[r]
           d   == tickets[q.ticket]
           set == Modified(d, PreSave(d, Assign(d, p)))
           s   == Saving(q, set, push, action)
<1>1. q.ticket \in Stored
  BY RequestShape DEF IInv, TypeOK, IsWaiting
<1>2. IsTicket(d) /\ MilestonesOf(d) /\ Dated(d) /\ now \in Nat \ {0}
  BY <1>1 DEF IInv, TypeOK, MilestonesAreRecorded, DatesInOrder
<1>3. Dated(Written(d, set, push))
  BY <1>2, DatedSave
<1>4. s.phase = "save" /\ s.set = set /\ s.push = push /\ s.ticket = q.ticket
  BY DEF Saving
<1>5. Become(r, s) /\ UNCHANGED tickets
  BY DEF Save
<1> HIDE DEF set, s
<1>6. IsDating(s)
  BY <1>3, <1>4 DEF IsDating
<1> QED
  BY <1>5, <1>6, DatesQuietStep

LEMMA DatesUpdate ==
    ASSUME IInv, RightsAreKept, DatesInOrder, NEW r \in Requests, UpdateTicket(r)
    PROVE  DatesInOrder'
<1> DEFINE q   == req[r]
           old == tickets[q.ticket]
<1>1. q.phase = "find" /\ q.op \in {"update", "assign"} /\ IsWaiting(q, Stored) /\ UNCHANGED now
  BY RequestShape DEF UpdateTicket, IInv, TypeOK, Elsewhere
<1>2. PICK body \in IF q.op = "assign" THEN {q.body} ELSE UpdateBodies :
         Refuse(r) \/ Save(r, old, body, <<>>, UpdateAction(old, body))
  BY DEF UpdateTicket
<1>3. CASE Refuse(r)
  BY <1>1, <1>3, DatesIdle DEF Refuse
<1>4. CASE Save(r, old, body, <<>>, UpdateAction(old, body))
  <2>1. CASE q.op = "assign"
    <3>1. body = q.body /\ IsPatch(body)
      BY <1>1, <1>2, <2>1 DEF IsWaiting
    <3>2. /\ DOMAIN body = {"assignedTo", "acceptanceStatus", "assignedAt"}
          /\ body.acceptanceStatus = "pending" /\ body.assignedAt <= now
      BY <1>1, <2>1, <3>1 DEF RightsAreKept, IsAssigning, DatesInOrder, IsDating
    <3>3. IsDatedPatch(body, old)
      BY <3>2 DEF IsDatedPatch
    <3> QED
      BY <1>1, <1>4, <3>1, <3>3, DatesSave
  <2>2. CASE q.op # "assign"
    <3>1. IsPatch(body) /\ DOMAIN body \subseteq {"status", "priority", "category", "assignedTo"}
      BY <1>2, <2>2, BodiesAssumption DEF IsUpdateBody, UpdateKeys
    <3>2. IsDatedPatch(body, old)
      BY <3>1 DEF IsDatedPatch
    <3> QED
      BY <1>1, <1>4, <3>1, <3>2, DatesSave
  <2> QED
    BY <2>1, <2>2
<1> QED
  BY <1>2, <1>3, <1>4

LEMMA DatesDecide ==
    ASSUME IInv, DatesInOrder, NEW r \in Requests, AcceptTicket(r) \/ RejectTicket(r) \/ DeleteTicket(r)
    PROVE  DatesInOrder'
<1> DEFINE q   == req[r]
           old == tickets[q.ticket]
<1>1. q.phase = "find" /\ IsWaiting(q, Stored) /\ q.user \in Users /\ UNCHANGED now
  BY RequestShape DEF AcceptTicket, RejectTicket, DeleteTicket, IInv, TypeOK, IsWaiting, Elsewhere
<1>2. CASE Refuse(r)
  BY <1>1, <1>2, DatesIdle DEF Refuse
<1>3. CASE CanUserDecide(old, q.user) /\ Save(r, old, Acceptance, <<>>, "accepted")
  <2>1. IsPatch(Acceptance)
    BY FieldTypes DEF IsPatch, Acceptance, Acceptances, Statuses, IInv, TypeOK
  <2>2. old.assignedTo # NoUser
    BY <1>1, <1>3, NoUserAssumption DEF CanUserDecide
  <2>3. IsDatedPatch(Acceptance, old)
    BY <2>2 DEF IsDatedPatch, Acceptance
  <2> QED
    BY <1>1, <1>3, <2>1, <2>3, DatesSave
<1>4. CASE Save(r, old, Rejection, <<q.user>>, "rejected")
  <2>1. IsPatch(Rejection) /\ IsDatedPatch(Rejection, old)
    BY FieldTypes DEF IsPatch, IsDatedPatch, Rejection, Acceptances, Statuses
  <2> QED
    BY <1>1, <1>4, <2>1, DatesSave
<1>5. CASE Save(r, old, Deletion, <<>>, "deleted")
  <2>1. DOMAIN Deletion = {"isDeleted"} /\ Deletion.isDeleted \in FieldType.isDeleted
    BY FieldTypes DEF Deletion
  <2>2. IsPatch(Deletion) /\ IsDatedPatch(Deletion, old)
    BY <2>1, FieldTypes DEF IsPatch, IsDatedPatch
  <2> QED
    BY <1>1, <1>5, <2>2, DatesSave
<1> QED
  BY <1>2, <1>3, <1>4, <1>5 DEF AcceptTicket, RejectTicket, DeleteTicket

\* A save is applied: what it makes is dated, and the other saves are of other
\* tickets.
LEMMA DatesWrite ==
    ASSUME IInv, DatesInOrder, NoSaveRace, NEW r \in Requests, SaveTicket(r)
    PROVE  DatesInOrder'
<1>1. /\ req[r].phase = "save" /\ req'[r].phase = "audit" /\ now' = now
      /\ \A x \in Requests \ {r} : req'[x] = req[x]
      /\ req[r].ticket \in Stored
  BY RequestShape DEF SaveTicket, Become, Auditing, IInv, TypeOK, Elsewhere, IsSaving
<1>2. \A d : Dated(d)' <=> Dated(d)
  BY <1>1 DEF Dated
<1>3. ASSUME NEW t \in Stored' PROVE Dated(tickets'[t])
  <2>1. t \in Stored
    BY DEF SaveTicket, Stored
  <2>2. tickets'[t] = IF t = req[r].ticket THEN Written(tickets[t], req[r].set, req[r].push)
                      ELSE tickets[t]
    BY <2>1 DEF SaveTicket, Stored
  <2> QED
    BY <1>1, <2>1, <2>2 DEF DatesInOrder, IsDating
<1>4. ASSUME NEW x \in Requests PROVE IsDating(req[x])'
  <2>1. CASE x = r
    BY <1>1, <2>1 DEF IsDating
  <2>2. CASE x # r
    <3>1. req'[x] = req[x] /\ IsDating(req[x])
      BY <1>1, <2>2 DEF DatesInOrder
    <3>2. ASSUME req[x].phase = "save" PROVE tickets'[req[x].ticket] = tickets[req[x].ticket]
      <4>1. req[x].ticket # req[r].ticket /\ req[x].ticket \in Stored
        BY <1>1, <2>2, <3>2, RequestShape DEF NoSaveRace, IInv, TypeOK, IsSaving
      <4> QED
        BY <4>1 DEF SaveTicket, Stored
    <3> QED
      BY <1>1, <1>2, <3>1, <3>2 DEF IsDating
  <2> QED
    BY <2>1, <2>2
<1> QED
  BY <1>2, <1>3, <1>4 DEF DatesInOrder

LEMMA DatesCreate ==
    ASSUME IInv, DatesInOrder, NEW r \in Requests, CreateTicket(r)
    PROVE  DatesInOrder'
<1>1. /\ req'[r].phase = "audit" /\ now' = now
      /\ \A x \in Requests \ {r} : req'[x] = req[x]
      /\ req[r].ticket \notin Stored
  BY DEF CreateTicket, Become, Auditing, IInv, TypeOK, InFlightIsSound, Elsewhere
<1>2. PICK p \in Priorities, c \in Categories :
         tickets' = [t \in Stored \cup {req[r].ticket} |->
                        IF t = req[r].ticket THEN NewTicket(req[r].user, p, c) ELSE tickets[t]]
  BY DEF CreateTicket
<1>3. \A d : Dated(d)' <=> Dated(d)
  BY <1>1 DEF Dated
<1>4. Dated(NewTicket(req[r].user, p, c))
  BY DEF Dated, NewTicket, Never, IInv, TypeOK
<1>5. \A t \in Stored' : Dated(tickets'[t])
  BY <1>2, <1>4 DEF DatesInOrder, Stored
<1>6. ASSUME NEW x \in Requests PROVE IsDating(req[x])'
  <2>1. CASE x = r
    BY <1>1, <2>1 DEF IsDating
  <2>2. CASE x # r
    <3>1. req'[x] = req[x] /\ IsDating(req[x])
      BY <1>1, <2>2 DEF DatesInOrder
    <3>2. ASSUME req[x].phase = "save" PROVE tickets'[req[x].ticket] = tickets[req[x].ticket]
      <4>1. req[x].ticket \in Stored
        BY <3>2, RequestShape DEF IInv, TypeOK, IsSaving
      <4> QED
        BY <1>1, <1>2, <4>1 DEF Stored
    <3> QED
      BY <1>1, <1>3, <3>1, <3>2 DEF IsDating
  <2> QED
    BY <2>1, <2>2
<1> QED
  BY <1>3, <1>5, <1>6 DEF DatesInOrder

\* Time passes: no date gets ahead of it.
LEMMA DatesTick ==
    ASSUME IInv, DatesInOrder, Tick
    PROVE  DatesInOrder'
<1>1. now' = now + 1 /\ now \in Nat /\ UNCHANGED <<tickets, req>>
  BY DEF Tick, IInv, TypeOK
<1>2. \A d : Dated(d) /\ d.assignedAt \in Nat /\ d.acceptedAt \in Nat => Dated(d)'
  BY <1>1 DEF Dated
<1>3. \A t \in Stored : Dated(tickets[t])'
  BY <1>1, <1>2, TicketFields DEF DatesInOrder, IInv, TypeOK
<1>4. ASSUME NEW r \in Requests PROVE IsDating(req[r])'
  <2>1. ASSUME req[r].phase = "save"
        PROVE  Dated(Written(tickets[req[r].ticket], req[r].set, req[r].push))'
    <3> DEFINE e == Written(tickets[req[r].ticket], req[r].set, req[r].push)
    <3>1. /\ req[r].ticket \in Stored /\ IsPatch(req[r].set) /\ req[r].push \in Seq(Users)
          /\ "rejectionHistory" \notin DOMAIN req[r].set
      BY <2>1, RequestShape DEF IInv, TypeOK, IsSaving
    <3>2. IsTicket(e)
      BY <3>1, WrittenType DEF IInv, TypeOK
    <3>3. Dated(e)
      BY <2>1 DEF DatesInOrder, IsDating
    <3>4. e' = e
      BY <1>1 DEF Written, Assign
    <3> HIDE DEF e
    <3>5. e.assignedAt \in Nat /\ e.acceptedAt \in Nat
      BY <3>2, TicketFields
    <3>6. Dated(e)'
      BY <1>2, <3>3, <3>4, <3>5
    <3> QED
      BY <3>6 DEF e
  <2>2. ASSUME req[r].phase = "find", "assignedAt" \in DOMAIN req[r].body
        PROVE  req[r].body.assignedAt <= now'
    <3>1. IsPatch(req[r].body)
      BY <2>2, RequestShape DEF IInv, TypeOK, IsWaiting
    <3>2. req[r].body.assignedAt \in Nat
      BY <2>2, <3>1, FieldTypes DEF IsPatch
    <3> QED
      BY <1>1, <2>2, <3>2 DEF DatesInOrder, IsDating
  <2> QED
    BY <1>1, <2>1, <2>2 DEF IsDating
<1> QED
  BY <1>1, <1>3, <1>4 DEF DatesInOrder, Stored

LEMMA NextDates ==
    ASSUME IInv, RightsAreKept, DatesInOrder, NoSaveRace, [Next]_vars
    PROVE  DatesInOrder'
<1>1. ASSUME NEW r \in Requests, Arrive(r)
      PROVE  DatesInOrder'
  <2>1. PICK phase, op, t : Receive(r, phase, op, t) /\ phase # "save"
    BY <1>1 DEF Arrive, ReceiveCreate, ReceiveUpdate, ReceiveAssign, ReceiveAccept,
                ReceiveReject, ReceiveDelete
  <2>2. PICK u \in Users : Become(r, Waiting(phase, op, u, accounts[u].role, t, NoBody))
    BY <2>1 DEF Receive
  <2>3. IsDating(Waiting(phase, op, u, accounts[u].role, t, NoBody))
    BY <2>1 DEF IsDating, Waiting, NoBody
  <2> QED
    BY <2>1, <2>2, <2>3, DatesQuietStep DEF Receive, Elsewhere
<1>2. ASSUME NEW r \in Requests, GetTicketById(r)
      PROVE  DatesInOrder'
  <2>1. IsDating(Waiting("find", "update", req[r].user, req[r].role, req[r].ticket, NoBody))
    BY DEF IsDating, Waiting, NoBody
  <2> QED
    BY <1>2, <2>1, DatesQuietStep, DatesIdle DEF GetTicketById, Refuse, Elsewhere
<1>3. ASSUME NEW r \in Requests, AssignTicket(r)
      PROVE  DatesInOrder'
  <2>1. UNCHANGED <<tickets, now>>
    BY <1>3 DEF AssignTicket, Refuse, Elsewhere
  <2>2. \A agent : IsDating(Waiting("find", "assign", req[r].user, req[r].role, req[r].ticket,
                                    Assignment(agent)))
    BY DEF IsDating, Waiting, Assignment, IInv, TypeOK
  <2> QED
    BY <1>3, <2>1, <2>2, DatesQuietStep, DatesIdle DEF AssignTicket, Refuse
<1>4. ASSUME NEW r \in Requests, Audit(r) \/ AuditFails(r) \/ RequestFails(r)
      PROVE  DatesInOrder'
  BY <1>4, DatesIdle DEF Audit, AuditFails, RequestFails, Elsewhere
<1>5. CASE ChangeAccount \/ UNCHANGED vars
  <2>1. UNCHANGED <<tickets, req, now>>
    BY <1>5 DEF ChangeAccount, vars
  <2>2. \A d : Dated(d)' <=> Dated(d)
    BY <2>1 DEF Dated
  <2>3. \A r \in Requests : IsDating(req[r])' <=> IsDating(req[r])
    BY <2>1, <2>2 DEF IsDating
  <2> QED
    BY <2>1, <2>2, <2>3 DEF DatesInOrder, Stored
<1> QED
  BY <1>1, <1>2, <1>3, <1>4, <1>5, DatesUpdate, DatesDecide, DatesWrite, DatesCreate, DatesTick
  DEF Next, Handle

\* THEOREM: as long as no two saves of one ticket are under way at once, the
\* response times in the report are times.
THEOREM ResponseTimesCorrect == Spec /\ []NoSaveRace => []ResponseTimesAreTimes
<1> DEFINE RInv == IInv /\ RightsAreKept /\ Documents /\ DatesInOrder
<1>1. Init => RInv
  <2> SUFFICES ASSUME Init PROVE RInv
    OBVIOUS
  <2>1. Stored = {} /\ \A r \in Requests : req[r].phase = "idle"
    BY DEF Init, Stored, Idle
  <2>2. DatesInOrder
    BY <2>1 DEF DatesInOrder, IsDating
  <2> QED
    BY <2>1, <2>2, InitIInv, InitRights, FS_EmptySet DEF Documents, IInv
<1>2. RInv /\ NoSaveRace /\ [Next]_vars => RInv'
  BY NextIInv, NextRights, NextDocuments, NextDates
<1>3. RInv => ResponseTimesAreTimes
  <2> SUFFICES ASSUME RInv, NEW P \in SUBSET Stored, NEW u \in Agents(P),
                      NEW hours \in AgentRow(u, P).response,
                      \A t \in Answered(u, P) : tickets[t].acceptanceStatus = "accepted"
               PROVE  hours >= 0
    BY DEF ResponseTimesAreTimes
  <2> DEFINE T == Answered(u, P)
             g == [t \in T |-> tickets[t]["acceptedAt"] - tickets[t]["assignedAt"]]
  <2>1. T # {} /\ hours = SumFunction(g) \div Cardinality(T)
    BY DEF AgentRow, Average, Total
  <2>2. ASSUME NEW t \in T
        PROVE  g[t] \in Int /\ g[t] >= 0
    <3>1. t \in Stored /\ tickets[t].acceptanceStatus = "accepted"
      BY DEF Answered, Reported, Kept
    <3>2. tickets[t].assignedAt \in Nat /\ tickets[t].acceptedAt \in Nat
      BY <3>1, TicketFields DEF IInv, TypeOK
    <3>3. tickets[t].assignedAt <= tickets[t].acceptedAt
      BY <3>1 DEF DatesInOrder, Dated
    <3> QED
      BY <3>2, <3>3
  <2>3. IsFiniteSet(T) /\ Cardinality(T) \in Nat
    BY Counts DEF Answered, Reported
  <2>4. g = [t \in T |-> g[t]]
    OBVIOUS
  <2> HIDE DEF T, g
  <2>5. g \in [T -> Int]
    BY <2>2, <2>4
  <2>6. SumFunction(g) \in Nat
    BY <2>2, <2>3, <2>5, SumNotNegative
  <2>7. Cardinality(T) > 0
    BY <2>1, <2>3, FS_EmptySet
  <2>8. \A m \in Nat, n \in Nat : n > 0 => m \div n >= 0
    OBVIOUS
  <2> QED
    BY <2>1, <2>3, <2>6, <2>7, <2>8
<1> QED
  BY <1>1, <1>2, <1>3, PTL DEF Spec

=============================================================================
