-------------------------- MODULE AuthoringProofs --------------------------
(***************************************************************************)
(* For any documents, planners, pages and refusals: what the tool makes of *)
(* a document, and what planners that read meanwhile make of the issues.   *)
(* And for any files, chats, branches, proposals, pushes and failing       *)
(* requests: a PR shows what its chat proposed, and a merge loses nothing. *)
(*                                                                         *)
(* A plan may be stale when it is committed.  It is right all the same,    *)
(* because an issue only refers to older ones and a planner that has read  *)
(* an issue has read all older ones: the layer it finds is the length of   *)
(* the longest chain of blockers among all issues, which no later issue    *)
(* changes.                                                                *)
(*                                                                         *)
(* The changes of the repository are right because a call keeps one commit *)
(* of main as parent and as base of its tree, and because a branch, once   *)
(* made, never moves: the commit of a call and that of a PR differ from    *)
(* their parent exactly in the files proposed, since the content proposed  *)
(* is on main nowhere before the merge.                                    *)
(***************************************************************************)
EXTENDS MCAuthoring, BatchAlgorithmProofs, SequenceTheorems

-----------------------------------------------------------------------------
(* The order of a document.                                                *)

(* A document whose bodies refer only to what it defines.                  *)
IsDocument(doc) == IsGraph(doc) /\ DOMAIN doc \subseteq Nat

(* Nothing is repeated, and what a codename refers to comes before it.     *)
IsOrdering(doc, q) ==
  /\ q \in Seq(DOMAIN doc)
  /\ \A j, k \in 1 .. Len(q) : q[j] = q[k] => j = k
  /\ \A k \in 1 .. Len(q) : \A d \in doc[q[k]] :
       \E j \in 1 .. Len(q) : j < k /\ q[j] = d

Members(q) == {q[k] : k \in 1 .. Len(q)}

OrderState(doc) ==
  [ordered : Seq(DOMAIN doc), in_degree : [DOMAIN doc -> Int],
   ready : SUBSET DOMAIN doc]

(* The counters count what is not ordered yet, and ready is what waits for *)
(* nothing any more.                                                       *)
ExactOrder(doc, s) ==
  /\ s \in OrderState(doc)
  /\ IsOrdering(doc, s.ordered)
  /\ IsFiniteSet(Members(s.ordered))
  /\ Cardinality(Members(s.ordered)) = Len(s.ordered)
  /\ s.in_degree = [c \in DOMAIN doc |-> Cardinality(doc[c] \ Members(s.ordered))]
  /\ s.ready = {c \in DOMAIN doc \ Members(s.ordered) :
                  doc[c] \subseteq Members(s.ordered)}

(* The first of the sorted list `ready'.                                   *)
LEMMA LeastIsMember ==
  ASSUME NEW S \in SUBSET Nat, S # {} PROVE Least(S) \in S
<1>1. \E m \in S : \A n \in S : m <= n
  BY LeastNumber
<1>2. QED
  BY <1>1 DEF Least

(* What a codename refers to besides some others can be counted.           *)
LEMMA ReferencesCounted ==
  ASSUME NEW doc, IsDocument(doc), NEW c \in DOMAIN doc, NEW S
  PROVE  /\ IsFiniteSet(doc[c] \ S)
         /\ Cardinality(doc[c] \ S) \in Nat
         /\ Cardinality(doc[c] \ S) = 0 <=> doc[c] \subseteq S
<1>1. doc[c] \ S \in SUBSET DOMAIN doc /\ IsFiniteSet(DOMAIN doc)
  BY DEF IsDocument, IsGraph
<1>2. IsFiniteSet(doc[c] \ S)
  BY <1>1, FS_Subset
<1>3. QED
  BY <1>2, FS_CardinalityType, FS_EmptySet

LEMMA OrderStarts ==
  ASSUME NEW doc, IsDocument(doc)
  PROVE  ExactOrder(doc, OrderStart(doc))
<1> DEFINE s == OrderStart(doc)
<1>1. s = [ordered |-> <<>>,
           in_degree |-> [c \in DOMAIN doc |-> Cardinality(doc[c])],
           ready |-> {c \in DOMAIN doc : doc[c] = {}}]
  BY DEF OrderStart, Defined
<1>2. s.ordered = <<>> /\ Len(s.ordered) = 0 /\ s.ordered \in Seq(DOMAIN doc)
  BY <1>1
<1>3. Members(s.ordered) = {}
  BY <1>2 DEF Members
<1>4. IsOrdering(doc, s.ordered)
  BY <1>2 DEF IsOrdering
<1>5. \A c \in DOMAIN doc : doc[c] \ {} = doc[c] /\ Cardinality(doc[c]) \in Int
  <2> TAKE c \in DOMAIN doc
  <2>1. Cardinality(doc[c] \ {}) \in Nat
    BY ReferencesCounted
  <2>2. doc[c] \ {} = doc[c]
    OBVIOUS
  <2>3. QED
    BY <2>1, <2>2
<1>6. s \in OrderState(doc)
  BY <1>1, <1>5 DEF OrderState
<1>7. IsFiniteSet({}) /\ Cardinality({}) = 0
  BY FS_EmptySet
<1> HIDE DEF s
<1>8. s.in_degree = [c \in DOMAIN doc |-> Cardinality(doc[c] \ {})]
  BY <1>1, <1>5
<1>9. s.ready = {c \in DOMAIN doc \ {} : doc[c] \subseteq {}}
  BY <1>1
<1>10. QED
  BY <1>2, <1>3, <1>4, <1>6, <1>7, <1>8, <1>9 DEF ExactOrder, s

(* One round: the new member had all its references ordered, and nobody's  *)
(* counter is off.                                                         *)
LEMMA PopKeepsOrder ==
  ASSUME NEW doc, IsDocument(doc), NEW s, ExactOrder(doc, s), s.ready # {}
  PROVE  /\ ExactOrder(doc, Pop(doc, s))
         /\ Len(Pop(doc, s).ordered) = Len(s.ordered) + 1
<1> DEFINE c == Least(s.ready)
           q == s.ordered
           O == Members(q)
           deg == [d \in DOMAIN doc |->
                     s.in_degree[d] - (IF c \in doc[d] THEN 1 ELSE 0)]
           released == {d \in DOMAIN doc : c \in doc[d] /\ deg[d] = 0}
           t == Pop(doc, s)
<1>1. s \in OrderState(doc) /\ q \in Seq(DOMAIN doc) /\ s.ready \in SUBSET DOMAIN doc
  BY DEF ExactOrder, OrderState
<1>2. c \in s.ready
  BY <1>1, LeastIsMember DEF IsDocument
<1>3. c \in DOMAIN doc /\ c \notin O /\ doc[c] \subseteq O
  BY <1>2 DEF ExactOrder
<1>4. t = [ordered |-> Append(q, c), in_degree |-> deg,
           ready |-> (s.ready \ {c}) \cup released]
  BY DEF Pop, Defined
<1>5. /\ Append(q, c) \in Seq(DOMAIN doc)
      /\ Len(q) \in Nat /\ Len(Append(q, c)) = Len(q) + 1
      /\ \A k \in 1 .. Len(q) : Append(q, c)[k] = q[k]
      /\ Append(q, c)[Len(q) + 1] = c
  BY <1>1, <1>3
<1>6. Members(Append(q, c)) = O \cup {c}
  <2>1. 1 .. Len(q) + 1 = (1 .. Len(q)) \cup {Len(q) + 1}
    BY <1>5
  <2>2. QED
    BY <1>5, <2>1 DEF Members
<1>7. IsOrdering(doc, Append(q, c))
  <2>1. ASSUME NEW j \in 1 .. Len(q) + 1, NEW k \in 1 .. Len(q) + 1,
               Append(q, c)[j] = Append(q, c)[k]
        PROVE  j = k
    <3>1. \A i \in 1 .. Len(q) : q[i] # c
      BY <1>3 DEF Members
    <3>2. j \in 1 .. Len(q) \/ j = Len(q) + 1
      BY <1>5
    <3>3. k \in 1 .. Len(q) \/ k = Len(q) + 1
      BY <1>5
    <3>4. QED
      BY <1>5, <2>1, <3>1, <3>2, <3>3 DEF ExactOrder, IsOrdering
  <2>2. ASSUME NEW k \in 1 .. Len(q) + 1, NEW d \in doc[Append(q, c)[k]]
        PROVE  \E j \in 1 .. Len(q) + 1 : j < k /\ Append(q, c)[j] = d
    <3>1. CASE k \in 1 .. Len(q)
      <4>1. PICK j \in 1 .. Len(q) : j < k /\ q[j] = d
        BY <1>5, <3>1 DEF ExactOrder, IsOrdering
      <4>2. QED
        BY <1>5, <4>1
    <3>2. CASE k = Len(q) + 1
      <4>1. PICK j \in 1 .. Len(q) : q[j] = d
        BY <1>3, <1>5, <3>2 DEF Members
      <4>2. QED
        BY <1>5, <3>2, <4>1
    <3>3. QED
      BY <1>5, <3>1, <3>2
  <2>3. QED
    BY <1>5, <2>1, <2>2 DEF IsOrdering
<1>8. /\ IsFiniteSet(O \cup {c})
      /\ Cardinality(O \cup {c}) = Len(q) + 1
  BY <1>3, FS_AddElement DEF ExactOrder
<1>9. ASSUME NEW d \in DOMAIN doc
      PROVE  deg[d] = Cardinality(doc[d] \ (O \cup {c}))
  <2> DEFINE W == doc[d] \ O
  <2>1. deg[d] = Cardinality(W) - (IF c \in doc[d] THEN 1 ELSE 0)
    BY DEF ExactOrder
  <2>2. doc[d] \ (O \cup {c}) = W \ {c}
    OBVIOUS
  <2>3. IsFiniteSet(W) /\ Cardinality(W) \in Nat
    BY ReferencesCounted
  <2>4. c \in doc[d] <=> c \in W
    BY <1>3
  <2>5. CASE c \in W
    <3>1. Cardinality(W \ {c}) = Cardinality(W) - 1
      BY <2>3, <2>5, FS_RemoveElement
    <3>2. QED
      BY <2>1, <2>2, <2>4, <2>5, <3>1
  <2>6. CASE c \notin W
    <3>1. doc[d] \ (O \cup {c}) = W
      BY <2>2, <2>6
    <3>2. c \notin doc[d]
      BY <2>4, <2>6
    <3>3. deg[d] = Cardinality(W)
      <4> HIDE DEF W, c, deg
      <4>1. QED
        BY <2>1, <2>3, <3>2
    <3>4. QED
      BY <3>1, <3>3
  <2>7. QED
    BY <2>5, <2>6
<1>10. deg = [d \in DOMAIN doc |-> Cardinality(doc[d] \ (O \cup {c}))]
  BY <1>9
<1>11. \A d \in DOMAIN doc : Cardinality(doc[d] \ (O \cup {c})) \in Nat
                             /\ (Cardinality(doc[d] \ (O \cup {c})) = 0
                                   <=> doc[d] \subseteq O \cup {c})
  BY ReferencesCounted
<1>12. released = {d \in DOMAIN doc : c \in doc[d] /\ doc[d] \subseteq O \cup {c}}
  BY <1>9, <1>11
<1>13. \A d \in DOMAIN doc : d \in O => doc[d] \subseteq O
  <2> TAKE d \in DOMAIN doc
  <2> HAVE d \in O
  <2>1. PICK k \in 1 .. Len(q) : q[k] = d
    BY DEF Members
  <2>2. \A e \in doc[d] : \E j \in 1 .. Len(q) : q[j] = e
    BY <2>1 DEF ExactOrder, IsOrdering
  <2>3. QED
    BY <2>2 DEF Members
<1>14. s.ready = {d \in DOMAIN doc \ O : doc[d] \subseteq O}
  BY DEF ExactOrder
<1>15. (s.ready \ {c}) \cup released
         = {d \in DOMAIN doc \ (O \cup {c}) : doc[d] \subseteq O \cup {c}}
  <2> HIDE DEF O, c, released
  <2>1. QED
    BY <1>3, <1>12, <1>13, <1>14
<1>16. t \in OrderState(doc)
  <2>1. deg \in [DOMAIN doc -> Int]
    <3> HIDE DEF O, c, deg
    <3>1. QED
      BY <1>10, <1>11
  <2>2. (s.ready \ {c}) \cup released \in SUBSET DOMAIN doc
    BY <1>1
  <2> HIDE DEF deg, released, c, q
  <2>3. QED
    BY <1>4, <1>5, <2>1, <2>2 DEF OrderState
<1>17. QED
  <2> HIDE DEF deg, released, c, q, O, t
  <2>1. t.ordered = Append(q, c) /\ t.in_degree = deg
        /\ t.ready = (s.ready \ {c}) \cup released
    BY <1>4
  <2>2. Members(t.ordered) = O \cup {c}
    BY <1>6, <2>1
  <2>3. ExactOrder(doc, t)
    BY <1>5, <1>7, <1>8, <1>10, <1>15, <1>16, <2>1, <2>2 DEF ExactOrder
  <2>4. QED
    BY <1>5, <2>1, <2>3 DEF t, q

-----------------------------------------------------------------------------
(* The rounds of topological_order, one after another.                     *)
LEMMA OrderRoundsUnfold ==
  ASSUME NEW doc, IsDocument(doc), NEW N \in Nat
  PROVE  /\ OrderRounds(doc, N)[0] = OrderStart(doc)
         /\ \A k \in 1 .. N : OrderRounds(doc, N)[k]
                                = Pop(doc, OrderRounds(doc, N)[k - 1])
<1> DEFINE X == {s \in OrderState(doc) : ExactOrder(doc, s)}
           start == OrderStart(doc)
           step == [s \in X |-> Pop(doc, s)]
           Unfolds(f) == f = [k \in 0 .. N |-> IF k = 0 THEN OrderStart(doc)
                                               ELSE Pop(doc, f[k - 1])]
<1>1. start \in X
  BY OrderStarts DEF ExactOrder
<1>2. ASSUME NEW s \in X PROVE Pop(doc, s) \in X
  <2>1. CASE s.ready = {}
    BY <2>1 DEF Pop
  <2>2. CASE s.ready # {}
    <3>1. ExactOrder(doc, Pop(doc, s))
      BY <2>2, PopKeepsOrder
    <3>2. QED
      BY <3>1 DEF ExactOrder
  <2>3. QED
    BY <2>1, <2>2
<1>3. IsStep(step, X)
  <2> HIDE DEF X
  <2>1. QED
    BY <1>2 DEF IsStep
<1>4. PICK g \in [0 .. N -> X] : /\ g[0] = start
                                 /\ \A k \in 1 .. N : g[k] = step[g[k - 1]]
  <2>1. \E g : Repeats(g, X, start, step, N)
    <3> HIDE DEF X, start, step
    <3>1. QED
      BY <1>1, <1>3, Iterated
  <2> HIDE DEF X, start, step
  <2>2. QED
    BY <2>1 DEF Repeats
<1>5. \A k \in 1 .. N : k - 1 \in 0 .. N /\ k \in 0 .. N /\ k # 0
  OBVIOUS
<1>6. \A k \in 1 .. N : g[k] = Pop(doc, g[k - 1])
  <2> HIDE DEF X
  <2>1. QED
    BY <1>4, <1>5
<1>7. Unfolds(g)
  <2>1. \A k \in 0 .. N : k = 0 \/ k \in 1 .. N
    OBVIOUS
  <2> HIDE DEF X
  <2>2. QED
    BY <1>4, <1>6, <2>1
<1>8. Unfolds(OrderRounds(doc, N))
  BY <1>7 DEF OrderRounds
<1> DEFINE f == OrderRounds(doc, N)
<1>9. QED
  <2>1. 0 \in 0 .. N
    OBVIOUS
  <2> HIDE DEF f
  <2>2. f = [k \in 0 .. N |-> IF k = 0 THEN OrderStart(doc) ELSE Pop(doc, f[k - 1])]
    BY <1>8 DEF f
  <2>3. f[0] = OrderStart(doc) /\ \A k \in 1 .. N : f[k] = Pop(doc, f[k - 1])
    BY <1>5, <2>1, <2>2
  <2>4. QED
    BY <2>3 DEF f

(* Each round orders one more, until nothing is ready.                     *)
LEMMA OrderAfterRounds ==
  ASSUME NEW doc, IsDocument(doc), NEW N \in Nat
  PROVE  /\ ExactOrder(doc, OrderRounds(doc, N)[N])
         /\ \/ Len(OrderRounds(doc, N)[N].ordered) = N
            \/ OrderRounds(doc, N)[N].ready = {}
<1> DEFINE f == OrderRounds(doc, N)
           Holds(k) == /\ ExactOrder(doc, f[k])
                       /\ Len(f[k].ordered) = k \/ f[k].ready = {}
           S == {k \in 0 .. N : Holds(k)}
<1>1. f[0] = OrderStart(doc) /\ \A k \in 1 .. N : f[k] = Pop(doc, f[k - 1])
  BY OrderRoundsUnfold
<1> HIDE DEF f
<1>2. 0 \in S
  <2>1. Len(f[0].ordered) = 0
    BY <1>1 DEF OrderStart
  <2>2. QED
    BY <1>1, <2>1, OrderStarts
<1>3. ASSUME NEW k \in 0 .. N, k \in S, k < N PROVE k + 1 \in S
  <2>1. k + 1 \in 1 .. N /\ k + 1 \in 0 .. N /\ (k + 1) - 1 = k
    BY <1>3
  <2>2. f[k + 1] = Pop(doc, f[k])
    BY <1>1, <2>1
  <2>3. CASE f[k].ready = {}
    <3>1. f[k + 1] = f[k]
      BY <2>2, <2>3 DEF Pop
    <3>2. QED
      BY <1>3, <2>1, <2>3, <3>1
  <2>4. CASE f[k].ready # {}
    <3>1. ExactOrder(doc, f[k]) /\ Len(f[k].ordered) = k
      BY <1>3, <2>4
    <3>2. ExactOrder(doc, f[k + 1]) /\ Len(f[k + 1].ordered) = k + 1
      BY <2>2, <2>4, <3>1, PopKeepsOrder
    <3>3. QED
      BY <2>1, <3>2
  <2>5. QED
    BY <2>3, <2>4
<1>4. 0 .. N \subseteq S
  <2> HIDE DEF S
  <2>1. QED
    BY <1>2, <1>3, CountingTo
<1>5. Holds(N)
  BY <1>4
<1>6. QED
  BY <1>5 DEF f

(* What topological_order returns is in order, and complete but for codenames *)
(* that wait for each other.                                               *)
LEMMA OrderedIsOrdering ==
  ASSUME NEW doc, IsDocument(doc), NEW q, q = Ordered(doc)
  PROVE  /\ IsOrdering(doc, q)
         /\ Members(q) \in SUBSET DOMAIN doc
         /\ Len(q) = Cardinality(DOMAIN doc) <=> Members(q) = DOMAIN doc
         /\ Members(q) # DOMAIN doc => Circular(doc)
<1> DEFINE N == Cardinality(DOMAIN doc)
           s == OrderRounds(doc, N)[N]
           O == Members(q)
<1>1. N \in Nat /\ IsFiniteSet(DOMAIN doc)
  BY FS_CardinalityType DEF IsDocument, IsGraph
<1>2. q = s.ordered
  BY DEF Ordered, Defined
<1>3. /\ ExactOrder(doc, s)
      /\ Len(s.ordered) = N \/ s.ready = {}
  BY <1>1, OrderAfterRounds
<1> HIDE DEF s, N
<1>4. IsOrdering(doc, q) /\ IsFiniteSet(O) /\ Cardinality(O) = Len(q)
      /\ s.ready = {c \in DOMAIN doc \ O : doc[c] \subseteq O}
  BY <1>2, <1>3 DEF ExactOrder
<1>5. O \in SUBSET DOMAIN doc
  <2>1. \A k \in 1 .. Len(q) : q[k] \in DOMAIN doc
    BY <1>4 DEF IsOrdering
  <2>2. QED
    BY <2>1 DEF Members
<1>6. Cardinality(O) = N => O = DOMAIN doc
  BY <1>1, <1>5, FS_Subset DEF N
<1>7. O # DOMAIN doc => Circular(doc)
  <2> HAVE O # DOMAIN doc
  <2>1. s.ready = {}
    BY <1>2, <1>3, <1>4, <1>6
  <2>2. \A c \in DOMAIN doc \ O : doc[c] \cap (DOMAIN doc \ O) # {}
    <3> TAKE c \in DOMAIN doc \ O
    <3>1. ~ (doc[c] \subseteq O) /\ doc[c] \in SUBSET DOMAIN doc
      BY <1>4, <2>1 DEF IsDocument, IsGraph
    <3>2. QED
      BY <3>1
  <2>3. DOMAIN doc \ O \in (SUBSET Defined(doc)) \ {{}}
    BY <1>5 DEF Defined
  <2>4. QED
    BY <2>2, <2>3 DEF Circular
<1>8. O = DOMAIN doc => Len(q) = N
  BY <1>4 DEF N
<1>9. QED
  BY <1>4, <1>5, <1>6, <1>7, <1>8 DEF N

(* Codenames that wait for each other have no order: none of them can be   *)
(* the first.                                                              *)
LEMMA CircularHasNoOrder ==
  ASSUME NEW doc, NEW q, IsOrdering(doc, q), Members(q) = DOMAIN doc
  PROVE  ~ Circular(doc)
<1> SUFFICES ASSUME NEW S \in SUBSET DOMAIN doc, S # {},
                    \A c \in S : doc[c] \cap S # {}
             PROVE  FALSE
  BY DEF Circular, Defined
<1> DEFINE At == {k \in 1 .. Len(q) : q[k] \in S}
<1>1. At \in SUBSET Nat /\ At # {}
  <2>1. Len(q) \in Nat
    BY DEF IsOrdering
  <2>2. PICK c \in S : TRUE
    OBVIOUS
  <2>3. PICK k \in 1 .. Len(q) : q[k] = c
    BY DEF Members
  <2>4. QED
    BY <2>1, <2>3
<1>2. PICK k \in At : \A j \in At : k <= j
  <2> HIDE DEF At
  <2>1. QED
    BY <1>1, LeastNumber
<1>3. PICK d \in doc[q[k]] \cap S : TRUE
  OBVIOUS
<1>4. PICK j \in 1 .. Len(q) : j < k /\ q[j] = d
  BY <1>3 DEF IsOrdering
<1>5. j \in At /\ Len(q) \in Nat
  BY <1>3, <1>4 DEF IsOrdering
<1>6. QED
  BY <1>2, <1>4, <1>5

(* The initial states choose among documents only.                         *)
LEMMA DocumentForms ==
  ASSUME NEW doc \in Documents
  PROVE  /\ DOMAIN doc \in SUBSET Codenames /\ DOMAIN doc # {}
         /\ IsFiniteSet(DOMAIN doc)
         /\ doc = [c \in DOMAIN doc |-> doc[c]]
         /\ \A c \in DOMAIN doc : doc[c] \in SUBSET (DOMAIN doc \cup {Unknown})
         /\ Parses(doc) => IsDocument(doc)
<1>1. PICK S \in (SUBSET Codenames) \ {{}} : doc \in [S -> SUBSET (S \cup {Unknown})]
  BY DEF Documents
<1>2. DOMAIN doc = S /\ doc = [c \in DOMAIN doc |-> doc[c]]
  BY <1>1
<1>3. IsFiniteSet(S)
  BY FS_Subset, CodenamesAssumption
<1>4. Parses(doc) => IsDocument(doc)
  BY <1>1, <1>2, <1>3, CodenamesAssumption DEF Parses, Defined, IsDocument, IsGraph
<1>5. QED
  BY <1>1, <1>2, <1>3, <1>4

(* Of every document.                                                      *)
LEMMA AcceptedIffOrderable ==
  ASSUME NEW doc \in Documents
  PROVE  Accepted(doc) <=> (Parses(doc) /\ ~ Circular(doc))
<1>1. CASE ~ Parses(doc)
  BY <1>1 DEF Accepted
<1>2. CASE Parses(doc)
  <2>1. IsDocument(doc)
    BY <1>2, DocumentForms
  <2>2. /\ IsOrdering(doc, Ordered(doc))
        /\ Len(Ordered(doc)) = Cardinality(DOMAIN doc)
             <=> Members(Ordered(doc)) = DOMAIN doc
        /\ Members(Ordered(doc)) # DOMAIN doc => Circular(doc)
    BY <2>1, OrderedIsOrdering
  <2>3. Accepted(doc) <=> Members(Ordered(doc)) = DOMAIN doc
    BY <1>2, <2>2 DEF Accepted, Defined
  <2>4. Members(Ordered(doc)) = DOMAIN doc => ~ Circular(doc)
    BY <2>2, CircularHasNoOrder
  <2>5. QED
    BY <1>2, <2>2, <2>3, <2>4
<1>3. QED
  BY <1>1, <1>2

-----------------------------------------------------------------------------
(* Chains of blockers among the issues on GitHub.                          *)

Bodies == [codename : Codenames, blocked_by : SUBSET Nat,
           left : SUBSET (Codenames \cup {Unknown})]

BlockersOf(list) == [n \in 1 .. Len(list) |-> list[n].blocked_by]

(* The longest chain of blockers in front of n is m long.                  *)
Deep(list, n, m) ==
  /\ m \in Nat
  /\ Chained(BlockersOf(list), n, m)
  /\ \A k \in Nat : Chained(BlockersOf(list), n, k) => k <= m

(* Chains that cannot leave a part of the graph are the chains of that part. *)
LEMMA ChainsStayInside ==
  ASSUME NEW deps, NEW part, DOMAIN part \subseteq DOMAIN deps,
         \A m \in DOMAIN part :
           part[m] = deps[m] /\ deps[m] \subseteq DOMAIN part,
         NEW n \in DOMAIN part, NEW k \in Nat
  PROVE  Chained(part, n, k) <=> Chained(deps, n, k)
<1>1. Chained(part, n, k) => Chained(deps, n, k)
  BY FewerChains
<1>2. ASSUME Chained(deps, n, k) PROVE Chained(part, n, k)
  <2>1. PICK chain : IsChain(deps, chain, n, k)
    BY <1>2 DEF Chained
  <2>2. /\ chain \in [0 .. k -> DOMAIN deps] /\ chain[0] = n
        /\ \A j \in 1 .. k : chain[j] \in deps[chain[j - 1]]
    BY <2>1 DEF IsChain
  <2> DEFINE S == {j \in 0 .. k : chain[j] \in DOMAIN part}
  <2>3. 0 \in S
    BY <2>2
  <2>4. ASSUME NEW j \in 0 .. k, j \in S, j < k PROVE j + 1 \in S
    <3>1. j + 1 \in 1 .. k /\ j + 1 \in 0 .. k /\ (j + 1) - 1 = j
      BY <2>4
    <3>2. chain[j + 1] \in deps[chain[j]] /\ chain[j] \in DOMAIN part
      BY <2>2, <2>4, <3>1
    <3>3. QED
      BY <3>1, <3>2
  <2>5. 0 .. k \subseteq S
    <3> HIDE DEF S
    <3>1. QED
      BY <2>3, <2>4, CountingTo
  <2>6. \A j \in 0 .. k : chain[j] \in DOMAIN part
    BY <2>5
  <2>7. \A j \in 1 .. k : chain[j] \in part[chain[j - 1]]
    <3> TAKE j \in 1 .. k
    <3>1. j - 1 \in 0 .. k
      OBVIOUS
    <3>2. QED
      BY <2>2, <2>6, <3>1
  <2>8. IsChain(part, chain, n, k)
    BY <2>2, <2>6, <2>7 DEF IsChain
  <2>9. QED
    BY <2>8 DEF Chained
<1>3. QED
  BY <1>1, <1>2

(* A new issue stands in front of none of the old ones.                    *)
LEMMA AppendKeepsDepth ==
  ASSUME NEW list \in Seq(Bodies), NEW b \in Bodies,
         \A n \in 1 .. Len(list) : list[n].blocked_by \subseteq 1 .. Len(list),
         NEW n \in 1 .. Len(list), NEW m, Deep(list, n, m)
  PROVE  Deep(Append(list, b), n, m)
<1> DEFINE new == Append(list, b)
           old == BlockersOf(list)
           deps == BlockersOf(new)
<1>1. /\ Len(list) \in Nat /\ Len(new) = Len(list) + 1
      /\ \A i \in 1 .. Len(list) : i \in 1 .. Len(new) /\ new[i] = list[i]
  OBVIOUS
<1>2. /\ DOMAIN old = 1 .. Len(list) /\ DOMAIN deps = 1 .. Len(new)
      /\ \A i \in DOMAIN old : old[i] = list[i].blocked_by
      /\ \A i \in DOMAIN deps : deps[i] = new[i].blocked_by
  BY DEF BlockersOf
<1> HIDE DEF new, old, deps
<1>3. DOMAIN old \subseteq DOMAIN deps
  BY <1>1, <1>2
<1>4. \A i \in DOMAIN old : old[i] = deps[i] /\ deps[i] \subseteq DOMAIN old
  BY <1>1, <1>2
<1>5. n \in DOMAIN old
  BY <1>2
<1>6. \A k \in Nat : Chained(old, n, k) <=> Chained(deps, n, k)
  BY <1>3, <1>4, <1>5, ChainsStayInside
<1>7. QED
  BY <1>6 DEF Deep, old, deps, new

(* A planner that read an issue and all that is before it finds the length *)
(* of its longest chain, whatever was created since.                       *)
LEMMA PlannedIsDeep ==
  ASSUME issues \in Seq(Bodies), NEW F \in SUBSET (1 .. Len(issues)),
         \A n \in F : issues[n].blocked_by \subseteq F,
         ~ Planned(F).cycle
  PROVE  /\ Planned(F).layer = [n \in F |-> Planned(F).layer[n]]
         /\ \A n \in F : Deep(issues, n, Planned(F).layer[n])
<1> DEFINE list == [n \in F |-> [state |-> "open", labels |-> {},
                                 blocked_by |-> issues[n].blocked_by]]
           part == WaitsFor(list)
           deps == BlockersOf(issues)
           layer == compute_layers(list).layer
<1>1. Planned(F) = compute_layers(list)
  BY DEF Planned
<1>2. \A n \in F : /\ list[n].state = "open" /\ list[n].labels = {}
                   /\ list[n].blocked_by = issues[n].blocked_by
  OBVIOUS
<1>3. DOMAIN list = F
  OBVIOUS
<1> HIDE DEF list
<1>4. filter_candidates(list) = F
  BY <1>2, <1>3 DEF filter_candidates
<1>5. IsFiniteSet(F)
  <2>1. IsFiniteSet(1 .. Len(issues))
    BY FS_Interval
  <2>2. QED
    BY <2>1, FS_Subset
<1>6. DOMAIN part = F /\ \A n \in F : part[n] = issues[n].blocked_by
  BY <1>2, <1>4 DEF WaitsFor
<1>7. DOMAIN deps = 1 .. Len(issues)
      /\ \A n \in 1 .. Len(issues) : deps[n] = issues[n].blocked_by
  BY DEF BlockersOf
<1>8. layer \in [F -> 0 .. Cardinality(F)]
  BY <1>3, <1>4, <1>5, LayersCountChains
<1>9. ASSUME NEW n \in F PROVE Deep(issues, n, layer[n])
  <2>1. /\ layer[n] \in Nat /\ Chained(part, n, layer[n])
        /\ \A k \in Nat : Chained(part, n, k) => k <= layer[n]
    BY <1>1, <1>3, <1>4, <1>5, LayerIsLongestChain
  <2> HIDE DEF part, deps, layer
  <2>2. \A k \in Nat : Chained(part, n, k) <=> Chained(deps, n, k)
    BY <1>6, <1>7, ChainsStayInside
  <2>3. QED
    BY <2>1, <2>2 DEF Deep, deps
<1>10. QED
  BY <1>1, <1>8, <1>9

(* A blocker is less deep than what it blocks.                             *)
LEMMA BlockerIsLessDeep ==
  ASSUME NEW list \in Seq(Bodies),
         \A n \in 1 .. Len(list) : list[n].blocked_by \subseteq 1 .. Len(list),
         NEW n \in 1 .. Len(list), NEW b \in list[n].blocked_by,
         NEW m, Deep(list, n, m), NEW l, Deep(list, b, l)
  PROVE  l < m
<1> DEFINE deps == BlockersOf(list)
<1>1. DOMAIN deps = 1 .. Len(list)
      /\ \A i \in 1 .. Len(list) : deps[i] = list[i].blocked_by
  BY DEF BlockersOf
<1>2. IsGraph(deps)
  <2>1. IsFiniteSet(1 .. Len(list))
    BY FS_Interval
  <2>2. deps = [i \in DOMAIN deps |-> deps[i]]
    BY DEF BlockersOf
  <2>3. QED
    BY <1>1, <2>1, <2>2 DEF IsGraph
<1>3. Chained(deps, b, l) /\ l \in Nat /\ m \in Nat
  BY DEF Deep
<1> HIDE DEF deps
<1>4. Chained(deps, n, l + 1)
  BY <1>1, <1>2, <1>3, ChainExtended
<1>5. l + 1 <= m
  BY <1>3, <1>4 DEF Deep, deps
<1>6. QED
  BY <1>3, <1>5

-----------------------------------------------------------------------------
(* The invariant of the tool and the planners.                             *)

(* An issue refers to older ones, one for each codename of its body.       *)
IssueFits(doc, list, n) ==
  /\ list[n].codename \in DOMAIN doc
  /\ list[n].left = {}
  /\ \A b \in list[n].blocked_by :
       b \in 1 .. n - 1 /\ list[b].codename \in doc[list[n].codename]
  /\ Cardinality(list[n].blocked_by) = Cardinality(doc[list[n].codename])

ListFits(doc, list) ==
  /\ list \in Seq(Bodies)
  /\ \A n \in 1 .. Len(list) : IssueFits(doc, list, n)

(* What is still to be created refers to what was created before or comes  *)
(* before it in the order, and the mapping names the issues of this run.   *)
ToolFits(doc, list, run) ==
  /\ run.pc \in {"idle", "create"}
  /\ run.pc = "idle" => run = NotRunning
  /\ run.pc = "create" =>
       /\ run = [pc |-> "create", order |-> run.order, mapping |-> run.mapping]
       /\ run.order \in Seq(DOMAIN doc) /\ run.order # <<>>
       /\ DOMAIN run.mapping \subseteq DOMAIN doc
       /\ \A k \in 1 .. Len(run.order) : run.order[k] \notin DOMAIN run.mapping
       /\ \A j, k \in 1 .. Len(run.order) : run.order[j] = run.order[k] => j = k
       /\ \A k \in 1 .. Len(run.order) : \A d \in doc[run.order[k]] :
            \/ d \in DOMAIN run.mapping
            \/ \E j \in 1 .. Len(run.order) : j < k /\ run.order[j] = d
       /\ \A c \in DOMAIN run.mapping :
            /\ run.mapping[c] \in 1 .. Len(list)
            /\ list[run.mapping[c]].codename = c

(* The layer of a row is the one any planner would find.                   *)
RowsFit(list, table) ==
  /\ table \subseteq [issue : 1 .. Len(list), layer : Nat, by : Planners]
  /\ \A r, s \in table : r.issue = s.issue => r = s
  /\ \A r \in table :
       /\ Deep(list, r.issue, r.layer)
       /\ \A b \in list[r.issue].blocked_by : \E s \in table : s.issue = b

(* Everything older than an issue that was fetched is fetched too or still *)
(* to come: nothing falls between two pages.                               *)
ScanFits(list, table, run) ==
  /\ run = [pc |-> run.pc, page |-> run.page, fetched |-> run.fetched,
            layer |-> run.layer, existing |-> run.existing]
  /\ run.pc \in {"idle", "fetch", "read", "commit"}
  /\ run.page \in Nat /\ run.fetched \in SUBSET (1 .. Len(list))
  /\ run.pc = "idle" => run = NotScanning
  /\ run.pc = "fetch" =>
       \A n \in run.fetched : \A m \in 1 .. n :
         m \in run.fetched \/ m <= Len(list) - run.page * PerPage
  /\ run.pc = "read" => \A n \in run.fetched : 1 .. n \subseteq run.fetched
  /\ run.pc = "commit" =>
       /\ run.layer = [n \in DOMAIN run.layer |-> run.layer[n]]
       /\ DOMAIN run.layer \subseteq 1 .. Len(list)
       /\ \A n \in DOMAIN run.layer :
            /\ list[n].blocked_by \subseteq DOMAIN run.layer
            /\ Deep(list, n, run.layer[n])
       /\ run.existing \subseteq {r.issue : r \in table}

CreatorInv ==
  /\ refs \in Documents
  /\ ListFits(refs, issues)
  /\ ToolFits(refs, issues, creator)
  /\ RowsFit(issues, rows)
  /\ scan = [p \in Planners |-> scan[p]]
  /\ \A p \in Planners : ScanFits(issues, rows, scan[p])
  /\ refusals \in 0 .. MaxRefusals

(* Blockers are on the list.                                               *)
LEMMA BlockersAreListed ==
  ASSUME NEW doc, NEW list, ListFits(doc, list)
  PROVE  /\ list \in Seq(Bodies) /\ Len(list) \in Nat
         /\ \A n \in 1 .. Len(list) : list[n].blocked_by \subseteq 1 .. Len(list)
<1>1. list \in Seq(Bodies) /\ Len(list) \in Nat
  BY DEF ListFits
<1>2. ASSUME NEW n \in 1 .. Len(list), NEW b \in list[n].blocked_by
      PROVE  b \in 1 .. Len(list)
  <2>1. b \in 1 .. n - 1
    BY DEF ListFits, IssueFits
  <2>2. QED
    BY <1>1, <2>1
<1>3. QED
  BY <1>1, <1>2

(* What a new issue leaves as it was.                                      *)
LEMMA ListGrows ==
  ASSUME NEW doc, NEW list, ListFits(doc, list), NEW b \in Bodies,
         NEW new, new = Append(list, b), IssueFits(doc, new, Len(list) + 1)
  PROVE  /\ ListFits(doc, new)
         /\ Len(new) = Len(list) + 1 /\ new[Len(list) + 1] = b
         /\ \A n \in 1 .. Len(list) : n \in 1 .. Len(new) /\ new[n] = list[n]
         /\ \A table : RowsFit(list, table) => RowsFit(new, table)
         /\ \A table, run : ScanFits(list, table, run) => ScanFits(new, table, run)
<1>0. /\ list \in Seq(Bodies) /\ Len(list) \in Nat
      /\ \A n \in 1 .. Len(list) : list[n].blocked_by \subseteq 1 .. Len(list)
  BY BlockersAreListed
<1>1. /\ new \in Seq(Bodies)
      /\ Len(new) = Len(list) + 1 /\ new[Len(list) + 1] = b
      /\ \A n \in 1 .. Len(list) : n \in 1 .. Len(new) /\ new[n] = list[n]
  BY <1>0
<1>2. \A n \in 1 .. Len(list) : \A m : Deep(list, n, m) => Deep(new, n, m)
  BY <1>0, AppendKeepsDepth
<1>3. ListFits(doc, new)
  <2> SUFFICES ASSUME NEW n \in 1 .. Len(list) PROVE IssueFits(doc, new, n)
    <3>1. \A n \in 1 .. Len(new) : n \in 1 .. Len(list) \/ n = Len(list) + 1
      BY <1>0, <1>1
    <3>2. QED
      BY <1>1, <3>1 DEF ListFits
  <2>1. IssueFits(doc, list, n) /\ new[n] = list[n]
    BY <1>1 DEF ListFits
  <2>2. \A i \in 1 .. n - 1 : i \in 1 .. Len(list)
    BY <1>0
  <2>3. \A i \in 1 .. n - 1 : new[i] = list[i]
    BY <1>1, <2>2
  <2>4. QED
    BY <2>1, <2>3 DEF IssueFits
<1>4. ASSUME NEW table, RowsFit(list, table) PROVE RowsFit(new, table)
  <2>1. table \subseteq [issue : 1 .. Len(list), layer : Nat, by : Planners]
    BY <1>4 DEF RowsFit
  <2>2. \A r \in table : /\ r.issue \in 1 .. Len(list)
                         /\ r \in [issue : 1 .. Len(new), layer : Nat, by : Planners]
    BY <1>1, <2>1
  <2>3. QED
    BY <1>1, <1>2, <1>4, <2>2 DEF RowsFit
<1>5. ASSUME NEW table, NEW run, ScanFits(list, table, run)
      PROVE  ScanFits(new, table, run)
  <2>1. run.fetched \in SUBSET (1 .. Len(new))
    BY <1>0, <1>1, <1>5 DEF ScanFits
  <2>2. ASSUME run.pc = "fetch", NEW n \in run.fetched, NEW m \in 1 .. n
        PROVE  m \in run.fetched \/ m <= Len(new) - run.page * PerPage
    <3>1. m \in run.fetched \/ m <= Len(list) - run.page * PerPage
      BY <1>5, <2>2 DEF ScanFits
    <3>2. run.page * PerPage \in Nat /\ n \in Nat
      <4>1. run.page \in Nat /\ PerPage \in Nat /\ n \in 1 .. Len(list)
        BY <1>5, CreatorBoundsAssumption DEF ScanFits
      <4>2. QED
        BY <4>1
    <3>3. QED
      BY <1>0, <1>1, <3>1, <3>2
  <2>3. ASSUME run.pc = "commit"
        PROVE  /\ DOMAIN run.layer \subseteq 1 .. Len(new)
               /\ \A n \in DOMAIN run.layer :
                    /\ new[n].blocked_by \subseteq DOMAIN run.layer
                    /\ Deep(new, n, run.layer[n])
    BY <1>1, <1>2, <1>5, <2>3 DEF ScanFits
  <2>4. QED
    BY <1>5, <2>1, <2>2, <2>3 DEF ScanFits
<1>6. QED
  BY <1>1, <1>3, <1>4, <1>5

(* A planner's run is not disturbed by new rows.                           *)
LEMMA ScanKeepsFitting ==
  ASSUME NEW list, NEW table, NEW more, NEW run, ScanFits(list, table, run),
         {r.issue : r \in table} \subseteq {r.issue : r \in more}
  PROVE  ScanFits(list, more, run)
<1>1. QED
  BY DEF ScanFits

-----------------------------------------------------------------------------
(* The steps of the tool.                                                  *)

LEMMA RunToolKeepsInv ==
  ASSUME CreatorInv, RunTool
  PROVE  CreatorInv'
<1> DEFINE q == Ordered(refs)
<1>1. /\ Accepted(refs)
      /\ creator' = [pc |-> "create", order |-> q, mapping |-> <<>>]
      /\ UNCHANGED <<refs, issues, rows, scan, refusals>>
  BY DEF RunTool
<1>2. IsDocument(refs) /\ DOMAIN refs # {} /\ IsFiniteSet(DOMAIN refs)
  BY <1>1, DocumentForms DEF CreatorInv, Accepted
<1>3. IsOrdering(refs, q) /\ Len(q) = Cardinality(DOMAIN refs)
  BY <1>1, <1>2, OrderedIsOrdering DEF Accepted, Defined
<1>4. q # <<>>
  <2>1. Cardinality(DOMAIN refs) # 0
    BY <1>2, FS_EmptySet
  <2>2. QED
    BY <1>3, <2>1
<1> HIDE DEF q
<1>5. creator'.pc = "create" /\ creator'.order = q /\ creator'.mapping = <<>>
  BY <1>1
<1>6. DOMAIN creator'.mapping = {}
  BY <1>5
<1>7. ToolFits(refs, issues, creator')
  BY <1>1, <1>3, <1>4, <1>5, <1>6 DEF ToolFits, IsOrdering
<1>8. QED
  BY <1>1, <1>7 DEF CreatorInv

(* All that the next issue refers to is on GitHub, under a number each.    *)
LEMMA BodyFits ==
  ASSUME CreatorInv, creator.pc = "create",
         NEW c, c = Head(creator.order), NEW b, b = Body(c, creator.mapping)
  PROVE  /\ b \in Bodies /\ c \in DOMAIN refs /\ b.codename = c
         /\ IssueFits(refs, Append(issues, b), Len(issues) + 1)
<1> DEFINE M == creator.mapping
           new == Append(issues, b)
<1>1. /\ creator.order \in Seq(DOMAIN refs) /\ creator.order # <<>>
      /\ DOMAIN M \subseteq DOMAIN refs
      /\ \A k \in 1 .. Len(creator.order) : \A d \in refs[creator.order[k]] :
            \/ d \in DOMAIN M
            \/ \E j \in 1 .. Len(creator.order) : j < k /\ creator.order[j] = d
      /\ \A d \in DOMAIN M : /\ M[d] \in 1 .. Len(issues)
                            /\ issues[M[d]].codename = d
  BY DEF CreatorInv, ToolFits
<1>2. 1 \in 1 .. Len(creator.order) /\ c = creator.order[1] /\ c \in DOMAIN refs
  BY <1>1
<1>3. refs[c] \subseteq DOMAIN M
  BY <1>1, <1>2
<1>4. issues \in Seq(Bodies) /\ Len(issues) \in Nat
  BY DEF CreatorInv, ListFits
<1>5. /\ b.codename = c /\ b.left = {}
      /\ b.blocked_by = {M[d] : d \in refs[c]}
      /\ b = [codename |-> c, blocked_by |-> b.blocked_by, left |-> {}]
  BY <1>3 DEF Body
<1> HIDE DEF M
<1>6. b \in Bodies
  <2>1. b.blocked_by \in SUBSET Nat
    BY <1>1, <1>3, <1>5
  <2>2. c \in Codenames
    BY <1>2, DocumentForms DEF CreatorInv
  <2>3. QED
    BY <1>5, <2>1, <2>2 DEF Bodies
<1>7. /\ new[Len(issues) + 1] = b
      /\ \A n \in 1 .. Len(issues) : new[n] = issues[n]
  BY <1>4, <1>6
<1>8. \A n \in b.blocked_by : n \in 1 .. (Len(issues) + 1) - 1
                               /\ new[n].codename \in refs[c]
  BY <1>1, <1>3, <1>4, <1>5, <1>7
<1>9. Cardinality(b.blocked_by) = Cardinality(refs[c])
  <2> DEFINE f == [d \in refs[c] |-> M[d]]
  <2>1. f \in Surjection(refs[c], b.blocked_by)
    BY <1>5 DEF Surjection
  <2>2. f \in Injection(refs[c], b.blocked_by)
    BY <1>1, <1>3, <1>5 DEF Injection, IsInjective
  <2>3. IsFiniteSet(refs[c])
    <3>1. IsFiniteSet(DOMAIN refs)
      BY DocumentForms DEF CreatorInv
    <3>2. QED
      BY <1>1, <1>3, <3>1, FS_Subset
  <2> HIDE DEF f
  <2>4. QED
    BY <2>1, <2>2, <2>3, FS_Surjection
<1>10. QED
  BY <1>2, <1>5, <1>6, <1>7, <1>8, <1>9 DEF IssueFits

(* An issue that is created, whatever becomes of the tool.                 *)
LEMMA CreatedFits ==
  ASSUME CreatorInv, creator.pc = "create", Created(Head(creator.order)),
         UNCHANGED <<refs, rows, scan>>, refusals' \in 0 .. MaxRefusals,
         ToolFits(refs, issues', creator')
  PROVE  CreatorInv'
<1> DEFINE b == Body(Head(creator.order), creator.mapping)
<1>1. issues' = Append(issues, b)
  BY DEF Created
<1>2. b \in Bodies /\ IssueFits(refs, Append(issues, b), Len(issues) + 1)
  BY BodyFits
<1> HIDE DEF b
<1>3. /\ ListFits(refs, issues')
      /\ \A table : RowsFit(issues, table) => RowsFit(issues', table)
      /\ \A table, run : ScanFits(issues, table, run) => ScanFits(issues', table, run)
  BY <1>1, <1>2, ListGrows DEF CreatorInv
<1>4. QED
  BY <1>3 DEF CreatorInv

LEMMA CreateIssueKeepsInv ==
  ASSUME CreatorInv, CreateIssue
  PROVE  CreatorInv'
<1> DEFINE q == creator.order
           c == Head(q)
           b == Body(c, creator.mapping)
           M == With(creator.mapping, c, Len(issues) + 1)
<1>1. /\ creator.pc = "create" /\ Created(c)
      /\ UNCHANGED <<refs, rows, scan, refusals>>
      /\ creator' = IF Tail(q) = <<>> THEN NotRunning
                    ELSE [creator EXCEPT !.order = Tail(q), !.mapping = M]
  BY DEF CreateIssue
<1>2. issues' = Append(issues, b)
  BY <1>1 DEF Created
<1>3. /\ b \in Bodies /\ c \in DOMAIN refs /\ b.codename = c
      /\ IssueFits(refs, Append(issues, b), Len(issues) + 1)
  BY <1>1, BodyFits
<1>4. /\ q \in Seq(DOMAIN refs) /\ q # <<>>
      /\ DOMAIN creator.mapping \subseteq DOMAIN refs
      /\ \A k \in 1 .. Len(q) : q[k] \notin DOMAIN creator.mapping
      /\ \A j, k \in 1 .. Len(q) : q[j] = q[k] => j = k
      /\ \A k \in 1 .. Len(q) : \A d \in refs[q[k]] :
            \/ d \in DOMAIN creator.mapping
            \/ \E j \in 1 .. Len(q) : j < k /\ q[j] = d
      /\ \A d \in DOMAIN creator.mapping :
            /\ creator.mapping[d] \in 1 .. Len(issues)
            /\ issues[creator.mapping[d]].codename = d
      /\ creator = [pc |-> "create", order |-> q, mapping |-> creator.mapping]
  BY <1>1 DEF CreatorInv, ToolFits
<1>5. /\ Len(issues) \in Nat /\ Len(issues') = Len(issues) + 1
      /\ issues'[Len(issues) + 1] = b
      /\ \A n \in 1 .. Len(issues) : n \in 1 .. Len(issues') /\ issues'[n] = issues[n]
  BY <1>2, <1>3 DEF CreatorInv, ListFits
<1> HIDE DEF b
<1>6. ToolFits(refs, issues', creator')
  <2>1. CASE Tail(q) = <<>>
    BY <1>1, <2>1 DEF ToolFits, NotRunning
  <2>2. CASE Tail(q) # <<>>
    <3> DEFINE t == Tail(q)
    <3>1. creator' = [pc |-> "create", order |-> t, mapping |-> M]
      BY <1>1, <1>4, <2>2
    <3>2. /\ t \in Seq(DOMAIN refs) /\ Len(q) = Len(t) + 1 /\ Len(t) \in Nat
          /\ \A k \in 1 .. Len(t) : t[k] = q[k + 1]
          /\ c = q[1] /\ 1 \in 1 .. Len(q)
      BY <1>4
    <3>3. \A k \in 1 .. Len(t) : k + 1 \in 1 .. Len(q) /\ k + 1 # 1
      BY <3>2
    <3>4. /\ DOMAIN M = DOMAIN creator.mapping \cup {c}
          /\ M[c] = Len(issues) + 1
          /\ \A d \in DOMAIN creator.mapping : d # c => M[d] = creator.mapping[d]
      BY DEF With
    <3> HIDE DEF t, c, M
    <3>5. \A k \in 1 .. Len(t) : t[k] \notin DOMAIN M
      BY <1>4, <3>2, <3>3, <3>4
    <3>6. ASSUME NEW j \in 1 .. Len(t), NEW k \in 1 .. Len(t), t[j] = t[k]
          PROVE  j = k
      <4>1. j + 1 = k + 1
        BY <1>4, <3>2, <3>3, <3>6
      <4>2. QED
        BY <4>1
    <3>7. ASSUME NEW k \in 1 .. Len(t), NEW d \in refs[t[k]]
          PROVE  \/ d \in DOMAIN M
                 \/ \E j \in 1 .. Len(t) : j < k /\ t[j] = d
      <4>1. \/ d \in DOMAIN creator.mapping
            \/ \E j \in 1 .. Len(q) : j < k + 1 /\ q[j] = d
        BY <1>4, <3>2, <3>3
      <4>2. ASSUME NEW j \in 1 .. Len(q), j < k + 1, q[j] = d, j # 1
            PROVE  \E i \in 1 .. Len(t) : i < k /\ t[i] = d
        <5>1. j - 1 \in 1 .. Len(t) /\ j - 1 < k /\ (j - 1) + 1 = j
          BY <3>2, <4>2
        <5>2. t[j - 1] = d
          BY <3>2, <4>2, <5>1
        <5>3. QED
          BY <5>1, <5>2
      <4>3. QED
        BY <3>2, <3>4, <4>1, <4>2
    <3>8. ASSUME NEW d \in DOMAIN M
          PROVE  M[d] \in 1 .. Len(issues') /\ issues'[M[d]].codename = d
      <4>1. CASE d = c
        BY <1>3, <1>5, <3>4, <4>1 DEF c
      <4>2. CASE d # c
        BY <1>4, <1>5, <3>4, <4>2
      <4>3. QED
        BY <4>1, <4>2
    <3>9. DOMAIN M \subseteq DOMAIN refs
      BY <1>3, <1>4, <3>4 DEF c
    <3>10. creator'.pc = "create" /\ creator'.order = t /\ creator'.mapping = M
      BY <3>1
    <3>11. t # <<>>
      BY <2>2 DEF t
    <3>12. QED
      BY <3>1, <3>2, <3>5, <3>6, <3>7, <3>8, <3>9, <3>10, <3>11 DEF ToolFits
  <2>3. QED
    BY <2>1, <2>2
<1>7. refusals' \in 0 .. MaxRefusals
  BY <1>1 DEF CreatorInv
<1>8. QED
  BY <1>1, <1>6, <1>7, CreatedFits DEF c

LEMMA IssueRefusedKeepsInv ==
  ASSUME CreatorInv, IssueRefused
  PROVE  CreatorInv'
<1>1. /\ creator.pc = "create" /\ creator' = NotRunning
      /\ refusals' \in 0 .. MaxRefusals
      /\ UNCHANGED issues \/ Created(Head(creator.order))
      /\ UNCHANGED <<refs, rows, scan>>
  BY CreatorBoundsAssumption DEF IssueRefused, CreatorInv
<1>2. \A list : ToolFits(refs, list, creator')
  BY <1>1 DEF ToolFits, NotRunning
<1>3. CASE UNCHANGED issues
  BY <1>1, <1>2, <1>3 DEF CreatorInv
<1>4. CASE Created(Head(creator.order))
  BY <1>1, <1>2, <1>4, CreatedFits
<1>5. QED
  BY <1>1, <1>3, <1>4

-----------------------------------------------------------------------------
(* The steps of the planners.                                              *)

(* The other planners see nothing of a step of p on its own run.           *)
LEMMA ScanStepKeepsInv ==
  ASSUME CreatorInv, NEW p \in Planners, NEW run,
         scan' = [scan EXCEPT ![p] = run], ScanFits(issues, rows, run),
         UNCHANGED <<refs, creator, issues, rows, refusals>>
  PROVE  CreatorInv'
<1>1. scan' = [o \in Planners |-> IF o = p THEN run ELSE scan[o]]
  BY DEF CreatorInv
<1>2. \A o \in Planners : ScanFits(issues, rows, scan'[o])
  BY <1>1 DEF CreatorInv
<1>3. scan' = [o \in Planners |-> scan'[o]]
  BY <1>1
<1>4. QED
  BY <1>2, <1>3 DEF CreatorInv

(* What a page changes in the run of a planner.                             *)
LEMMA PageChanges ==
  ASSUME NEW run,
         run = [pc |-> run.pc, page |-> run.page, fetched |-> run.fetched,
                layer |-> run.layer, existing |-> run.existing],
         NEW fetched, NEW page, NEW pc,
         NEW next, next = [run EXCEPT !.fetched = fetched, !.page = page, !.pc = pc]
  PROVE  next = [pc |-> pc, page |-> page, fetched |-> fetched,
                 layer |-> run.layer, existing |-> run.existing]
<1> DEFINE a == run.pc
           b == run.page
           c == run.fetched
           d == run.layer
           e == run.existing
<1>1. run = [pc |-> a, page |-> b, fetched |-> c, layer |-> d, existing |-> e]
  OBVIOUS
<1> HIDE DEF a, b, c, d, e
<1> DEFINE r1 == [run EXCEPT !.fetched = fetched]
           r2 == [r1 EXCEPT !.page = page]
           r3 == [r2 EXCEPT !.pc = pc]
<1>2. r1 = [pc |-> a, page |-> b, fetched |-> fetched, layer |-> d, existing |-> e]
  BY <1>1
<1>3. r2 = [pc |-> a, page |-> page, fetched |-> fetched, layer |-> d, existing |-> e]
  <2> HIDE DEF r1
  <2>1. QED
    BY <1>2
<1>4. r3 = [pc |-> pc, page |-> page, fetched |-> fetched, layer |-> d, existing |-> e]
  <2> HIDE DEF r2
  <2>1. QED
    BY <1>3
<1>5. next = r3
  OBVIOUS
<1>6. QED
  <2> HIDE DEF r3
  <2>1. QED
    BY <1>4, <1>5 DEF b, c, d, e

(* What reading the rows changes in it.                                    *)
LEMMA ReadChanges ==
  ASSUME NEW run,
         run = [pc |-> run.pc, page |-> run.page, fetched |-> run.fetched,
                layer |-> run.layer, existing |-> run.existing],
         NEW pc, NEW layer, NEW existing,
         NEW next, next = [run EXCEPT !.pc = pc, !.layer = layer, !.existing = existing]
  PROVE  next = [pc |-> pc, page |-> run.page, fetched |-> run.fetched,
                 layer |-> layer, existing |-> existing]
<1> DEFINE a == run.pc
           b == run.page
           c == run.fetched
           d == run.layer
           e == run.existing
<1>1. run = [pc |-> a, page |-> b, fetched |-> c, layer |-> d, existing |-> e]
  OBVIOUS
<1> HIDE DEF a, b, c, d, e
<1> DEFINE r1 == [run EXCEPT !.pc = pc]
           r2 == [r1 EXCEPT !.layer = layer]
           r3 == [r2 EXCEPT !.existing = existing]
<1>2. r1 = [pc |-> pc, page |-> b, fetched |-> c, layer |-> d, existing |-> e]
  BY <1>1
<1>3. r2 = [pc |-> pc, page |-> b, fetched |-> c, layer |-> layer, existing |-> e]
  <2> HIDE DEF r1
  <2>1. QED
    BY <1>2
<1>4. r3 = [pc |-> pc, page |-> b, fetched |-> c, layer |-> layer, existing |-> existing]
  <2> HIDE DEF r2
  <2>1. QED
    BY <1>3
<1>5. next = r3
  OBVIOUS
<1>6. QED
  <2> HIDE DEF r3
  <2>1. QED
    BY <1>4, <1>5 DEF b, c, d, e

(* A page goes down to where the next one will begin or above, however     *)
(* many issues were created since the last one.                            *)
LEMMA FetchPageKeepsInv ==
  ASSUME CreatorInv, NEW p \in Planners, FetchPage(p)
  PROVE  CreatorInv'
<1> DEFINE L == Len(issues)
           run == scan[p]
           F == run.fetched
           from == run.page * PerPage
           here == {n \in 1 .. L : from <= L - n /\ L - n < from + PerPage}
           pc == IF L > from + PerPage THEN "fetch" ELSE "read"
           next == [run EXCEPT !.fetched = F \cup here, !.page = run.page + 1, !.pc = pc]
<1>1. run.pc \in {"idle", "fetch"} /\ ScanFits(issues, rows, run)
  BY DEF FetchPage, CreatorInv
<1>2. UNCHANGED <<refs, creator, issues, rows, refusals>>
  BY DEF FetchPage
<1>3. scan' = [scan EXCEPT ![p] = next]
  BY DEF FetchPage, CreatorInv
<1>4. L \in Nat /\ run.page \in Nat /\ PerPage \in Nat \ {0}
      /\ F \in SUBSET (1 .. L)
  BY <1>1, CreatorBoundsAssumption DEF CreatorInv, ListFits, ScanFits
<1>5. from \in Nat /\ (run.page + 1) * PerPage = from + PerPage
  BY <1>4
<1>6. ASSUME NEW n \in F, NEW m \in 1 .. n
      PROVE  m \in F \/ m <= L - from
  <2>1. CASE run.pc = "idle"
    BY <1>1, <2>1 DEF ScanFits, NotScanning
  <2>2. CASE run.pc = "fetch"
    BY <1>1, <2>2 DEF ScanFits
  <2>3. QED
    BY <1>1, <2>1, <2>2
<1> HIDE DEF F, from, L
<1>7. ASSUME NEW n \in F \cup here, NEW m \in 1 .. n
      PROVE  m \in F \cup here \/ m <= L - (from + PerPage)
  <2>1. n \in 1 .. L /\ m \in 1 .. L
    BY <1>4
  <2>2. m \in F \/ m <= L - from
    <3>1. CASE n \in F
      BY <1>6, <3>1
    <3>2. CASE n \in here
      BY <1>4, <1>5, <2>1, <3>2
    <3>3. QED
      BY <3>1, <3>2
  <2>3. CASE m <= L - from
    <3>1. m \in here \/ m <= L - (from + PerPage)
      BY <1>4, <1>5, <2>1, <2>3
    <3>2. QED
      BY <3>1
  <2>4. QED
    BY <2>2, <2>3
<1>8. pc = "read" => \A n \in F \cup here : 1 .. n \subseteq F \cup here
  <2> SUFFICES ASSUME pc = "read", NEW n \in F \cup here, NEW m \in 1 .. n
               PROVE  m \in F \cup here
    OBVIOUS
  <2>1. L <= from + PerPage
    BY <1>4, <1>5
  <2>2. ~ (m <= L - (from + PerPage))
    <3>1. n \in 1 .. L /\ m \in 1 .. L
      BY <1>4
    <3>2. QED
      BY <1>4, <1>5, <2>1, <3>1
  <2>3. QED
    BY <1>7, <2>2
<1>9. /\ next = [pc |-> pc, page |-> run.page + 1, fetched |-> F \cup here,
                layer |-> run.layer, existing |-> run.existing]
      /\ pc \in {"fetch", "read"} /\ run.page + 1 \in Nat
      /\ F \cup here \in SUBSET (1 .. L)
  <2>1. run = [pc |-> run.pc, page |-> run.page, fetched |-> run.fetched,
               layer |-> run.layer, existing |-> run.existing]
    BY <1>1 DEF ScanFits
  <2>2. pc \in {"fetch", "read"}
    OBVIOUS
  <2>3. F \cup here \in SUBSET (1 .. L)
    BY <1>4
  <2> HIDE DEF run, here, pc
  <2>4. next = [pc |-> pc, page |-> run.page + 1, fetched |-> F \cup here,
                layer |-> run.layer, existing |-> run.existing]
    <3> DEFINE all == F \cup here
               page == run.page + 1
    <3>1. next = [run EXCEPT !.fetched = all, !.page = page, !.pc = pc]
      OBVIOUS
    <3> HIDE DEF next, all, page
    <3>2. next = [pc |-> pc, page |-> page, fetched |-> all,
                  layer |-> run.layer, existing |-> run.existing]
      BY <2>1, <3>1, PageChanges
    <3>3. QED
      BY <3>2 DEF all, page
  <2>5. QED
    BY <1>4, <2>2, <2>3, <2>4
<1> HIDE DEF here, pc, next, run
<1>10. /\ next.pc = pc /\ next.page = run.page + 1 /\ next.fetched = F \cup here
       /\ next = [pc |-> next.pc, page |-> next.page, fetched |-> next.fetched,
                  layer |-> next.layer, existing |-> next.existing]
  BY <1>9
<1>11. \A n \in F \cup here : \A m \in 1 .. n :
         m \in F \cup here \/ m <= L - next.page * PerPage
  BY <1>5, <1>7, <1>10
<1>12. ScanFits(issues, rows, next)
  BY <1>8, <1>9, <1>10, <1>11 DEF ScanFits, L
<1>13. QED
  BY <1>2, <1>3, <1>12, ScanStepKeepsInv

(* The layers are those of all the issues, for none of the blockers is     *)
(* missing.                                                                *)
LEMMA ReadRowsKeepsInv ==
  ASSUME CreatorInv, NEW p \in Planners, ReadRows(p)
  PROVE  CreatorInv'
<1> DEFINE run == scan[p]
           F == run.fetched
           layer == Planned(F).layer
           next == [run EXCEPT !.pc = "commit", !.layer = layer,
                               !.existing = {r.issue : r \in rows}]
<1>1. run.pc = "read" /\ ScanFits(issues, rows, run) /\ ~ Planned(F).cycle
  BY DEF ReadRows, CreatorInv
<1>2. UNCHANGED <<refs, creator, issues, rows, refusals>>
  BY DEF ReadRows
<1>3. scan' = [scan EXCEPT ![p] = next]
  BY DEF ReadRows, CreatorInv
<1>4. F \in SUBSET (1 .. Len(issues)) /\ \A n \in F : 1 .. n \subseteq F
  BY <1>1 DEF ScanFits
<1>5. issues \in Seq(Bodies)
  BY DEF CreatorInv, ListFits
<1>6. ASSUME NEW n \in F, NEW b \in issues[n].blocked_by PROVE b \in F
  <2>1. n \in 1 .. Len(issues)
    BY <1>4
  <2>2. b \in 1 .. n - 1
    BY <2>1 DEF CreatorInv, ListFits, IssueFits
  <2>3. b \in 1 .. n
    BY <1>5, <2>1, <2>2
  <2>4. QED
    BY <1>4, <2>3
<1>7. /\ layer = [n \in F |-> layer[n]]
      /\ \A n \in F : Deep(issues, n, layer[n])
  <2> HIDE DEF F
  <2>1. \A n \in F : issues[n].blocked_by \subseteq F
    BY <1>6
  <2>2. QED
    BY <1>1, <1>4, <1>5, <2>1, PlannedIsDeep
<1>8. next = [pc |-> "commit", page |-> run.page, fetched |-> F,
              layer |-> layer, existing |-> {r.issue : r \in rows}]
      /\ run.page \in Nat
  <2>1. run = [pc |-> run.pc, page |-> run.page, fetched |-> run.fetched,
               layer |-> run.layer, existing |-> run.existing]
        /\ run.page \in Nat
    BY <1>1 DEF ScanFits
  <2> HIDE DEF run, layer
  <2>2. next = [pc |-> "commit", page |-> run.page, fetched |-> run.fetched,
                layer |-> layer, existing |-> {r.issue : r \in rows}]
    BY <2>1, ReadChanges
  <2>3. QED
    BY <2>1, <2>2 DEF F
<1> HIDE DEF next, layer, run, F
<1>9. DOMAIN layer = F
  BY <1>7
<1>10. /\ next.pc = "commit" /\ next.page = run.page /\ next.fetched = F
       /\ next.layer = layer /\ next.existing = {r.issue : r \in rows}
       /\ next = [pc |-> next.pc, page |-> next.page, fetched |-> next.fetched,
                  layer |-> next.layer, existing |-> next.existing]
  BY <1>8
<1>11. ScanFits(issues, rows, next)
  BY <1>4, <1>6, <1>7, <1>8, <1>9, <1>10 DEF ScanFits
<1>12. QED
  BY <1>2, <1>3, <1>11, ScanStepKeepsInv

(* Whether or not the plan is stale, the layers it writes are right, and   *)
(* the rows it relies on are there.                                        *)
LEMMA UpsertKeepsRows ==
  ASSUME CreatorInv, NEW p \in Planners, scan[p].pc = "commit",
         \A r \in rows : r.issue \notin Inserts(p)
  PROVE  /\ RowsFit(issues, Upserted(p))
         /\ {r.issue : r \in rows} \subseteq {r.issue : r \in Upserted(p)}
<1> DEFINE layer == scan[p].layer
           D == DOMAIN layer
           L == 1 .. Len(issues)
           Up(r) == [r EXCEPT !.layer = IF r.issue \in D THEN layer[r.issue] ELSE r.layer]
           New(n) == [issue |-> n, layer |-> layer[n], by |-> p]
           more == Upserted(p)
           Row == [issue : L, layer : Nat, by : Planners]
<1>1. /\ D \subseteq L
      /\ \A n \in D : issues[n].blocked_by \subseteq D /\ Deep(issues, n, layer[n])
      /\ scan[p].existing \subseteq {r.issue : r \in rows}
  BY DEF CreatorInv, ScanFits
<1>2. /\ rows \subseteq Row
      /\ \A r, s \in rows : r.issue = s.issue => r = s
      /\ \A r \in rows : /\ Deep(issues, r.issue, r.layer)
                         /\ \A b \in issues[r.issue].blocked_by :
                              \E s \in rows : s.issue = b
  BY DEF CreatorInv, RowsFit
<1>3. more = {Up(r) : r \in rows} \cup {New(n) : n \in Inserts(p)}
  BY DEF Upserted
<1>4. Inserts(p) = D \ scan[p].existing
  BY DEF Inserts
<1>5. \A n \in D : layer[n] \in Nat
  BY <1>1 DEF Deep
<1>6. ASSUME NEW r \in rows
      PROVE  /\ Up(r) \in Row /\ Up(r).issue = r.issue /\ Up(r).by = r.by
             /\ Deep(issues, Up(r).issue, Up(r).layer)
  <2>1. r \in Row
    BY <1>2
  <2>2. Up(r) = [issue |-> r.issue, by |-> r.by,
                 layer |-> IF r.issue \in D THEN layer[r.issue] ELSE r.layer]
    BY <2>1
  <2> HIDE DEF Up, layer, D, L
  <2>3. QED
    BY <1>1, <1>2, <1>5, <2>1, <2>2
<1>7. ASSUME NEW n \in Inserts(p)
      PROVE  /\ New(n) \in Row /\ New(n).issue = n
             /\ Deep(issues, New(n).issue, New(n).layer)
  BY <1>1, <1>4, <1>5, <1>7
<1> HIDE DEF Up, New, more, Row, layer, D, L
<1>8. more \subseteq Row /\ \A r \in more : Deep(issues, r.issue, r.layer)
  BY <1>3, <1>6, <1>7
<1>9. ASSUME NEW r \in more, NEW s \in more, r.issue = s.issue
      PROVE  r = s
  <2>1. CASE \E x \in rows : r = Up(x)
    <3>1. PICK x \in rows : r = Up(x)
      BY <2>1
    <3>2. \A n \in Inserts(p) : s # New(n)
      BY <1>6, <1>7, <1>9, <3>1
    <3>3. PICK y \in rows : s = Up(y)
      BY <1>3, <3>2
    <3>4. x = y
      BY <1>2, <1>6, <1>9, <3>1, <3>3
    <3>5. QED
      BY <3>1, <3>3, <3>4
  <2>2. CASE \E n \in Inserts(p) : r = New(n)
    <3>1. PICK n \in Inserts(p) : r = New(n)
      BY <2>2
    <3>2. \A y \in rows : s # Up(y)
      BY <1>6, <1>7, <1>9, <3>1
    <3>3. PICK m \in Inserts(p) : s = New(m)
      BY <1>3, <3>2
    <3>4. n = m
      BY <1>7, <1>9, <3>1, <3>3
    <3>5. QED
      BY <3>1, <3>3, <3>4
  <2>3. QED
    BY <1>3, <2>1, <2>2
<1>10. \A x \in rows : \E s \in more : s.issue = x.issue
  <2> TAKE x \in rows
  <2>1. Up(x) \in more
    BY <1>3
  <2>2. QED
    BY <1>6, <2>1
<1>11. \A n \in D : \E s \in more : s.issue = n
  <2> TAKE n \in D
  <2>1. CASE n \in Inserts(p)
    <3>1. New(n) \in more
      BY <1>3, <2>1
    <3>2. QED
      BY <1>7, <2>1, <3>1
  <2>2. CASE n \notin Inserts(p)
    BY <1>1, <1>4, <1>10, <2>2
  <2>3. QED
    BY <2>1, <2>2
<1>12. ASSUME NEW r \in more, NEW b \in issues[r.issue].blocked_by
       PROVE  \E s \in more : s.issue = b
  <2>1. CASE \E x \in rows : r = Up(x)
    BY <1>2, <1>6, <1>10, <1>12, <2>1
  <2>2. CASE \E n \in Inserts(p) : r = New(n)
    <3>1. r.issue \in D
      BY <1>4, <1>7, <2>2
    <3>2. QED
      BY <1>1, <1>11, <1>12, <3>1
  <2>3. QED
    BY <1>3, <2>1, <2>2
<1>13. RowsFit(issues, more)
  BY <1>8, <1>9, <1>12 DEF RowsFit, Row, L
<1>14. QED
  BY <1>10, <1>13 DEF more

LEMMA CommitPlanKeepsInv ==
  ASSUME CreatorInv, NEW p \in Planners, CommitPlan(p)
  PROVE  CreatorInv'
<1>1. /\ scan[p].pc = "commit"
      /\ rows' = IF \E r \in rows : r.issue \in Inserts(p) THEN rows ELSE Upserted(p)
      /\ scan' = [scan EXCEPT ![p] = NotScanning]
      /\ UNCHANGED <<refs, creator, issues, refusals>>
  BY DEF CommitPlan
<1>2. /\ RowsFit(issues, rows')
      /\ {r.issue : r \in rows} \subseteq {r.issue : r \in rows'}
  <2>1. CASE \E r \in rows : r.issue \in Inserts(p)
    BY <1>1, <2>1 DEF CreatorInv
  <2>2. CASE ~ \E r \in rows : r.issue \in Inserts(p)
    BY <1>1, <2>2, UpsertKeepsRows
  <2>3. QED
    BY <2>1, <2>2
<1>3. ScanFits(issues, rows', NotScanning)
  BY DEF ScanFits, NotScanning
<1>4. scan' = [o \in Planners |-> IF o = p THEN NotScanning ELSE scan[o]]
  BY <1>1 DEF CreatorInv
<1>5. \A o \in Planners : ScanFits(issues, rows', scan[o])
  BY <1>2, ScanKeepsFitting DEF CreatorInv
<1>6. \A o \in Planners : ScanFits(issues, rows', scan'[o])
  BY <1>3, <1>4, <1>5
<1>7. scan' = [o \in Planners |-> scan'[o]]
  BY <1>4
<1>8. QED
  BY <1>1, <1>2, <1>6, <1>7 DEF CreatorInv

-----------------------------------------------------------------------------
(* The invariant holds.                                                    *)

LEMMA CreatorInitially == CreatorInit => CreatorInv
<1> SUFFICES ASSUME CreatorInit PROVE CreatorInv
  OBVIOUS
<1>1. /\ refs \in Documents /\ creator = NotRunning /\ issues = <<>> /\ rows = {}
      /\ scan = [p \in Planners |-> NotScanning] /\ refusals = 0
  BY DEF CreatorInit
<1>2. ListFits(refs, issues)
  BY <1>1 DEF ListFits
<1>3. ToolFits(refs, issues, creator)
  BY <1>1 DEF ToolFits, NotRunning
<1>4. RowsFit(issues, rows)
  BY <1>1 DEF RowsFit
<1>5. \A p \in Planners : ScanFits(issues, rows, scan[p])
  BY <1>1 DEF ScanFits, NotScanning
<1>6. scan = [p \in Planners |-> scan[p]]
  BY <1>1
<1>7. refusals \in 0 .. MaxRefusals
  BY <1>1, CreatorBoundsAssumption
<1>8. QED
  BY <1>1, <1>2, <1>3, <1>4, <1>5, <1>6, <1>7 DEF CreatorInv

LEMMA CreatorStep == CreatorInv /\ [CreatorNext]_creatorVars => CreatorInv'
<1> SUFFICES ASSUME CreatorInv, [CreatorNext]_creatorVars PROVE CreatorInv'
  OBVIOUS
<1>1. CASE RunTool
  BY <1>1, RunToolKeepsInv
<1>2. CASE CreateIssue
  BY <1>2, CreateIssueKeepsInv
<1>3. CASE IssueRefused
  BY <1>3, IssueRefusedKeepsInv
<1>4. CASE \E p \in Planners : PlannerStep(p)
  BY <1>4, FetchPageKeepsInv, ReadRowsKeepsInv, CommitPlanKeepsInv DEF PlannerStep
<1>5. CASE UNCHANGED creatorVars
  BY <1>5 DEF creatorVars, CreatorInv
<1>6. QED
  BY <1>1, <1>2, <1>3, <1>4, <1>5 DEF CreatorNext

LEMMA CreatorInductive == CreatorSpec => []CreatorInv
<1> QED
  BY CreatorInitially, CreatorStep, PTL DEF CreatorSpec

-----------------------------------------------------------------------------
(* The changes of the repository.                                          *)

(* k puts content x in the files of S and changes nothing else.            *)
IsProposal(k, S, x) ==
  /\ k \in Commits
  /\ \A f \in Files : /\ k.parent[f] # x
                      /\ k.tree[f] = IF f \in S THEN x ELSE k.parent[f]

TrunkInv == \A f \in Files : trunk[f] <= proposals \/ trunk[f] > MaxProposals

CallInv(c) ==
  chat[c].pc # "idle" =>
    /\ chat[c].content <= proposals
    /\ \A f \in Files : trunk[f] # chat[c].content
    /\ \A n \in DOMAIN pulls : pulls[n].content # chat[c].content
    /\ chat[c].pc = "commit" => \A f \in Files : chat[c].base[f] # chat[c].content
    /\ chat[c].pc \in {"branch", "pull"} =>
         IsProposal(chat[c].commit, chat[c].files, chat[c].content)
    /\ chat[c].pc = "pull" => branches[chat[c].branch] = chat[c].commit

DistinctInv ==
  \A c, d \in Chats :
    c # d /\ chat[c].pc # "idle" /\ chat[d].pc # "idle" =>
      chat[c].content # chat[d].content

PullInv(n) ==
  /\ pulls[n].content <= proposals
  /\ IsProposal(HeadCommit(n), pulls[n].files, pulls[n].content)

RepoInv ==
  /\ RepoTypeOK
  /\ TrunkInv
  /\ \A c \in Chats : CallInv(c)
  /\ DistinctInv
  /\ \A n \in DOMAIN pulls : PullInv(n)

-----------------------------------------------------------------------------
(* What a call holds at each of its steps.                                 *)
LEMMA CallForms ==
  ASSUME RepoTypeOK, NEW c \in Chats
  PROVE  /\ chat[c].pc \in {"idle", "read", "commit", "branch", "pull"}
         /\ chat[c].pc # "idle" =>
              /\ chat[c].files \subseteq Files
              /\ chat[c].branch \in Branches
              /\ chat[c].content \in Content
         /\ chat[c].pc = "commit" => chat[c].base \in [Files -> Content]
         /\ chat[c].pc \in {"branch", "pull"} =>
              /\ chat[c].commit \in Commits
              /\ chat[c] = [pc |-> chat[c].pc, files |-> chat[c].files,
                            branch |-> chat[c].branch, content |-> chat[c].content,
                            commit |-> chat[c].commit]
<1>1. chat[c] \in Calls
  BY DEF RepoTypeOK
<1>2. CASE chat[c] = NoCall
  BY <1>2 DEF NoCall
<1>3. CASE chat[c] \in [pc : {"read"}, files : SUBSET Files, branch : Branches,
                        content : Content]
  BY <1>3
<1>4. CASE chat[c] \in [pc : {"commit"}, files : SUBSET Files, branch : Branches,
                        content : Content, base : [Files -> Content]]
  BY <1>4
<1>5. CASE chat[c] \in [pc : {"branch", "pull"}, files : SUBSET Files,
                        branch : Branches, content : Content, commit : Commits]
  BY <1>5
<1> QED
  BY <1>1, <1>2, <1>3, <1>4, <1>5 DEF Calls

(* Contents are numbers: proposals first, pushes above them.               *)
LEMMA Numbering ==
  ASSUME RepoTypeOK
  PROVE  /\ Content \subseteq Int
         /\ proposals \in Nat /\ proposals <= MaxProposals
         /\ 1 .. MaxProposals \subseteq Content
         /\ pushes < MaxPushes => MaxProposals + pushes + 1 \in Content
         /\ trunk \in [Files -> Content]
BY RepoBoundsAssumption DEF RepoTypeOK, Content

LEMMA PullForms ==
  ASSUME RepoTypeOK, NEW n \in DOMAIN pulls
  PROVE  /\ pulls[n] \in PullRequests
         /\ pulls[n].content \in Content /\ pulls[n].files \subseteq Files
         /\ pulls[n].branch \in Branches
         /\ HeadCommit(n) \in Commits
<1>1. pulls[n] \in PullRequests
  BY DEF RepoTypeOK
<1>2. /\ pulls[n].content \in Content /\ pulls[n].files \subseteq Files
      /\ pulls[n].branch \in Branches
  BY <1>1 DEF PullRequests
<1> QED
  BY <1>1, <1>2 DEF RepoTypeOK, HeadCommit

LEMMA FaultsCounted ==
  ASSUME RepoTypeOK, NEW ok \in BOOLEAN, Answer(ok)
  PROVE  apiFailures' \in 0 .. MaxApiFailures
<1>1. apiFailures \in 0 .. MaxApiFailures /\ MaxApiFailures \in Nat
  BY RepoBoundsAssumption DEF RepoTypeOK
<1>2. CASE ok
  BY <1>1, <1>2 DEF Answer
<1>3. CASE ~ ok
  BY <1>1, <1>3 DEF Answer, ApiFails
<1> QED
  BY <1>2, <1>3

-----------------------------------------------------------------------------
(* A step of one call that changes neither main nor branches nor PRs.      *)
LEMMA OnlyTheCall ==
  ASSUME RepoInv, NEW c \in Chats, NEW x \in Calls,
         chat' = [chat EXCEPT ![c] = x],
         UNCHANGED <<trunk, branches, pulls, proposals, pushes>>,
         apiFailures' \in 0 .. MaxApiFailures,
         x.pc # "idle" => /\ chat[c].pc # "idle"
                          /\ x.content = chat[c].content,
         CallInv(c)'
  PROVE  RepoInv'
<1>1. RepoTypeOK'
  BY DEF RepoInv, RepoTypeOK, HeadCommit
<1>2. TrunkInv'
  BY DEF RepoInv, TrunkInv
<1>3. /\ chat'[c] = x
      /\ \A d \in Chats : d # c => chat'[d] = chat[d]
  BY DEF RepoInv, RepoTypeOK
<1>4. ASSUME NEW d \in Chats PROVE CallInv(d)'
  <2>1. CASE d = c
    BY <2>1
  <2>2. CASE d # c
    <3>1. CallInv(d)
      BY DEF RepoInv
    <3> QED
      BY <1>3, <2>2, <3>1 DEF CallInv
  <2> QED
    BY <2>1, <2>2
<1>5. DistinctInv'
  BY <1>3 DEF RepoInv, DistinctInv
<1>6. ASSUME NEW n \in DOMAIN pulls' PROVE PullInv(n)'
  BY DEF RepoInv, PullInv, HeadCommit
<1> QED
  BY <1>1, <1>2, <1>4, <1>5, <1>6 DEF RepoInv

(* A call that stops takes nothing with it.                                *)
LEMMA CallStops ==
  ASSUME RepoInv, NEW c \in Chats, Stop(c),
         UNCHANGED <<trunk, branches, pulls, proposals, pushes>>,
         apiFailures' \in 0 .. MaxApiFailures
  PROVE  RepoInv'
<1>1. chat' = [chat EXCEPT ![c] = NoCall] /\ NoCall \in Calls /\ NoCall.pc = "idle"
  BY DEF Stop, Calls, NoCall
<1>2. CallInv(c)'
  BY <1>1 DEF CallInv, RepoInv, RepoTypeOK
<1> QED
  BY <1>1, <1>2, OnlyTheCall

LEMMA ProposeKeepsInv ==
  ASSUME RepoInv, NEW c \in Chats, Propose(c)
  PROVE  RepoInv'
<1> DEFINE x == proposals + 1
<1>0. RepoTypeOK
  BY DEF RepoInv
<1>1. PICK S \in SUBSET Files, b \in Branches :
        chat' = [chat EXCEPT ![c] = [pc |-> "read", files |-> S, branch |-> b,
                                     content |-> x]]
  BY DEF Propose
<1>2. /\ chat[c].pc = "idle" /\ proposals < MaxProposals /\ proposals' = x
      /\ UNCHANGED <<trunk, branches, pulls, pushes, apiFailures>>
  BY DEF Propose
<1>3. /\ x \in Content /\ x \in 0 .. MaxProposals /\ proposals < x
      /\ Content \subseteq Int /\ proposals \in Nat /\ MaxProposals \in Nat
  BY <1>0, <1>2, Numbering, RepoBoundsAssumption
<1>4. [pc |-> "read", files |-> S, branch |-> b, content |-> x] \in Calls
  BY <1>3 DEF Calls
<1>5. RepoTypeOK'
  <2>1. chat' \in [Chats -> Calls]
    BY <1>0, <1>1, <1>4 DEF RepoTypeOK
  <2> QED
    BY <1>0, <1>2, <1>3, <2>1 DEF RepoTypeOK, HeadCommit
<1>6. \A f \in Files : trunk[f] \in Int /\ trunk[f] # x
                       /\ (trunk[f] <= x \/ trunk[f] > MaxProposals)
  <2>1. \A f \in Files : trunk[f] \in Int
    BY <1>0, <1>3 DEF RepoTypeOK
  <2>2. \A f \in Files : trunk[f] <= proposals \/ trunk[f] > MaxProposals
    BY DEF RepoInv, TrunkInv
  <2> QED
    BY <2>1, <2>2, <1>3
<1>7. TrunkInv'
  BY <1>2, <1>6 DEF TrunkInv
<1>8. /\ chat'[c] = [pc |-> "read", files |-> S, branch |-> b, content |-> x]
      /\ \A d \in Chats : d # c => chat'[d] = chat[d]
  BY <1>0, <1>1 DEF RepoTypeOK
<1>9. \A n \in DOMAIN pulls : pulls[n].content \in Int /\ pulls[n].content <= proposals
  BY <1>0, <1>3, PullForms DEF RepoInv, PullInv
<1>10. \A d \in Chats : chat[d].pc # "idle" =>
         chat[d].content \in Int /\ chat[d].content <= proposals
  BY <1>0, <1>3, CallForms DEF RepoInv, CallInv
<1> HIDE DEF x
<1>11. ASSUME NEW d \in Chats PROVE CallInv(d)'
  <2>1. CASE d = c
    <3>1. \A n \in DOMAIN pulls : pulls[n].content # x
      BY <1>3, <1>9
    <3>2. x <= x
      BY <1>3
    <3> QED
      BY <1>2, <1>6, <1>8, <2>1, <3>1, <3>2 DEF CallInv
  <2>2. CASE d # c
    <3>1. CallInv(d)
      BY DEF RepoInv
    <3>2. chat[d].pc # "idle" => chat[d].content <= x
      BY <1>3, <1>10
    <3> QED
      BY <1>2, <1>8, <2>2, <3>1, <3>2 DEF CallInv
  <2> QED
    BY <2>1, <2>2
<1>12. DistinctInv'
  <2>1. \A d \in Chats : chat[d].pc # "idle" => chat[d].content # x
    BY <1>3, <1>10
  <2> QED
    BY <1>8, <2>1 DEF RepoInv, DistinctInv
<1>13. ASSUME NEW n \in DOMAIN pulls' PROVE PullInv(n)'
  <2>1. PullInv(n)
    BY <1>2 DEF RepoInv
  <2>2. pulls[n].content <= x
    BY <1>2, <1>3, <1>9
  <2> QED
    BY <1>2, <2>1, <2>2 DEF PullInv, HeadCommit
<1> QED
  BY <1>5, <1>7, <1>11, <1>12, <1>13 DEF RepoInv

LEMMA ReadBaseKeepsInv ==
  ASSUME RepoInv, NEW c \in Chats, ReadBase(c)
  PROVE  RepoInv'
<1> DEFINE x == [pc |-> "commit", files |-> chat[c].files, branch |-> chat[c].branch,
                 content |-> chat[c].content, base |-> trunk]
<1>0. RepoTypeOK
  BY DEF RepoInv
<1>1. PICK ok \in BOOLEAN :
        /\ Answer(ok)
        /\ IF ok THEN chat' = [chat EXCEPT ![c] = x] ELSE Stop(c)
  BY DEF ReadBase
<1>2. /\ chat[c].pc = "read"
      /\ UNCHANGED <<trunk, branches, pulls, proposals, pushes>>
  BY DEF ReadBase
<1>3. apiFailures' \in 0 .. MaxApiFailures
  BY <1>0, <1>1, FaultsCounted
<1>4. CASE ok
  <2>1. chat' = [chat EXCEPT ![c] = x]
    BY <1>1, <1>4
  <2>2. x \in Calls
    BY <1>0, <1>2, CallForms, Numbering DEF Calls
  <2>3. chat'[c] = x
    BY <1>0, <2>1 DEF RepoTypeOK
  <2>4. CallInv(c)
    BY DEF RepoInv
  <2>5. CallInv(c)'
    BY <1>2, <2>3, <2>4 DEF CallInv
  <2> QED
    BY <1>2, <1>3, <2>1, <2>2, <2>5, OnlyTheCall
<1>5. CASE ~ ok
  BY <1>1, <1>2, <1>3, <1>5, CallStops
<1> QED
  BY <1>4, <1>5

LEMMA CommitKeepsInv ==
  ASSUME RepoInv, NEW c \in Chats, Commit(c)
  PROVE  RepoInv'
<1> DEFINE k == [parent |-> chat[c].base,
                 tree |-> Overlaid(chat[c].base, chat[c].files, chat[c].content)]
           x == [pc |-> "branch", files |-> chat[c].files, branch |-> chat[c].branch,
                 content |-> chat[c].content, commit |-> k]
<1>0. RepoTypeOK
  BY DEF RepoInv
<1>1. PICK ok \in BOOLEAN :
        /\ Answer(ok)
        /\ IF ok THEN chat' = [chat EXCEPT ![c] = x] ELSE Stop(c)
  BY DEF Commit
<1>2. /\ chat[c].pc = "commit"
      /\ UNCHANGED <<trunk, branches, pulls, proposals, pushes>>
  BY DEF Commit
<1>3. apiFailures' \in 0 .. MaxApiFailures
  BY <1>0, <1>1, FaultsCounted
<1>4. CASE ok
  <2>1. chat' = [chat EXCEPT ![c] = x]
    BY <1>1, <1>4
  <2>2. CallInv(c)
    BY DEF RepoInv
  <2>3. /\ chat[c].files \subseteq Files /\ chat[c].branch \in Branches
        /\ chat[c].content \in Content /\ chat[c].base \in [Files -> Content]
    BY <1>0, <1>2, CallForms
  <2>4. IsProposal(k, chat[c].files, chat[c].content)
    <3>1. Overlaid(chat[c].base, chat[c].files, chat[c].content) \in [Files -> Content]
      BY <2>3 DEF Overlaid
    <3>2. k \in Commits
      BY <2>3, <3>1 DEF Commits
    <3>3. \A f \in Files : chat[c].base[f] # chat[c].content
      BY <1>2, <2>2 DEF CallInv
    <3> QED
      BY <3>2, <3>3 DEF IsProposal, Overlaid
  <2> HIDE DEF k
  <2>5. x \in Calls
    BY <2>3, <2>4 DEF Calls, IsProposal
  <2>6. chat'[c] = x
    BY <1>0, <2>1 DEF RepoTypeOK
  <2>7. CallInv(c)'
    BY <1>2, <2>2, <2>4, <2>6 DEF CallInv
  <2> QED
    BY <1>2, <1>3, <2>1, <2>5, <2>7, OnlyTheCall
<1>5. CASE ~ ok
  BY <1>1, <1>2, <1>3, <1>5, CallStops
<1> QED
  BY <1>4, <1>5

(* Filling a free name moves no branch that a PR or a call relies on.      *)
LEMMA CreateBranchKeepsInv ==
  ASSUME RepoInv, NEW c \in Chats, CreateBranch(c)
  PROVE  RepoInv'
<1> DEFINE free == branches[chat[c].branch] = NoCommit
           x == [pc |-> "pull", files |-> chat[c].files, branch |-> chat[c].branch,
                 content |-> chat[c].content, commit |-> chat[c].commit]
<1>0. RepoTypeOK
  BY DEF RepoInv
<1>1. PICK carried_out \in {FALSE, free}, ok \in {FALSE, free} :
        /\ ok => carried_out
        /\ IF free THEN Answer(ok) ELSE UNCHANGED apiFailures
        /\ branches' = IF carried_out
                       THEN [branches EXCEPT ![chat[c].branch] = chat[c].commit]
                       ELSE branches
        /\ IF ok THEN chat' = [chat EXCEPT ![c].pc = "pull"] ELSE Stop(c)
  BY DEF CreateBranch
<1>2. /\ chat[c].pc = "branch"
      /\ UNCHANGED <<trunk, pulls, proposals, pushes>>
  BY DEF CreateBranch
<1>3. /\ chat[c].branch \in Branches /\ chat[c].commit \in Commits
      /\ chat[c] = [pc |-> "branch", files |-> chat[c].files, branch |-> chat[c].branch,
                    content |-> chat[c].content, commit |-> chat[c].commit]
      /\ chat[c].files \subseteq Files /\ chat[c].content \in Content
  BY <1>0, <1>2, CallForms
<1>4. apiFailures' \in 0 .. MaxApiFailures
  <2>1. CASE free
    BY <1>0, <1>1, <2>1, FaultsCounted
  <2>2. CASE ~ free
    BY <1>0, <1>1, <2>2 DEF RepoTypeOK
  <2> QED
    BY <2>1, <2>2
<1>5. /\ branches' \in [Branches -> Commits \cup {NoCommit}]
      /\ \A b \in Branches : branches[b] # NoCommit => branches'[b] = branches[b]
      /\ ok => branches'[chat[c].branch] = chat[c].commit
  <2>1. branches \in [Branches -> Commits \cup {NoCommit}]
    BY <1>0 DEF RepoTypeOK
  <2>2. CASE carried_out
    <3>1. free
      BY <1>1, <2>2
    <3> QED
      BY <1>1, <1>3, <2>1, <2>2, <3>1
  <2>3. CASE ~ carried_out
    BY <1>1, <2>1, <2>3
  <2> QED
    BY <2>2, <2>3
<1>6. /\ chat' \in [Chats -> Calls]
      /\ \A d \in Chats : d # c => chat'[d] = chat[d]
      /\ chat'[c] = NoCall \/ (ok /\ chat'[c] = x)
  <2>1. chat \in [Chats -> Calls] /\ NoCall \in Calls
    BY <1>0 DEF RepoTypeOK, Calls
  <2>2. CASE ok
    <3>1. chat' = [chat EXCEPT ![c].pc = "pull"]
      BY <1>1, <2>2
    <3>2. chat'[c] = [chat[c] EXCEPT !.pc = "pull"]
      BY <2>1, <3>1
    <3>3. chat'[c] = x
      BY <1>3, <3>2
    <3>4. x \in Calls
      BY <1>3 DEF Calls
    <3> QED
      BY <2>1, <2>2, <3>1, <3>3, <3>4
  <2>3. CASE ~ ok
    BY <1>1, <2>1, <2>3 DEF Stop
  <2> QED
    BY <2>2, <2>3
<1>7. \A n \in DOMAIN pulls : HeadCommit(n) # NoCommit /\ HeadCommit(n)' = HeadCommit(n)
  BY <1>0, <1>2, <1>5, PullForms DEF RepoTypeOK, HeadCommit
<1>8. RepoTypeOK'
  BY <1>0, <1>2, <1>4, <1>5, <1>6, <1>7 DEF RepoTypeOK
<1>9. TrunkInv'
  BY <1>2 DEF RepoInv, TrunkInv
<1>10. ASSUME NEW d \in Chats PROVE CallInv(d)'
  <2>0. CallInv(d)
    BY DEF RepoInv
  <2>1. CASE d = c /\ chat'[c] = NoCall
    BY <2>1 DEF CallInv, NoCall
  <2>2. CASE d = c /\ ok /\ chat'[c] = x
    BY <1>2, <1>5, <2>0, <2>2 DEF CallInv
  <2>3. CASE d # c
    <3>1. chat'[d] = chat[d]
      BY <1>6, <2>3
    <3>2. chat[d].pc = "pull" => branches'[chat[d].branch] = chat[d].commit
      <4>1. SUFFICES ASSUME chat[d].pc = "pull"
                     PROVE  branches'[chat[d].branch] = chat[d].commit
        OBVIOUS
      <4>2. chat[d].branch \in Branches /\ chat[d].commit \in Commits
        BY <1>0, <4>1, CallForms
      <4>3. branches[chat[d].branch] = chat[d].commit
        BY <2>0, <4>1 DEF CallInv
      <4> QED
        BY <1>5, <4>2, <4>3, NoCommitAssumption
    <3> QED
      BY <1>2, <2>0, <3>1, <3>2 DEF CallInv
  <2> QED
    BY <1>6, <2>1, <2>2, <2>3
<1>11. DistinctInv'
  <2>1. \A d \in Chats : chat'[d].pc # "idle" =>
          chat[d].pc # "idle" /\ chat'[d].content = chat[d].content
    <3>1. NoCall.pc = "idle"
      BY DEF NoCall
    <3>2. x.content = chat[c].content
      OBVIOUS
    <3> QED
      BY <1>2, <1>6, <3>1, <3>2
  <2> QED
    BY <2>1 DEF RepoInv, DistinctInv
<1>12. ASSUME NEW n \in DOMAIN pulls' PROVE PullInv(n)'
  <2>1. PullInv(n) /\ HeadCommit(n)' = HeadCommit(n)
    BY <1>2, <1>7 DEF RepoInv
  <2> QED
    BY <1>2, <2>1 DEF PullInv
<1> QED
  BY <1>8, <1>9, <1>10, <1>11, <1>12 DEF RepoInv

LEMMA OpenPullRequestKeepsInv ==
  ASSUME RepoInv, NEW c \in Chats, OpenPullRequest(c)
  PROVE  RepoInv'
<1> DEFINE p == [branch |-> chat[c].branch, state |-> "open",
                 files |-> chat[c].files, content |-> chat[c].content]
<1>0. RepoTypeOK
  BY DEF RepoInv
<1>1. PICK carried_out \in BOOLEAN, ok \in BOOLEAN :
        /\ Answer(ok)
        /\ pulls' = IF carried_out THEN Append(pulls, p) ELSE pulls
  BY DEF OpenPullRequest
<1>2. /\ chat[c].pc = "pull" /\ Stop(c)
      /\ UNCHANGED <<trunk, branches, proposals, pushes>>
  BY DEF OpenPullRequest
<1>3. apiFailures' \in 0 .. MaxApiFailures
  BY <1>0, <1>1, FaultsCounted
<1>4. CASE ~ carried_out
  BY <1>1, <1>2, <1>3, <1>4, CallStops
<1>5. CASE carried_out
  <2>1. /\ chat[c].branch \in Branches /\ chat[c].files \subseteq Files
        /\ chat[c].content \in Content /\ chat[c].commit \in Commits
    BY <1>0, <1>2, CallForms
  <2>2. /\ chat[c].content <= proposals
        /\ IsProposal(chat[c].commit, chat[c].files, chat[c].content)
        /\ branches[chat[c].branch] = chat[c].commit
    BY <1>2 DEF RepoInv, CallInv
  <2>3. p \in PullRequests
    BY <2>1 DEF PullRequests
  <2>4. pulls \in Seq(PullRequests)
    BY <1>0 DEF RepoTypeOK
  <2>5. /\ pulls' = Append(pulls, p) /\ pulls' \in Seq(PullRequests)
        /\ DOMAIN pulls' = 1 .. Len(pulls) + 1 /\ DOMAIN pulls = 1 .. Len(pulls)
        /\ pulls'[Len(pulls) + 1] = p
        /\ \A n \in 1 .. Len(pulls) : pulls'[n] = pulls[n]
        /\ Len(pulls) \in Nat
    BY <1>1, <1>5, <2>3, <2>4, AppendProperties
  <2> HIDE DEF p
  <2>6. \A n \in DOMAIN pulls' :
          \/ n \in DOMAIN pulls /\ pulls'[n] = pulls[n]
          \/ pulls'[n] = p
    BY <2>5
  <2>7. /\ chat' \in [Chats -> Calls] /\ chat'[c].pc = "idle"
        /\ \A d \in Chats : d # c => chat'[d] = chat[d]
    <3>1. chat' = [chat EXCEPT ![c] = NoCall]
      BY <1>2 DEF Stop
    <3>2. NoCall.pc = "idle" /\ NoCall \in Calls
      BY DEF NoCall, Calls
    <3> QED
      BY <1>0, <3>1, <3>2 DEF RepoTypeOK
  <2>8. p.branch = chat[c].branch /\ p.files = chat[c].files
        /\ p.content = chat[c].content
    BY DEF p
  <2>9. RepoTypeOK'
    <3>1. \A n \in DOMAIN pulls' : HeadCommit(n)' # NoCommit
      BY <1>0, <1>2, <2>1, <2>2, <2>6, <2>8, NoCommitAssumption
      DEF RepoTypeOK, HeadCommit
    <3> QED
      BY <1>0, <1>2, <1>3, <2>5, <2>7, <3>1 DEF RepoTypeOK
  <2>10. TrunkInv'
    BY <1>2 DEF RepoInv, TrunkInv
  <2>11. ASSUME NEW d \in Chats PROVE CallInv(d)'
    <3>1. CASE d = c
      BY <2>7, <3>1 DEF CallInv
    <3>2. CASE d # c
      <4>1. CallInv(d)
        BY DEF RepoInv
      <4>2. chat[d].pc # "idle" => chat[c].content # chat[d].content
        BY <1>2, <3>2 DEF RepoInv, DistinctInv
      <4>3. chat[d].pc # "idle" =>
              \A n \in DOMAIN pulls' : pulls'[n].content # chat[d].content
        BY <2>6, <2>8, <4>1, <4>2 DEF CallInv
      <4> QED
        BY <1>2, <2>7, <3>2, <4>1, <4>3 DEF CallInv
    <3> QED
      BY <3>1, <3>2
  <2>12. DistinctInv'
    BY <2>7 DEF RepoInv, DistinctInv
  <2>13. ASSUME NEW n \in DOMAIN pulls' PROVE PullInv(n)'
    <3>1. CASE n \in DOMAIN pulls /\ pulls'[n] = pulls[n]
      BY <1>2, <3>1 DEF RepoInv, PullInv, HeadCommit
    <3>2. CASE pulls'[n] = p
      BY <1>2, <2>2, <2>8, <3>2 DEF PullInv, HeadCommit
    <3> QED
      BY <2>6, <3>1, <3>2
  <2> QED
    BY <2>9, <2>10, <2>11, <2>12, <2>13 DEF RepoInv
<1> QED
  BY <1>4, <1>5

-----------------------------------------------------------------------------
(* What a merge takes from the head of a PR is what was proposed.          *)
LEMMA MergeTakesProposal ==
  ASSUME RepoInv, NEW n \in DOMAIN pulls
  PROVE  /\ Changed(n) = pulls[n].files
         /\ Merged(n) = [f \in Files |-> IF f \in pulls[n].files
                                         THEN pulls[n].content ELSE trunk[f]]
<1>1. IsProposal(HeadCommit(n), pulls[n].files, pulls[n].content)
  BY DEF RepoInv, PullInv
<1>2. pulls[n].files \subseteq Files
  BY PullForms DEF RepoInv
<1>3. Changed(n) = pulls[n].files
  BY <1>1, <1>2 DEF IsProposal, Changed
<1> QED
  BY <1>1, <1>3 DEF IsProposal, Merged

LEMMA MergeKeepsInv ==
  ASSUME RepoInv, NEW m \in DOMAIN pulls, MergePullRequest(m)
  PROVE  RepoInv'
<1>0. RepoTypeOK
  BY DEF RepoInv
<1>1. /\ trunk' = [f \in Files |-> IF f \in pulls[m].files
                                   THEN pulls[m].content ELSE trunk[f]]
      /\ pulls' = [pulls EXCEPT ![m].state = "merged"]
      /\ UNCHANGED <<branches, chat, proposals, pushes, apiFailures>>
  BY MergeTakesProposal DEF MergePullRequest
<1>2. pulls \in Seq(PullRequests) /\ pulls[m] \in PullRequests
  BY <1>0, PullForms DEF RepoTypeOK
<1>3. /\ DOMAIN pulls' = DOMAIN pulls
      /\ pulls' \in Seq(PullRequests)
      /\ \A n \in DOMAIN pulls : /\ pulls'[n].branch = pulls[n].branch
                                 /\ pulls'[n].files = pulls[n].files
                                 /\ pulls'[n].content = pulls[n].content
  <2>1. [pulls[m] EXCEPT !.state = "merged"] \in PullRequests
    BY <1>2 DEF PullRequests
  <2>2. pulls' = [pulls EXCEPT ![m] = [pulls[m] EXCEPT !.state = "merged"]]
    BY <1>1
  <2>3. pulls' \in Seq(PullRequests)
    BY <1>2, <2>1, <2>2, ExceptSeq
  <2>4. DOMAIN pulls' = DOMAIN pulls
    BY <2>2
  <2>5. ASSUME NEW n \in DOMAIN pulls
        PROVE  /\ pulls'[n].branch = pulls[n].branch
               /\ pulls'[n].files = pulls[n].files
               /\ pulls'[n].content = pulls[n].content
    <3>1. CASE n = m
      <4>1. pulls'[n] = [pulls[m] EXCEPT !.state = "merged"]
        BY <2>2, <3>1
      <4> QED
        BY <1>2, <3>1, <4>1 DEF PullRequests
    <3>2. CASE n # m
      BY <2>2, <3>2
    <3> QED
      BY <3>1, <3>2
  <2> QED
    BY <2>3, <2>4, <2>5
<1>4. pulls[m].content \in Content /\ pulls[m].content <= proposals
  BY <1>0, PullForms DEF RepoInv, PullInv
<1>5. RepoTypeOK'
  <2>1. trunk' \in [Files -> Content]
    BY <1>0, <1>1, <1>4 DEF RepoTypeOK
  <2>2. \A n \in DOMAIN pulls' : HeadCommit(n)' # NoCommit
    BY <1>0, <1>1, <1>3 DEF RepoTypeOK, HeadCommit
  <2> QED
    BY <1>0, <1>1, <1>3, <2>1, <2>2 DEF RepoTypeOK
<1>6. TrunkInv'
  BY <1>1, <1>4 DEF RepoInv, TrunkInv
<1>7. ASSUME NEW d \in Chats PROVE CallInv(d)'
  <2>1. CallInv(d)
    BY DEF RepoInv
  <2> QED
    BY <1>1, <1>3, <2>1 DEF CallInv
<1>8. DistinctInv'
  BY <1>1 DEF RepoInv, DistinctInv
<1>9. ASSUME NEW n \in DOMAIN pulls' PROVE PullInv(n)'
  <2>1. PullInv(n)
    BY <1>3 DEF RepoInv
  <2> QED
    BY <1>1, <1>3, <2>1 DEF PullInv, HeadCommit
<1> QED
  BY <1>5, <1>6, <1>7, <1>8, <1>9 DEF RepoInv

LEMMA PushKeepsInv ==
  ASSUME RepoInv, NEW g \in Files, Push(g)
  PROVE  RepoInv'
<1> DEFINE x == MaxProposals + pushes + 1
<1>0. RepoTypeOK
  BY DEF RepoInv
<1>1. /\ trunk' = [trunk EXCEPT ![g] = x]
      /\ pushes < MaxPushes /\ pushes' = pushes + 1
      /\ UNCHANGED <<branches, pulls, chat, proposals, apiFailures>>
  BY DEF Push
<1>2. /\ x \in Content /\ x > MaxProposals /\ proposals \in Nat /\ proposals < x
      /\ pushes' \in 0 .. MaxPushes /\ Content \subseteq Int
  <2>1. /\ proposals \in 0 .. MaxProposals /\ pushes \in 0 .. MaxPushes
        /\ MaxProposals \in Nat /\ MaxPushes \in Nat
    BY <1>0, RepoBoundsAssumption DEF RepoTypeOK
  <2> QED
    BY <1>0, <1>1, <2>1, Numbering
<1> HIDE DEF x
<1>3. /\ trunk' \in [Files -> Content]
      /\ \A f \in Files : trunk'[f] = trunk[f] \/ trunk'[f] = x
  BY <1>0, <1>1, <1>2 DEF RepoTypeOK
<1>4. RepoTypeOK'
  BY <1>0, <1>1, <1>2, <1>3 DEF RepoTypeOK, HeadCommit
<1>5. TrunkInv'
  BY <1>1, <1>2, <1>3 DEF RepoInv, TrunkInv
<1>6. ASSUME NEW d \in Chats PROVE CallInv(d)'
  <2>1. CallInv(d)
    BY DEF RepoInv
  <2>2. chat[d].pc # "idle" => chat[d].content \in Int /\ chat[d].content <= proposals
    BY <1>0, <1>2, <2>1, CallForms DEF CallInv
  <2>3. chat[d].pc # "idle" => chat[d].content # x
    BY <1>2, <2>2
  <2> QED
    BY <1>1, <1>3, <2>1, <2>3 DEF CallInv
<1>7. DistinctInv'
  BY <1>1 DEF RepoInv, DistinctInv
<1>8. ASSUME NEW n \in DOMAIN pulls' PROVE PullInv(n)'
  BY <1>1 DEF RepoInv, PullInv, HeadCommit
<1> QED
  BY <1>4, <1>5, <1>6, <1>7, <1>8 DEF RepoInv

LEMMA RepoInitially == RepoInit => RepoInv
<1> SUFFICES ASSUME RepoInit PROVE RepoInv
  OBVIOUS
<1>1. NoCall.pc = "idle" /\ NoCall \in Calls
  BY DEF NoCall, Calls
<1>2. \A c \in Chats : chat[c].pc = "idle"
  BY <1>1 DEF RepoInit
<1>3. DOMAIN pulls = {} /\ pulls \in Seq(PullRequests)
  BY EmptySeq DEF RepoInit
<1>4. RepoTypeOK
  BY <1>1, <1>3, RepoBoundsAssumption DEF RepoInit, RepoTypeOK, Content
<1>5. TrunkInv
  BY DEF RepoInit, TrunkInv
<1> QED
  BY <1>2, <1>3, <1>4, <1>5 DEF RepoInv, CallInv, DistinctInv

LEMMA RepoStep == RepoInv /\ [RepoNext]_repoVars => RepoInv'
<1> SUFFICES ASSUME RepoInv, [RepoNext]_repoVars PROVE RepoInv'
  OBVIOUS
<1>1. CASE \E c \in Chats : ChatStep(c)
  BY <1>1, ProposeKeepsInv, ReadBaseKeepsInv, CommitKeepsInv, CreateBranchKeepsInv,
     OpenPullRequestKeepsInv DEF ChatStep
<1>2. CASE \E n \in DOMAIN pulls : MergePullRequest(n)
  BY <1>2, MergeKeepsInv
<1>3. CASE \E f \in Files : Push(f)
  BY <1>3, PushKeepsInv
<1>4. CASE UNCHANGED repoVars
  BY <1>4 DEF repoVars, RepoInv, RepoTypeOK, TrunkInv, CallInv, DistinctInv, PullInv,
              HeadCommit
<1> QED
  BY <1>1, <1>2, <1>3, <1>4 DEF RepoNext

LEMMA RepoInductive == RepoSpec => []RepoInv
<1> QED
  BY RepoInitially, RepoStep, PTL DEF RepoSpec

-----------------------------------------------------------------------------
(* Every call holds what its step needs, every PR names a branch that      *)
(* exists, and contents stay within their numbers.                         *)
THEOREM RepoTypeCorrect == RepoSpec => []RepoTypeOK
<1>1. RepoInv => RepoTypeOK
  BY DEF RepoInv
<1> QED
  BY <1>1, RepoInductive, PTL

(* The PR a reviewer looks at shows what its chat proposed: create_branch  *)
(* fails for a name that is taken, so no other call moves its head.        *)
THEOREM PullsShowProposals == RepoSpec => []PullShowsProposal
<1>1. RepoInv => PullShowsProposal
  <2> SUFFICES ASSUME RepoInv, NEW n \in DOMAIN pulls, NEW f \in pulls[n].files
               PROVE  HeadCommit(n).tree[f] = pulls[n].content
    BY DEF PullShowsProposal
  <2>1. f \in Files
    BY PullForms DEF RepoInv
  <2>2. IsProposal(HeadCommit(n), pulls[n].files, pulls[n].content)
    BY DEF RepoInv, PullInv
  <2> QED
    BY <2>1, <2>2 DEF IsProposal
<1> QED
  BY <1>1, RepoInductive, PTL

(* A merge puts the proposal on main and leaves what others changed since  *)
(* alone: the commit has the very main it read as parent and as base tree. *)
THEOREM MergesLoseNothing == RepoSpec => MergeLosesNoUpdate
<1> DEFINE Kept(n) ==
      pulls'[n].state # pulls[n].state =>
        \A f \in Files :
          trunk'[f] = IF f \in pulls[n].files THEN pulls[n].content ELSE trunk[f]
<1>1. RepoInv /\ [RepoNext]_repoVars => [\A n \in DOMAIN pulls : Kept(n)]_repoVars
  <2> SUFFICES ASSUME RepoInv, RepoNext, NEW n \in DOMAIN pulls PROVE Kept(n)
    OBVIOUS
  <2>1. CASE \E m \in DOMAIN pulls : MergePullRequest(m)
    <3>1. PICK m \in DOMAIN pulls : MergePullRequest(m)
      BY <2>1
    <3>2. /\ trunk' = [f \in Files |-> IF f \in pulls[m].files
                                       THEN pulls[m].content ELSE trunk[f]]
          /\ pulls' = [pulls EXCEPT ![m].state = "merged"]
      BY <3>1, MergeTakesProposal DEF MergePullRequest
    <3>3. n # m => pulls'[n] = pulls[n]
      BY <3>2
    <3> QED
      BY <3>2, <3>3
  <2>2. CASE \E c \in Chats : OpenPullRequest(c)
    <3>1. pulls \in Seq(PullRequests) /\ n \in 1 .. Len(pulls)
      BY DEF RepoInv, RepoTypeOK
    <3>2. PICK c \in Chats : OpenPullRequest(c)
      BY <2>2
    <3>3. pulls' = pulls \/ \E p : pulls' = Append(pulls, p)
      BY <3>2 DEF OpenPullRequest
    <3>4. pulls'[n] = pulls[n]
      BY <3>1, <3>3
    <3> QED
      BY <3>4
  <2>3. CASE UNCHANGED pulls
    BY <2>3
  <2> QED
    BY <2>1, <2>2, <2>3
    DEF RepoNext, ChatStep, Propose, ReadBase, Commit, CreateBranch, Push
<1>2. RepoSpec => [][\A n \in DOMAIN pulls : Kept(n)]_repoVars
  BY <1>1, RepoInductive, PTL DEF RepoSpec
<1> QED
  BY <1>2 DEF MergeLosesNoUpdate

-----------------------------------------------------------------------------
(* The two next to each other.                                             *)

LEMMA AuthoringImplementsComponents == FairSpec => CreatorSpec /\ RepoSpec
<1>1. Init => CreatorInit /\ RepoInit
  BY DEF Init
<1>2. [Next]_<<creatorVars, repoVars, focus>>
        => [CreatorNext]_creatorVars /\ [RepoNext]_repoVars
  BY DEF Next
<1>3. QED
  BY <1>1, <1>2, PTL DEF FairSpec, Spec, CreatorSpec, RepoSpec

(* The types of the tool, the planners and what they write.                *)
LEMMA CreatorTypes == CreatorInv => CreatorTypeOK
<1> SUFFICES ASSUME CreatorInv PROVE CreatorTypeOK
  OBVIOUS
<1>1. refs \in Documents /\ DOMAIN refs \in SUBSET Codenames
  BY DocumentForms DEF CreatorInv
<1>2. issues \in Seq(Bodies) /\ DOMAIN issues = 1 .. Len(issues)
  BY DEF CreatorInv, ListFits
<1>3. \A n \in DOMAIN issues : issues[n].codename \in Codenames
  <2>1. \A n \in DOMAIN issues : issues[n] \in Bodies
    BY <1>2
  <2>2. QED
    BY <2>1 DEF Bodies
<1>4. /\ creator.pc \in {"idle", "create"}
      /\ DOMAIN creator.mapping \subseteq Codenames
      /\ \A c \in DOMAIN creator.mapping : creator.mapping[c] \in 1 .. Len(issues)
      /\ \A k \in DOMAIN creator.order : creator.order[k] \in Codenames
  <2>1. CASE creator.pc = "idle"
    <3>1. creator.mapping = <<>> /\ creator.order = <<>>
      BY <2>1 DEF CreatorInv, ToolFits, NotRunning
    <3>2. DOMAIN creator.mapping = {} /\ DOMAIN creator.order = {}
      BY <3>1
    <3>3. QED
      BY <2>1, <3>2
  <2>2. CASE creator.pc = "create"
    <3>1. /\ creator.order \in Seq(DOMAIN refs)
          /\ DOMAIN creator.mapping \subseteq DOMAIN refs
          /\ \A c \in DOMAIN creator.mapping : creator.mapping[c] \in 1 .. Len(issues)
      BY <2>2 DEF CreatorInv, ToolFits
    <3>2. \A k \in DOMAIN creator.order : creator.order[k] \in DOMAIN refs
      BY <3>1
    <3>3. QED
      BY <1>1, <2>2, <3>1, <3>2
  <2>3. QED
    BY <2>1, <2>2 DEF CreatorInv, ToolFits
<1>5. rows \subseteq [issue : 1 .. Len(issues), layer : Nat, by : Planners]
  BY DEF CreatorInv, RowsFit
<1>6. \A p \in Planners : /\ scan[p].pc \in {"idle", "fetch", "read", "commit"}
                          /\ scan[p].fetched \subseteq 1 .. Len(issues)
  BY DEF CreatorInv, ScanFits
<1>7. QED
  BY <1>1, <1>3, <1>4, <1>5, <1>6 DEF CreatorInv, CreatorTypeOK

(* The tool, the planners and the changes of the repository keep their     *)
(* types next to each other.                                               *)
THEOREM AuthoringTypeCorrect == FairSpec => []TypeOK
<1>1. CreatorTypeOK /\ RepoTypeOK => TypeOK
  BY DEF TypeOK
<1>2. QED
  BY <1>1, AuthoringImplementsComponents, CreatorInductive, CreatorTypes,
     RepoTypeCorrect, PTL

(* topological_order raises for a cycle and for nothing else, so that the  *)
(* tool refuses exactly the documents that have no order.                  *)
THEOREM RefusalsAreExact == FairSpec => []RefusesExactlyTheUnorderable
<1>1. CreatorInv => RefusesExactlyTheUnorderable
  BY AcceptedIffOrderable DEF CreatorInv, RefusesExactlyTheUnorderable
<1>2. QED
  BY <1>1, AuthoringImplementsComponents, CreatorInductive, PTL

(* No issue is ever visible with a codename left in its body, and its      *)
(* numbers are those of the issues the codenames stand for, wherever gh    *)
(* stopped the tool.                                                       *)
THEOREM ReferencesAreResolved == FairSpec => []ReferencesResolved
<1>1. CreatorInv => ReferencesResolved
  <2> SUFFICES ASSUME CreatorInv, NEW n \in DOMAIN issues
               PROVE  /\ issues[n].left = {}
                      /\ \A b \in issues[n].blocked_by :
                           b < n /\ issues[b].codename \in refs[issues[n].codename]
                      /\ Cardinality(issues[n].blocked_by)
                           = Cardinality(refs[issues[n].codename])
    BY DEF ReferencesResolved
  <2>1. n \in 1 .. Len(issues) /\ n \in Nat
    BY DEF CreatorInv, ListFits
  <2>2. IssueFits(refs, issues, n)
    BY <2>1 DEF CreatorInv, ListFits
  <2>3. \A b \in 1 .. n - 1 : b < n
    BY <2>1
  <2>4. QED
    BY <2>2, <2>3 DEF IssueFits
<1>2. QED
  BY <1>1, AuthoringImplementsComponents, CreatorInductive, PTL

(* An issue has one row, and those it is blocked by have rows in lower     *)
(* layers, although planners race each other and read page by page while   *)
(* the issues are being created.                                           *)
THEOREM PlansAreSound == FairSpec => []PlanIsSound
<1>1. CreatorInv => PlanIsSound
  <2> SUFFICES ASSUME CreatorInv PROVE PlanIsSound
    OBVIOUS
  <2>1. /\ issues \in Seq(Bodies)
        /\ \A n \in 1 .. Len(issues) : issues[n].blocked_by \subseteq 1 .. Len(issues)
    BY BlockersAreListed DEF CreatorInv
  <2>2. ASSUME NEW r \in rows, NEW b \in issues[r.issue].blocked_by
        PROVE  \E s \in rows : s.issue = b /\ s.layer < r.layer
    <3>1. PICK s \in rows : s.issue = b
      BY <2>2 DEF CreatorInv, RowsFit
    <3>2. r.issue \in 1 .. Len(issues)
      BY DEF CreatorInv, RowsFit
    <3>3. Deep(issues, r.issue, r.layer) /\ Deep(issues, b, s.layer)
      BY <3>1 DEF CreatorInv, RowsFit
    <3>4. s.layer < r.layer
      BY <2>1, <3>2, <3>3, BlockerIsLessDeep
    <3>5. QED
      BY <3>1, <3>4
  <2>3. \A r, s \in rows : r.issue = s.issue => r = s
    BY DEF CreatorInv, RowsFit
  <2>4. QED
    BY <2>2, <2>3 DEF PlanIsSound
<1>2. QED
  BY <1>1, AuthoringImplementsComponents, CreatorInductive, PTL
=============================================================================
