-------------------------- MODULE TaskQueueProofs --------------------------
(***************************************************************************)
(* The queue, the handlers, the timers, the sweeper and crashes touch the  *)
(* task tables through the transactions of AsyncTask only, so what is      *)
(* proved of the tables in AsyncTaskProofs holds of the whole of           *)
(* TaskQueue.  What makes it so is that every job, wherever it is, is a    *)
(* job of a known task and item (JobsInv).                                 *)
(*                                                                         *)
(* Besides: no retry waits beyond its deadline, the in-flight map and the  *)
(* gauges are exact (CountInv), and an open item has a job (OpenInv).      *)
(***************************************************************************)
EXTENDS TaskQueue, AsyncTaskProofs, SequenceTheorems, FiniteSetTheorems, Folds

\* Every job in the channel, at a worker or on a timer, every item still to be
\* dispatched and everything the sweeper has read is of a known task and item.
JobsInv ==
  /\ queue \in Seq(Job)
  /\ worker \in [Workers -> WorkerState]
  /\ BagToSet(away) \subseteq Absence
  /\ todo \in [Tasks -> SUBSET Keys]
  /\ sweep \in [pc : {"due", "check", "rest"}, ids : SUBSET Tasks, refs : SUBSET (Tasks \X Keys)]

-----------------------------------------------------------------------------
(* Sums over finite sets.  SumFunctionOnSet is defined by recursion, through a    *)
(* CHOOSE of the recursive function; that there is such a function, and what it   *)
(* computes, follows from the well-foundedness of the strict subset ordering.     *)

\* The member of a set that the sum takes first.
Picked(s) == CHOOSE x \in s : TRUE

\* A family of subsets of a finite set has a member with no smaller one.
LEMMA MinimalSubset ==
  ASSUME NEW X, IsFiniteSet(X), NEW F \in SUBSET (SUBSET X), F # {}
  PROVE  \E s \in F : \A r \in F : r \subseteq s => r = s
  <1>1. IsWellFoundedOn(StrictSubsetOrdering(X), FiniteSubsetsOf(X))
    BY FS_StrictSubsetOrderingWellFounded
  <1>2. F \subseteq FiniteSubsetsOf(X)
    BY FS_FiniteSubsetsOfFinite
  <1>3. PICK s \in F : \A r \in F : ~(<<r, s>> \in StrictSubsetOrdering(X))
    BY <1>1, <1>2, WFMin
  <1>4. ASSUME NEW r \in F, r \subseteq s, r # s
        PROVE  FALSE
    <2>1. <<r, s>> \in StrictSubsetOrdering(X)
      BY <1>4 DEF StrictSubsetOrdering
    <2> QED BY <2>1, <1>3
  <1> QED BY <1>3, <1>4

\* Induction over the subsets of a finite set: what holds of the empty set, and of
\* a set when it holds of the set without any one of its members, holds of all.
LEMMA SubsetInduction ==
  ASSUME NEW X, IsFiniteSet(X), NEW P \in SUBSET (SUBSET X), {} \in P,
         \A s \in SUBSET X : s # {} /\ (\A x \in s : s \ {x} \in P) => s \in P
  PROVE  P = SUBSET X
  <1> DEFINE F == (SUBSET X) \ P
  <1> SUFFICES ASSUME F # {} PROVE FALSE
    OBVIOUS
  <1>1. F \in SUBSET (SUBSET X)
    OBVIOUS
  <1>2. PICK s \in F : \A r \in F : r \subseteq s => r = s
    <2> HIDE DEF F
    <2> QED BY <1>1, MinimalSubset
  <1>3. \A x \in s : s \ {x} \in SUBSET X /\ s \ {x} \notin F
    BY <1>2
  <1> QED BY <1>2, <1>3

\* A function that gives every subset of X its sum.
Sums(fun, X, g) ==
  g = [s \in SUBSET X |-> IF s = {} THEN 0 ELSE fun[Picked(s)] + g[s \ {Picked(s)}]]

\* There is such a function: by induction over how large the sets are that it gets
\* right.
LEMMA SumsExist ==
  ASSUME NEW fun, NEW X, IsFiniteSet(X)
  PROVE  \E g : Sums(fun, X, g)
  <1> DEFINE Upto(n) == {s \in SUBSET X : Cardinality(s) <= n}
  <1> DEFINE Good(n) ==
        \E g : /\ g = [s \in SUBSET X |-> g[s]]
              /\ \A s \in Upto(n) : g[s] = IF s = {} THEN 0 ELSE fun[Picked(s)] + g[s \ {Picked(s)}]
  <1>1. \A s \in SUBSET X : IsFiniteSet(s) /\ Cardinality(s) \in Nat /\ (Cardinality(s) = 0 <=> s = {})
    BY FS_Subset, FS_CardinalityType, FS_EmptySet
  <1>2. Good(0)
    <2> DEFINE g == [s \in SUBSET X |-> 0]
    <2>1. \A s \in Upto(0) : s = {}
      BY <1>1
    <2>2. g = [s \in SUBSET X |-> g[s]] 
      OBVIOUS
    <2>3. \A s \in Upto(0) : g[s] = 0
      OBVIOUS
    <2> HIDE DEF g
    <2> QED BY <2>1, <2>2, <2>3
  <1>3. ASSUME NEW n \in Nat, Good(n) PROVE Good(n+1)
    <2>1. PICK g :
            /\ g = [s \in SUBSET X |-> g[s]]
            /\ \A s \in Upto(n) : g[s] = IF s = {} THEN 0 ELSE fun[Picked(s)] + g[s \ {Picked(s)}]
      BY <1>3
    <2> DEFINE h == [s \in SUBSET X |-> IF s = {} THEN 0 ELSE fun[Picked(s)] + g[s \ {Picked(s)}]]
    <2>2. \A s \in Upto(n) : h[s] = g[s]
      BY <2>1
    <2>3. ASSUME NEW s \in Upto(n+1), s # {}
          PROVE  s \ {Picked(s)} \in Upto(n)
      <3>1. Picked(s) \in s
        BY <2>3 DEF Picked
      <3>2. Cardinality(s \ {Picked(s)}) = Cardinality(s) - 1
        BY <3>1, <1>1, FS_RemoveElement
      <3> QED BY <3>2, <1>1
    <2>4. \A s \in Upto(n+1) : h[s] = IF s = {} THEN 0 ELSE fun[Picked(s)] + h[s \ {Picked(s)}]
      <3> SUFFICES ASSUME NEW s \in Upto(n+1), s # {}
                   PROVE h[s] = fun[Picked(s)] + h[s \ {Picked(s)}]
        OBVIOUS
      <3>1. h[s] = fun[Picked(s)] + g[s \ {Picked(s)}]
        OBVIOUS
      <3> HIDE DEF h, Upto
      <3> QED BY <3>1, <2>2, <2>3
    <2>5. h = [s \in SUBSET X |-> h[s]]
      OBVIOUS
    <2> HIDE DEF h, Upto
    <2> QED BY <2>4, <2>5
  <1>4. Cardinality(X) \in Nat /\ Upto(Cardinality(X)) = SUBSET X
    BY FS_Subset, FS_CardinalityType
  <1>5. ASSUME NEW n \in Nat PROVE Good(n)
    <2> HIDE DEF Good
    <2> DEFINE Bad == {m \in Nat : ~Good(m)}
    <2> SUFFICES ASSUME Bad # {} PROVE FALSE
      OBVIOUS
    <2>1. PICK m \in Bad : \A k \in Bad : ~(<<k, m>> \in OpToRel(<, Nat))
      BY NatLessThanWellFounded, WFMin
    <2>2. \A k \in Nat : k < m => Good(k)
      BY <2>1 DEF OpToRel
    <2>3. m # 0
      BY <1>2
    <2>4. m - 1 \in Nat /\ Good(m - 1)
      BY <2>2, <2>3
    <2>5. Good((m - 1) + 1)
      BY <2>4, <1>3
    <2> QED BY <2>5
  <1>6. PICK g :
          /\ g = [s \in SUBSET X |-> g[s]]
          /\ \A s \in SUBSET X : g[s] = IF s = {} THEN 0 ELSE fun[Picked(s)] + g[s \ {Picked(s)}]
    BY <1>4, <1>5
  <1> QED
    BY <1>6 DEF Sums

\* The sum of the community modules is the value of one of these functions.
LEMMA SumIsSums ==
  ASSUME NEW fun, NEW X, IsFiniteSet(X)
  PROVE  \E g : Sums(fun, X, g) /\ SumFunctionOnSet(fun, X) = g[X]
  <1> DEFINE G == CHOOSE g :
        g = [s \in SUBSET X |->
               IF s = {} THEN 0
               ELSE fun[CHOOSE x \in s : TRUE] + g[s \ {CHOOSE x \in s : TRUE}]]
  <1>1. SumFunctionOnSet(fun, X) = G[X]
    BY DEF SumFunctionOnSet, FoldFunctionOnSet, MapThenFoldSet
  <1>2. Sums(fun, X, CHOOSE g : Sums(fun, X, g))
    BY SumsExist
  <1>3. G = CHOOSE g : Sums(fun, X, g)
    BY Zenon DEF Sums, Picked
  <1> QED BY <1>1, <1>2, <1>3

\* Two of these functions agree where both are defined.
LEMMA SumsAgree ==
  ASSUME NEW fun, NEW X, IsFiniteSet(X), NEW Y \in SUBSET X,
         NEW g, Sums(fun, X, g), NEW h, Sums(fun, Y, h)
  PROVE  \A s \in SUBSET Y : g[s] = h[s]
  <1> DEFINE P == {s \in SUBSET Y : g[s] = h[s]}
  <1>1. IsFiniteSet(Y) /\ P \in SUBSET (SUBSET Y)
    BY FS_Subset
  <1>2. {} \in P
    BY DEF Sums
  <1>3. ASSUME NEW s \in SUBSET Y, s # {}, \A x \in s : s \ {x} \in P
        PROVE  s \in P
    <2>1. Picked(s) \in s
      BY <1>3 DEF Picked
    <2>2. g[s \ {Picked(s)}] = h[s \ {Picked(s)}]
      BY <1>3, <2>1
    <2> QED
      BY <1>3, <2>2 DEF Sums
  <1>4. P = SUBSET Y
    <2> HIDE DEF P
    <2> QED BY <1>1, <1>2, <1>3, SubsetInduction
  <1> QED
    BY <1>4

\* A sum is the picked term and the sum of the rest.
LEMMA SumUnfold ==
  ASSUME NEW fun, NEW X, IsFiniteSet(X)
  PROVE  SumFunctionOnSet(fun, X) =
           IF X = {} THEN 0 ELSE fun[Picked(X)] + SumFunctionOnSet(fun, X \ {Picked(X)})
  <1> DEFINE Y == X \ {Picked(X)}
  <1>1. Y \in SUBSET X /\ IsFiniteSet(Y)
    BY FS_Subset
  <1>2. PICK g : Sums(fun, X, g) /\ SumFunctionOnSet(fun, X) = g[X]
    BY SumIsSums
  <1>3. PICK h : Sums(fun, Y, h) /\ SumFunctionOnSet(fun, Y) = h[Y]
    BY <1>1, SumIsSums
  <1>4. g[Y] = h[Y]
    BY <1>1, <1>2, <1>3, SumsAgree
  <1>5. g[X] = IF X = {} THEN 0 ELSE fun[Picked(X)] + g[Y]
    BY <1>2 DEF Sums
  <1> QED
    BY <1>2, <1>3, <1>4, <1>5

\* The sum of nothing.
LEMMA SumOfNone ==
  ASSUME NEW fun
  PROVE  SumFunctionOnSet(fun, {}) = 0
  BY FS_EmptySet, SumUnfold

\* A sum of natural numbers is one.
LEMMA SumIsNat ==
  ASSUME NEW fun, NEW X, IsFiniteSet(X), \A x \in X : fun[x] \in Nat
  PROVE  SumFunctionOnSet(fun, X) \in Nat
  <1> DEFINE P == {s \in SUBSET X : SumFunctionOnSet(fun, s) \in Nat}
  <1>1. {} \in P
    BY SumOfNone
  <1>2. ASSUME NEW s \in SUBSET X, s # {}, \A x \in s : s \ {x} \in P
        PROVE  s \in P
    <2>1. IsFiniteSet(s)
      BY FS_Subset
    <2>2. Picked(s) \in s
      BY <1>2 DEF Picked
    <2>3. SumFunctionOnSet(fun, s) = fun[Picked(s)] + SumFunctionOnSet(fun, s \ {Picked(s)})
      BY <1>2, <2>1, SumUnfold
    <2>4. SumFunctionOnSet(fun, s \ {Picked(s)}) \in Nat /\ fun[Picked(s)] \in Nat
      BY <1>2, <2>2
    <2> QED
      BY <2>3, <2>4
  <1>3. P \in SUBSET (SUBSET X)
    OBVIOUS
  <1>4. P = SUBSET X
    <2> HIDE DEF P
    <2> QED BY <1>1, <1>2, <1>3, SubsetInduction
  <1> QED
    BY <1>4

\* Any term may be taken out of a sum, not only the picked one.
LEMMA SumRemove ==
  ASSUME NEW fun, NEW X, IsFiniteSet(X), \A x \in X : fun[x] \in Nat, NEW y \in X
  PROVE  SumFunctionOnSet(fun, X) = fun[y] + SumFunctionOnSet(fun, X \ {y})
  <1> DEFINE S(s) == SumFunctionOnSet(fun, s)
  <1> DEFINE P == {s \in SUBSET X : \A x \in s : S(s) = fun[x] + S(s \ {x})}
  <1>1. \A r \in SUBSET X : IsFiniteSet(r) /\ S(r) \in Nat
    BY FS_Subset, SumIsNat
  <1>2. ASSUME NEW s \in SUBSET X, s # {}, \A x \in s : s \ {x} \in P, NEW x \in s
        PROVE  S(s) = fun[x] + S(s \ {x})
    <2> DEFINE c == Picked(s)
    <2>1. c \in s
      BY <1>2 DEF Picked
    <2>2. S(s) = fun[c] + S(s \ {c})
      BY <1>1, <1>2, SumUnfold
    <2>3. CASE c = x
      BY <2>2, <2>3
    <2>4. CASE c # x
      <3>1. S(s \ {c}) = fun[x] + S((s \ {c}) \ {x})
        BY <1>2, <2>1, <2>4
      <3>2. S(s \ {x}) = fun[c] + S((s \ {x}) \ {c})
        BY <1>2, <2>1, <2>4
      <3>3. (s \ {x}) \ {c} = (s \ {c}) \ {x}
        OBVIOUS
      <3>4. fun[c] \in Nat /\ fun[x] \in Nat /\ S((s \ {c}) \ {x}) \in Nat
        BY <1>1, <1>2, <2>1
      <3> HIDE DEF S, c
      <3> QED
        BY <2>2, <3>1, <3>2, <3>3, <3>4
    <2> QED BY <2>3, <2>4
  <1>3. P \in SUBSET (SUBSET X) /\ {} \in P
    OBVIOUS
  <1>4. \A s \in SUBSET X : s # {} /\ (\A x \in s : s \ {x} \in P) => s \in P
    BY <1>2
  <1>5. P = SUBSET X
    <2> HIDE DEF P
    <2> QED BY <1>3, <1>4, SubsetInduction
  <1> QED
    BY <1>5

\* Equal terms have equal sums.
LEMMA SumAgree ==
  ASSUME NEW fun, NEW gun, NEW X, IsFiniteSet(X), \A x \in X : fun[x] = gun[x]
  PROVE  SumFunctionOnSet(fun, X) = SumFunctionOnSet(gun, X)
  <1> DEFINE P == {s \in SUBSET X : SumFunctionOnSet(fun, s) = SumFunctionOnSet(gun, s)}
  <1>1. {} \in P
    BY SumOfNone
  <1>2. ASSUME NEW s \in SUBSET X, s # {}, \A x \in s : s \ {x} \in P
        PROVE  s \in P
    <2>1. IsFiniteSet(s)
      BY FS_Subset
    <2>2. Picked(s) \in s
      BY <1>2 DEF Picked
    <2>3. /\ SumFunctionOnSet(fun, s) = fun[Picked(s)] + SumFunctionOnSet(fun, s \ {Picked(s)})
          /\ SumFunctionOnSet(gun, s) = gun[Picked(s)] + SumFunctionOnSet(gun, s \ {Picked(s)})
      BY <1>2, <2>1, SumUnfold
    <2>4. SumFunctionOnSet(fun, s \ {Picked(s)}) = SumFunctionOnSet(gun, s \ {Picked(s)})
      BY <1>2, <2>2
    <2> QED
      BY <2>2, <2>3, <2>4
  <1>3. P \in SUBSET (SUBSET X)
    OBVIOUS
  <1>4. P = SUBSET X
    <2> HIDE DEF P
    <2> QED BY <1>1, <1>2, <1>3, SubsetInduction
  <1> QED
    BY <1>4

\* The sum over two disjoint sets is the sum of the sums.
LEMMA SumUnion ==
  ASSUME NEW fun, NEW X, NEW Y, IsFiniteSet(X), IsFiniteSet(Y), X \cap Y = {},
         \A x \in X \cup Y : fun[x] \in Nat
  PROVE  SumFunctionOnSet(fun, X \cup Y) = SumFunctionOnSet(fun, X) + SumFunctionOnSet(fun, Y)
  <1> DEFINE S(s) == SumFunctionOnSet(fun, s)
  <1> DEFINE P == {s \in SUBSET Y : S(X \cup s) = S(X) + S(s)}
  <1>1. \A r \in SUBSET (X \cup Y) : IsFiniteSet(r) /\ S(r) \in Nat
    <2>1. IsFiniteSet(X \cup Y)
      BY FS_Union
    <2> QED BY <2>1, FS_Subset, SumIsNat
  <1>2. {} \in P
    <2>1. S({}) = 0 /\ S(X) \in Nat
      BY <1>1, SumOfNone
    <2>2. X \cup {} = X
      OBVIOUS
    <2> HIDE DEF S
    <2> QED BY <2>1, <2>2
  <1>3. ASSUME NEW s \in SUBSET Y, s # {}, \A x \in s : s \ {x} \in P
        PROVE  s \in P
    <2>1. PICK y \in s : TRUE
      BY <1>3
    <2>2. S(X \cup (s \ {y})) = S(X) + S(s \ {y})
      BY <1>3
    <2>3. (X \cup s) \ {y} = X \cup (s \ {y})
      OBVIOUS
    <2>4. IsFiniteSet(X \cup s) /\ IsFiniteSet(s) /\ \A x \in X \cup s : fun[x] \in Nat
      BY <1>1
    <2>5. S(X \cup s) = fun[y] + S(X \cup (s \ {y}))
      BY <2>3, <2>4, SumRemove
    <2>6. S(s) = fun[y] + S(s \ {y})
      BY <2>4, SumRemove
    <2>7. fun[y] \in Nat /\ S(s \ {y}) \in Nat /\ S(X) \in Nat
      BY <1>1, <2>4
    <2> HIDE DEF S
    <2> QED
      BY <2>2, <2>5, <2>6, <2>7
  <1>4. P \in SUBSET (SUBSET Y)
    OBVIOUS
  <1>5. P = SUBSET Y
    <2> HIDE DEF P
    <2> QED BY <1>2, <1>3, <1>4, SubsetInduction
  <1> QED
    BY <1>5

\* The members of X that the function to maps to y, and into s.
Fibre(to, X, y) == {x \in X : to[x] = y}
Above(to, X, s) == {x \in X : to[x] \in s}

\* Terms that are summed in groups, and then group by group, have the same sum.
LEMMA SumFibres ==
  ASSUME NEW fun, NEW to, NEW X, IsFiniteSet(X), \A x \in X : fun[x] \in Nat,
         NEW Y, IsFiniteSet(Y),
         NEW gun, \A y \in Y : gun[y] = SumFunctionOnSet(fun, Fibre(to, X, y))
  PROVE  SumFunctionOnSet(gun, Y) = SumFunctionOnSet(fun, Above(to, X, Y))
  <1> DEFINE From(s) == Above(to, X, s)
  <1> DEFINE S(s) == SumFunctionOnSet(fun, s)
  <1> DEFINE G(s) == SumFunctionOnSet(gun, s)
  <1> DEFINE P == {s \in SUBSET Y : G(s) = S(From(s))}
  <1>1. \A r \in SUBSET X : IsFiniteSet(r) /\ S(r) \in Nat
    BY FS_Subset, SumIsNat
  <1>2. {} \in P
    <2>1. From({}) = {}
      BY DEF Above
    <2> QED BY <2>1, SumOfNone
  <1>3. ASSUME NEW s \in SUBSET Y, s # {}, \A y \in s : s \ {y} \in P
        PROVE  s \in P
    <2>1. PICK y \in s : TRUE
      BY <1>3
    <2> DEFINE Here == Fibre(to, X, y)
    <2>2. G(s \ {y}) = S(From(s \ {y}))
      BY <1>3
    <2>3. gun[y] = S(Here) /\ \A x \in s : gun[x] \in Nat
      BY <1>1 DEF Fibre
    <2>4. IsFiniteSet(s)
      BY FS_Subset
    <2>5. G(s) = gun[y] + G(s \ {y})
      BY <2>3, <2>4, SumRemove
    <2>6. From(s) = Here \cup From(s \ {y}) /\ Here \cap From(s \ {y}) = {}
      BY DEF Fibre, Above
    <2>7. /\ Here \in SUBSET X /\ From(s \ {y}) \in SUBSET X
          /\ \A x \in Here \cup From(s \ {y}) : fun[x] \in Nat
      BY DEF Fibre, Above
    <2>8. S(Here \cup From(s \ {y})) = S(Here) + S(From(s \ {y}))
      <3> HIDE DEF Here, From
      <3> QED BY <1>1, <2>6, <2>7, SumUnion
    <2> HIDE DEF S, G, From, Here
    <2>9. G(s) = S(From(s))
      BY <2>2, <2>3, <2>5, <2>6, <2>8
    <2> QED BY <2>9
  <1>4. P \in SUBSET (SUBSET Y)
    OBVIOUS
  <1>5. P = SUBSET Y
    <2> HIDE DEF P
    <2> QED BY <1>2, <1>3, <1>4, SubsetInduction
  <1> QED
    BY <1>5

-----------------------------------------------------------------------------
\* Adding to a bag and removing from it, by what the bag contains.
LEMMA BagMembers ==
  ASSUME NEW B, NEW x
  PROVE  /\ BagToSet(With(B, x)) = BagToSet(B) \cup {x}
         /\ BagToSet(Without(B, x)) \subseteq BagToSet(B)
  BY DEF With, Without, BagToSet, SetToBag, (+), (-)

\* A job carries a whole number of ticks to its deadline.
LEMMA JobFacts ==
  ASSUME NEW j \in Job
  PROVE  /\ j.task \in Tasks /\ j.key \in Keys
         /\ j.attempt \in Nat /\ j.attempt <= Retries
         /\ j.release \in Nat /\ j.release <= MaxReleases
         /\ j.left \in Nat /\ j.left <= NoDeadline
  BY QueueAssumption DEF Job, NoDeadline

\* The job of a worker that is not idle.
LEMMA WorkerJob ==
  ASSUME worker \in [Workers -> WorkerState], NEW w \in Workers, worker[w].pc # "idle"
  PROVE  worker[w] \in [pc : {"taken", "failed"} \cup InHandler, job : Job]
  BY DEF WorkerState, Idle

\* The delay before a run is one of the delays of the configuration.
LEMMA DelayIsPositive ==
  ASSUME NEW j \in Job
  PROVE  Delay(j) \in Nat \ {0}
  <1>1. Len(Backoff) \in Nat /\ Len(Backoff) >= 1
    BY QueueAssumption, EmptySeq, LenProperties
  <1>2. j.attempt + 1 \in Nat /\ j.attempt + 1 >= 1
    BY JobFacts
  <1>3. \A i \in 1 .. Len(Backoff) : Backoff[i] \in Nat \ {0}
    BY QueueAssumption, ElementOfSeq
  <1> DEFINE i == IF j.attempt + 1 < Len(Backoff) THEN j.attempt + 1 ELSE Len(Backoff)
  <1>4. i \in 1 .. Len(Backoff)
    BY <1>1, <1>2
  <1> QED
    BY <1>3, <1>4 DEF Delay

\* Time leaves a job a job.
LEMMA AgedJobIsJob ==
  ASSUME NEW j \in Job
  PROVE  AgedJob(j) \in Job
  <1>1. CASE j.left \in 1 .. JobTimeout
    <2>1. j.left - 1 \in 0 .. NoDeadline
      BY <1>1, QueueAssumption DEF NoDeadline
    <2> QED
      BY <1>1, <2>1 DEF AgedJob, Job
  <1>2. CASE j.left \notin 1 .. JobTimeout
    BY <1>2 DEF AgedJob
  <1> QED
    BY <1>1, <1>2

-----------------------------------------------------------------------------
TableStep == [AsyncNext]_asyncVars

\* A verdict that finds its task closed leaves the tables alone, any other one is
\* the transaction of AsyncTask.
LEMMA TryFinishStep ==
  ASSUME NEW t \in Tasks, NEW k \in Keys, NEW s \in Terminal, TryFinish(t, k, s)
  PROVE  TableStep
  BY DEF TryFinish, TableStep, AsyncNext

\* Enqueueing a job of a known task keeps the jobs well formed.
LEMMA EnqueueJobs ==
  ASSUME queue \in Seq(Job), NEW j \in Job, Enqueue(j)
  PROVE  queue' \in Seq(Job)
  BY AppendProperties DEF Enqueue

\* The callers that create, dispatch and retry tasks.
LEMMA CallerSteps ==
  ASSUME JobsInv
  PROVE  /\ \A t \in Tasks, ks \in SUBSET Keys : Submit(t, ks) => JobsInv' /\ TableStep
         /\ \A t \in Tasks : AdminRetry(t) => JobsInv' /\ TableStep
         /\ \A t \in Tasks, k \in Keys : DispatchNext(t, k) => JobsInv' /\ TableStep
  <1>1. ASSUME NEW t \in Tasks, NEW ks \in SUBSET Keys, Submit(t, ks)
        PROVE  JobsInv' /\ TableStep
    <2>1. TableStep
      BY <1>1 DEF Submit, TableStep, AsyncNext
    <2> QED
      BY <1>1, <2>1 DEF Submit, JobsInv
  <1>2. ASSUME NEW t \in Tasks, AdminRetry(t)
        PROVE  JobsInv' /\ TableStep
    <2>1. TableStep
      BY <1>2 DEF AdminRetry, TableStep, AsyncNext
    <2>2. FailedKeys(t) \subseteq Keys
      BY DEF FailedKeys, KeysIn
    <2>3. todo' \in [Tasks -> SUBSET Keys]
      BY <1>2, <2>2 DEF AdminRetry, JobsInv
    <2> QED
      BY <1>2, <2>1, <2>3 DEF AdminRetry, JobsInv
  <1>3. ASSUME NEW t \in Tasks, NEW k \in Keys, DispatchNext(t, k)
        PROVE  JobsInv' /\ TableStep
    <2>1. TableStep
      BY <1>3 DEF DispatchNext, TableStep
    <2>2. NewJob(t, k) \in Job
      BY QueueAssumption DEF NewJob, Job, NoDeadline
    <2>3. queue' \in Seq(Job)
      BY <1>3, <2>2, EnqueueJobs DEF DispatchNext, JobsInv
    <2>4. todo' \in [Tasks -> SUBSET Keys]
      BY <1>3 DEF DispatchNext, JobsInv
    <2> QED
      BY <1>3, <2>1, <2>3, <2>4 DEF DispatchNext, JobsInv
  <1> QED
    BY <1>1, <1>2, <1>3

\* A worker that changes to a state of the pool.
LEMMA OneWorker ==
  ASSUME worker \in [Workers -> WorkerState], NEW w \in Workers, NEW st \in WorkerState,
         worker' = [worker EXCEPT ![w] = st]
  PROVE  worker' \in [Workers -> WorkerState]
  BY DEF WorkerState

\* A job that a timer is set for stays well formed.
LEMMA AwayJobs ==
  ASSUME BagToSet(away) \subseteq Absence, NEW a \in Absence, away' = With(away, a)
  PROVE  BagToSet(away') \subseteq Absence
  BY BagMembers

\* The worker loop and the queue around the handler.
LEMMA WorkerAloneSteps ==
  ASSUME JobsInv, NEW w \in Workers, WorkerAlone(w)
  PROVE  JobsInv' /\ TableStep
  <1> USE DEF JobsInv
  <1>1. CASE Take(w)
    <2>1. Head(queue) \in Job /\ Tail(queue) \in Seq(Job)
      BY <1>1, HeadTailProperties DEF Take
    <2>2. [pc |-> "taken", job |-> Head(queue)] \in WorkerState
      BY <2>1 DEF WorkerState
    <2>3. worker' \in [Workers -> WorkerState] /\ queue' \in Seq(Job)
      BY <1>1, <2>1, <2>2, OneWorker DEF Take
    <2>4. TableStep
      BY <1>1 DEF Take, TableStep
    <2> QED
      BY <1>1, <2>3, <2>4 DEF Take
  <1>2. CASE Start(w)
    <2>1. worker[w] \in [pc : {"taken", "failed"} \cup InHandler, job : Job]
      BY <1>2, WorkerJob DEF Start
    <2> DEFINE j == worker[w].job
    <2> DEFINE started == [j EXCEPT !.left = IF @ = NoDeadline THEN JobTimeout ELSE @]
    <2>2. JobTimeout \in 0 .. NoDeadline
      BY QueueAssumption DEF NoDeadline
    <2>3. j \in Job
      BY <2>1
    <2>4. started \in Job
      BY <2>2, <2>3 DEF Job
    <2>5. \E pc \in {"failed", "claim"} : worker' = [worker EXCEPT ![w] = [pc |-> pc, job |-> started]]
      BY <1>2 DEF Start
    <2>6. PICK pc \in {"failed", "claim"} : worker' = [worker EXCEPT ![w] = [pc |-> pc, job |-> started]]
      BY <2>5
    <2>7. [pc |-> pc, job |-> started] \in WorkerState
      BY <2>4, <2>6 DEF WorkerState, InHandler
    <2>8. worker' \in [Workers -> WorkerState]
      BY <2>6, <2>7, OneWorker
    <2>9. TableStep
      BY <1>2 DEF Start, TableStep
    <2> QED
      BY <1>2, <2>8, <2>9 DEF Start
  <1>3. CASE DeadlineHits(w)
    <2>1. worker[w] \in [pc : {"taken", "failed"} \cup InHandler, job : Job]
      BY <1>3, WorkerJob DEF DeadlineHits, InHandler
    <2>2. worker' = [worker EXCEPT ![w] = [worker[w] EXCEPT !.pc = "failed"]]
      BY <1>3 DEF DeadlineHits, Fail
    <2>3. [worker[w] EXCEPT !.pc = "failed"] \in WorkerState
      BY <2>1 DEF WorkerState
    <2>4. worker' \in [Workers -> WorkerState]
      BY <2>2, <2>3, OneWorker
    <2>5. TableStep
      BY <1>3 DEF DeadlineHits, Fail, TableStep
    <2> QED
      BY <1>3, <2>4, <2>5 DEF DeadlineHits, Fail
  <1>4. CASE RetryLater(w)
    <2>1. worker[w] \in [pc : {"taken", "failed"} \cup InHandler, job : Job]
      BY <1>4, WorkerJob DEF RetryLater
    <2> DEFINE j == worker[w].job
    <2> DEFINE a == [job |-> [j EXCEPT !.attempt = @ + 1], wait |-> Delay(j), held |-> TRUE]
    <2>2. j \in Job
      BY <2>1
    <2>3. j.attempt + 1 \in 0 .. Retries
      <3>1. j.attempt < Retries
        BY <1>4 DEF RetryLater, MayRetry
      <3>2. j.attempt \in Nat
        BY <2>2, JobFacts
      <3> QED
        BY <3>1, <3>2, QueueAssumption
    <2>4. [j EXCEPT !.attempt = @ + 1] \in Job
      BY <2>2, <2>3 DEF Job
    <2>5. Delay(j) \in Nat
      BY <2>2, DelayIsPositive
    <2>6. a \in Absence
      BY <2>4, <2>5 DEF Absence
    <2>7. away' = With(away, a) /\ worker' = [worker EXCEPT ![w] = Idle]
      BY <1>4 DEF RetryLater
    <2>8. BagToSet(away') \subseteq Absence
      BY <2>6, <2>7, AwayJobs
    <2>9. worker' \in [Workers -> WorkerState]
      BY <2>7, OneWorker DEF WorkerState
    <2>10. TableStep
      BY <1>4 DEF RetryLater, TableStep
    <2> QED
      BY <1>4, <2>8, <2>9, <2>10 DEF RetryLater
  <1>5. CASE GiveUp(w)
    <2>1. worker[w].job \in Job
      BY <1>5, WorkerJob DEF GiveUp
    <2>2. TableStep
      <3>1. CASE TryFinish(worker[w].job.task, worker[w].job.key, "failed")
        BY <2>1, <3>1, JobFacts, TryFinishStep DEF Terminal
      <3>2. CASE LoseVerdict
        BY <3>2 DEF LoseVerdict, TableStep
      <3> QED
        BY <1>5, <3>1, <3>2 DEF GiveUp
    <2>3. worker' \in [Workers -> WorkerState]
      BY <1>5, OneWorker DEF GiveUp, WorkerState
    <2> QED
      BY <1>5, <2>2, <2>3 DEF GiveUp
  <1> QED
    BY <1>1, <1>2, <1>3, <1>4, <1>5 DEF WorkerAlone

\* The handler that a worker runs.
LEMMA HandlerSteps ==
  ASSUME JobsInv, NEW w \in Workers, WorkerStep(w), ~WorkerAlone(w)
  PROVE  JobsInv' /\ TableStep
  <1> USE DEF JobsInv
  <1> DEFINE t == worker[w].job.task
  <1> DEFINE k == worker[w].job.key
  <1>1. worker[w].pc \in InHandler
    BY DEF WorkerStep, WorkerAlone, HandlerClaim, HandlerSync, HandlerRefuses,
           HandlerNodeLocked, HandlerComplete, HandlerError, InHandler
  <1>2. worker[w] \in [pc : {"taken", "failed"} \cup InHandler, job : Job]
    BY <1>1, WorkerJob DEF InHandler
  <1>3. worker[w].job \in Job /\ t \in Tasks /\ k \in Keys
    BY <1>2, JobFacts
  <1>4. \A pc \in {"failed"} \cup InHandler : [worker[w] EXCEPT !.pc = pc] \in WorkerState
    BY <1>2 DEF WorkerState
  <1>5. Return(w) => worker' \in [Workers -> WorkerState] /\ UNCHANGED <<queue, todo, sweep>>
    BY OneWorker DEF Return, WorkerState
  <1>6. ASSUME Fail(w) PROVE JobsInv' /\ TableStep
    <2>1. worker' = [worker EXCEPT ![w] = [worker[w] EXCEPT !.pc = "failed"]]
      BY <1>6 DEF Fail
    <2>2. worker' \in [Workers -> WorkerState]
      BY <1>4, <2>1, OneWorker
    <2> QED
      BY <1>6, <2>2 DEF Fail, TableStep
  <1>7. ASSUME NEW pc \in InHandler, Proceed(w, pc)
        PROVE  JobsInv'
    <2>1. worker' = [worker EXCEPT ![w] = [worker[w] EXCEPT !.pc = pc]]
      BY <1>7 DEF Proceed
    <2>2. worker' \in [Workers -> WorkerState]
      BY <1>4, <1>7, <2>1, OneWorker
    <2> QED
      BY <1>7, <2>2 DEF Proceed
  <1>8. CASE HandlerClaim(w)
    <2>1. CASE ClaimItem(t, k) /\ Proceed(w, "work")
      BY <1>3, <1>7, <2>1 DEF TableStep, AsyncNext, InHandler
    <2>2. CASE Return(w) /\ UNCHANGED <<asyncVars, away, spent>>
      BY <1>5, <2>2 DEF TableStep
    <2>3. CASE Fail(w)
      BY <1>6, <2>3
    <2> QED
      BY <1>8, <2>1, <2>2, <2>3 DEF HandlerClaim
  <1>9. CASE HandlerSync(w)
    BY <1>7, <1>9 DEF HandlerSync, InHandler, TableStep
  <1>10. CASE HandlerRefuses(w)
    <2>1. TableStep
      BY <1>3, <1>10, TryFinishStep DEF HandlerRefuses, Terminal
    <2> QED
      BY <1>5, <1>10, <2>1 DEF HandlerRefuses
  <1>11. CASE HandlerNodeLocked(w)
    <2> DEFINE j == worker[w].job
    <2> DEFINE a == [job |-> [j EXCEPT !.release = @ + 1], wait |-> LockDelay, held |-> FALSE]
    <2>1. j.release + 1 \in 0 .. MaxReleases
      <3>1. j.release < MaxReleases
        BY <1>11 DEF HandlerNodeLocked, MayRelease
      <3>2. j.release \in Nat
        BY <1>3, JobFacts
      <3> QED
        BY <3>1, <3>2, QueueAssumption
    <2>2. [j EXCEPT !.release = @ + 1] \in Job
      BY <1>3, <2>1 DEF Job
    <2>3. a \in Absence
      BY <2>2, QueueAssumption DEF Absence
    <2>4. away' = With(away, a) /\ Return(w) /\ UNCHANGED asyncVars
      BY <1>11 DEF HandlerNodeLocked
    <2>5. BagToSet(away') \subseteq Absence
      BY <2>3, <2>4, AwayJobs
    <2> QED
      BY <1>5, <2>4, <2>5 DEF TableStep
  <1>12. CASE HandlerComplete(w)
    <2>1. TableStep
      BY <1>3, <1>12, TryFinishStep DEF HandlerComplete, Terminal
    <2>2. CASE Return(w) /\ UNCHANGED <<away, spent>>
      BY <1>5, <2>1, <2>2
    <2>3. CASE worker' = [worker EXCEPT ![w].pc = "failed"] /\ UNCHANGED <<queue, away, todo, sweep>>
      <3>1. worker' = [worker EXCEPT ![w] = [worker[w] EXCEPT !.pc = "failed"]]
        BY <2>3
      <3>2. worker' \in [Workers -> WorkerState]
        BY <1>4, <3>1, OneWorker
      <3> QED
        BY <2>1, <2>3, <3>2
    <2> QED
      BY <1>12, <2>2, <2>3 DEF HandlerComplete
  <1>13. CASE HandlerError(w)
    <2>1. CASE Fail(w)
      BY <1>6, <2>1
    <2>2. CASE Return(w) /\ LoseVerdict /\ UNCHANGED away
      BY <1>5, <2>2 DEF LoseVerdict, TableStep
    <2> QED
      BY <1>13, <2>1, <2>2 DEF HandlerError
  <1> QED
    BY <1>8, <1>9, <1>10, <1>11, <1>12, <1>13 DEF WorkerStep, WorkerAlone

\* The timers.
LEMMA TimerSteps ==
  ASSUME JobsInv, TimerStep
  PROVE  JobsInv' /\ TableStep
  <1> USE DEF JobsInv
  <1>1. PICK a \in BagToSet(away) : TimerWakes(a) \/ Redeliver(a)
    BY DEF TimerStep
  <1>2. a \in Absence /\ a.job \in Job
    BY <1>1 DEF Absence
  <1>3. CASE TimerWakes(a)
    <2>1. [a EXCEPT !.held = FALSE] \in Absence
      BY <1>2 DEF Absence
    <2>2. away' = With(Without(away, a), [a EXCEPT !.held = FALSE])
      BY <1>3 DEF TimerWakes
    <2>3. BagToSet(away') \subseteq Absence
      BY <2>1, <2>2, BagMembers
    <2> QED
      BY <1>3, <2>3 DEF TimerWakes, TableStep
  <1>4. CASE Redeliver(a)
    <2>1. queue' \in Seq(Job)
      BY <1>2, <1>4, EnqueueJobs DEF Redeliver
    <2>2. BagToSet(away') \subseteq Absence
      BY <1>4, BagMembers DEF Redeliver
    <2> QED
      BY <1>4, <2>1, <2>2 DEF Redeliver, TableStep
  <1> QED
    BY <1>1, <1>3, <1>4

\* The sweeper.
LEMMA SweepSteps ==
  ASSUME JobsInv, SweepStep
  PROVE  JobsInv' /\ TableStep
  <1> USE DEF JobsInv
  <1> DEFINE SweepState == [pc : {"due", "check", "rest"}, ids : SUBSET Tasks, refs : SUBSET (Tasks \X Keys)]
  <1>1. CASE SweepReads
    BY <1>1 DEF SweepReads, TableStep
  <1>2. CASE \E t \in Tasks : SweepFails(t)
    <2>1. PICK t \in Tasks : SweepFails(t)
      BY <1>2
    <2>2. TableStep
      BY <2>1 DEF SweepFails, TableStep, AsyncNext
    <2>3. sweep' \in SweepState
      BY <2>1 DEF SweepFails, SweepDone, NoSweep
    <2> QED
      BY <2>1, <2>2, <2>3 DEF SweepFails
  <1>3. CASE \E t \in Tasks, k \in Keys : SweepChecks(t, k)
    <2>1. PICK t \in Tasks, k \in Keys : SweepChecks(t, k)
      BY <1>3
    <2>2. sweep' \in SweepState
      BY <2>1 DEF SweepChecks
    <2> QED
      BY <2>1, <2>2 DEF SweepChecks, TableStep
  <1>4. CASE SweepEnds
    BY <1>4 DEF SweepEnds, SweepDone, NoSweep, TableStep
  <1> QED
    BY <1>1, <1>2, <1>3, <1>4 DEF SweepStep

\* A crash forgets every job.
LEMMA CrashStep ==
  ASSUME JobsInv, Crash
  PROVE  JobsInv' /\ TableStep
  BY EmptySeq DEF JobsInv, Crash, WorkerState, EmptyBag, SetToBag, BagToSet, NoSweep, TableStep

\* Time makes every job older and loses none of its kind.
LEMMA TickStep ==
  ASSUME JobsInv, Tick
  PROVE  JobsInv' /\ TableStep
  <1> USE DEF JobsInv
  <1>1. queue' \in Seq(Job)
    <2>1. Len(queue) \in Nat /\ \A i \in 1 .. Len(queue) : queue[i] \in Job
      BY LenProperties, ElementOfSeq
    <2>2. \A i \in 1 .. Len(queue) : AgedJob(queue[i]) \in Job
      BY <2>1, AgedJobIsJob
    <2>3. queue' = [i \in 1 .. Len(queue) |-> AgedJob(queue[i])]
      BY DEF Tick
    <2> QED
      BY <2>1, <2>2, <2>3, IsASeq
  <1>2. worker' \in [Workers -> WorkerState]
    <2>1. ASSUME NEW w \in Workers, Busy(w)
          PROVE  [worker[w] EXCEPT !.job = AgedJob(@)] \in WorkerState
      <3>1. worker[w] \in [pc : {"taken", "failed"} \cup InHandler, job : Job]
        BY <2>1, WorkerJob DEF Busy
      <3>2. AgedJob(worker[w].job) \in Job
        BY <3>1, AgedJobIsJob
      <3> QED
        BY <3>1, <3>2 DEF WorkerState
    <2> QED
      BY <2>1 DEF Tick, WorkerState
  <1>3. BagToSet(away') \subseteq Absence
    <2>1. BagToSet(away') = {AgedAbsence(a) : a \in BagToSet(away)}
      BY DEF Tick, AgedAway, BagToSet
    <2>2. ASSUME NEW a \in BagToSet(away)
          PROVE  AgedAbsence(a) \in Absence
      <3>1. a \in Absence /\ a.job \in Job /\ a.wait \in Nat /\ a.wait > 0
        BY DEF Absence, Tick, Quiet
      <3>2. AgedJob(a.job) \in Job /\ a.wait - 1 \in Nat
        BY <3>1, AgedJobIsJob
      <3> QED
        BY <3>1, <3>2 DEF AgedAbsence, Absence
    <2> QED
      BY <2>1, <2>2
  <1>4. TableStep
    BY DEF Tick, TableStep, AsyncNext, AsyncTick
  <1> QED
    BY <1>1, <1>2, <1>3, <1>4 DEF Tick, NoSweep

-----------------------------------------------------------------------------
\* Every step keeps the jobs well formed and is a transaction on the tables or
\* leaves them alone.
THEOREM StepIsTableStep == JobsInv /\ [QueueNext]_vars => JobsInv' /\ TableStep
  <1> SUFFICES ASSUME JobsInv, [QueueNext]_vars PROVE JobsInv' /\ TableStep
    OBVIOUS
  <1>1. CASE \E t \in Tasks : AdminRetry(t) \/ \E ks \in SUBSET Keys : Submit(t, ks)
    BY <1>1, CallerSteps
  <1>2. CASE DispatchStep
    BY <1>2, CallerSteps DEF DispatchStep
  <1>3. CASE \E w \in Workers : WorkerStep(w)
    BY <1>3, WorkerAloneSteps, HandlerSteps
  <1>4. CASE TimerStep
    BY <1>4, TimerSteps
  <1>5. CASE SweepStep
    BY <1>5, SweepSteps
  <1>6. CASE Crash
    BY <1>6, CrashStep
  <1>7. CASE Tick
    BY <1>7, TickStep
  <1>8. CASE UNCHANGED vars
    BY <1>8 DEF vars, JobsInv, TableStep, asyncVars
  <1> QED
    BY <1>1, <1>2, <1>3, <1>4, <1>5, <1>6, <1>7, <1>8 DEF QueueNext

\* An empty queue has no malformed job.
THEOREM InitJobsInv == QueueInit => JobsInv
  BY EmptySeq DEF QueueInit, JobsInv, WorkerState, EmptyBag, SetToBag, BagToSet, NoSweep

\* Wherever a job is, it is a job of a known task and item within its bounds of
\* runs, releases and time.
THEOREM JobsWellFormed == QueueSpec => []JobsInv
  BY InitJobsInv, StepIsTableStep, PTL DEF QueueSpec

\* The queue does nothing to the task tables but call the transactions of
\* AsyncTask.
THEOREM QueueImplementsTables == QueueSpec => TablesAsSpecified
  <1>1. QueueInit => AsyncInit
    BY DEF QueueInit
  <1> QED
    BY <1>1, StepIsTableStep, JobsWellFormed, PTL
       DEF QueueSpec, TablesAsSpecified, AsyncSpec, TableStep

\* What AsyncTaskProofs proves of the tables holds under the queue: no timer,
\* handler left behind, sweep or crash unsettles a closed task.
THEOREM QueueKeepsTables == QueueSpec => []AsyncInv
  BY QueueImplementsTables, AsyncInvariant, PTL DEF TablesAsSpecified

\* So does what it proves of single steps, and that they are steps of the task page:
\* a success is for good, and a task is reopened as a whole, although the queue
\* delivers, retries, sweeps and forgets jobs as it likes.
THEOREM QueueKeepsPromises == QueueSpec => SuccessSticks /\ ReopensWhole /\ LifecycleSpec
  BY QueueImplementsTables, SuccessIsForGood, TasksReopenWhole, AsyncImplementsLifecycle, PTL
     DEF TablesAsSpecified

-----------------------------------------------------------------------------
\* A job that a retry timer holds has time left after its wait: a delay that the
\* deadline forbids is never begun, and time uses up both alike.
THEOREM StepRetryFits ==
  JobsInv /\ RetryFitsDeadline /\ [QueueNext]_vars => RetryFitsDeadline'
  <1> SUFFICES ASSUME JobsInv, RetryFitsDeadline, [QueueNext]_vars PROVE RetryFitsDeadline'
    OBVIOUS
  <1> DEFINE Fits(a) == a.held => a.wait < a.job.left
  <1>1. (BagToSet(away') \subseteq BagToSet(away)) => RetryFitsDeadline'
    BY DEF RetryFitsDeadline
  <1>2. ASSUME NEW a, away' = With(away, a), Fits(a)
        PROVE  RetryFitsDeadline'
    BY <1>2, BagMembers DEF RetryFitsDeadline
  <1>3. ASSUME NEW w \in Workers, RetryLater(w)
        PROVE  RetryFitsDeadline'
    <2> DEFINE j == worker[w].job
    <2> DEFINE a == [job |-> [j EXCEPT !.attempt = @ + 1], wait |-> Delay(j), held |-> TRUE]
    <2>1. j \in Job
      BY <1>3, WorkerJob DEF RetryLater, JobsInv
    <2>2. a.wait = Delay(j) /\ a.job.left = j.left
      BY <2>1 DEF Job
    <2>3. away' = With(away, a) /\ Delay(j) < j.left
      BY <1>3 DEF RetryLater, MayRetry
    <2> HIDE DEF a
    <2> QED
      BY <1>2, <2>2, <2>3
  <1>4. ASSUME NEW w \in Workers, HandlerNodeLocked(w)
        PROVE  RetryFitsDeadline'
    <2> DEFINE a == [job |-> [worker[w].job EXCEPT !.release = @ + 1],
                     wait |-> LockDelay, held |-> FALSE]
    <2>1. away' = With(away, a) /\ ~a.held
      BY <1>4 DEF HandlerNodeLocked
    <2> HIDE DEF a
    <2> QED
      BY <1>2, <2>1
  <1>5. CASE TimerStep
    <2>1. PICK a \in BagToSet(away) : TimerWakes(a) \/ Redeliver(a)
      BY <1>5 DEF TimerStep
    <2>2. CASE TimerWakes(a)
      <3>1. a \in Absence
        BY <2>1 DEF JobsInv
      <3>2. ~[a EXCEPT !.held = FALSE].held
        BY <3>1 DEF Absence
      <3>3. BagToSet(away') \subseteq BagToSet(away) \cup {[a EXCEPT !.held = FALSE]}
        BY <2>2, BagMembers DEF TimerWakes
      <3> QED
        BY <3>2, <3>3 DEF RetryFitsDeadline
    <2>3. CASE Redeliver(a)
      BY <1>1, <2>3, BagMembers DEF Redeliver
    <2> QED
      BY <2>1, <2>2, <2>3
  <1>6. CASE Crash
    BY <1>6 DEF Crash, RetryFitsDeadline, EmptyBag, SetToBag, BagToSet
  <1>7. CASE Tick
    <2>1. BagToSet(away') = {AgedAbsence(a) : a \in BagToSet(away)}
      BY <1>7 DEF Tick, AgedAway, BagToSet
    <2>2. ASSUME NEW a \in BagToSet(away)
          PROVE  Fits(AgedAbsence(a))
      <3>1. a \in Absence /\ a.job \in Job /\ a.wait \in Nat /\ a.wait > 0 /\ Fits(a)
        BY <1>7 DEF Absence, JobsInv, RetryFitsDeadline, Tick, Quiet
      <3>2. /\ AgedAbsence(a).held = a.held
            /\ AgedAbsence(a).wait = a.wait - 1
            /\ AgedAbsence(a).job = AgedJob(a.job)
        BY <3>1 DEF AgedAbsence, Absence
      <3>3. AgedJob(a.job).left \in {a.job.left, a.job.left - 1}
        BY <3>1 DEF AgedJob, Job
      <3>4. a.job.left \in Nat
        BY <3>1, JobFacts
      <3> QED
        BY <3>1, <3>2, <3>3, <3>4
    <2> QED
      BY <2>1, <2>2 DEF RetryFitsDeadline
  <1>8. CASE UNCHANGED away
    BY <1>8 DEF RetryFitsDeadline
  <1>9. (\E t \in Tasks : AdminRetry(t) \/ \E ks \in SUBSET Keys : Submit(t, ks)) => UNCHANGED away
    BY DEF AdminRetry, Submit
  <1>10. DispatchStep => UNCHANGED away
    BY DEF DispatchStep, DispatchNext
  <1>11. ASSUME NEW w \in Workers, WorkerStep(w), ~RetryLater(w), ~HandlerNodeLocked(w)
         PROVE  UNCHANGED away
    BY <1>11 DEF WorkerStep, Take, Start, HandlerClaim, HandlerSync, HandlerRefuses, HandlerComplete,
         HandlerError, DeadlineHits, GiveUp, Fail, Proceed
  <1>12. SweepStep => UNCHANGED away
    BY DEF SweepStep, SweepReads, SweepChecks, SweepFails, SweepEnds
  <1> QED
    BY <1>3, <1>4, <1>5, <1>6, <1>7, <1>8, <1>9, <1>10, <1>11, <1>12 DEF QueueNext, vars

\* No retry timer ever holds a job beyond its deadline.
THEOREM RetriesFit == QueueSpec => []RetryFitsDeadline
  <1>1. QueueInit => RetryFitsDeadline
    BY DEF QueueInit, RetryFitsDeadline, EmptyBag, SetToBag, BagToSet
  <1> QED
    BY <1>1, JobsWellFormed, StepRetryFits, PTL DEF QueueSpec

-----------------------------------------------------------------------------
(* How many jobs hold an item. *)

\* A job of item k of t, counted.
IsOf(j, t, k) == j.task = t /\ j.key = k
One(j, t, k) == IF IsOf(j, t, k) THEN 1 ELSE 0

\* The places of the jobs that hold item k of t, and their numbers: in the channel q,
\* on the retry timers of a bag b, and in the handlers of workers ws.
Spots(q, t, k) == {i \in 1 .. Len(q) : IsOf(q[i], t, k)}
QueueHolds(q, t, k) == Cardinality(Spots(q, t, k))
TimerHolds(b, t, k) == SumFunctionOnSet(b, {a \in BagToSet(b) : a.held /\ IsOf(a.job, t, k)})
Running(ws, t, k) == {w \in Workers : ws[w].pc \in InHandler /\ IsOf(ws[w].job, t, k)}
WorkerHolds(ws, t, k) == Cardinality(Running(ws, t, k))
Occupied(ws) == {w \in Workers : ws[w].pc # "idle"}
BusyCount(ws) == Cardinality(Occupied(ws))

\* A bag of absences with finitely many members.
AwayBag(b) == IsABag(b) /\ BagToSet(b) \subseteq Absence /\ IsFiniteSet(BagToSet(b))

\* The holders of an item are those in the channel, on a timer and at a worker.
LEMMA HoldersAddUp ==
  ASSUME NEW t, NEW k
  PROVE  /\ Holders(t, k) = QueueHolds(queue, t, k) + TimerHolds(away, t, k) + WorkerHolds(worker, t, k)
         /\ Holders(t, k)'
              = QueueHolds(queue', t, k) + TimerHolds(away', t, k) + WorkerHolds(worker', t, k)
         /\ Cardinality({w \in Workers : Busy(w)}) = BusyCount(worker)
         /\ Cardinality({w \in Workers : Busy(w)})' = BusyCount(worker')
  <1>1. /\ InQueue(t, k) = {i \in 1 .. Len(queue) : IsOf(queue[i], t, k)}
        /\ InQueue(t, k)' = {i \in 1 .. Len(queue') : IsOf(queue'[i], t, k)}
    BY DEF InQueue, IsOf
  <1>2. /\ {a \in OnTimer(t, k) : a.held} = {a \in BagToSet(away) : a.held /\ IsOf(a.job, t, k)}
        /\ {a \in OnTimer(t, k)' : a.held} = {a \in BagToSet(away') : a.held /\ IsOf(a.job, t, k)}
    BY DEF OnTimer, IsOf
  <1>3. /\ {w \in AtWorker(t, k) : worker[w].pc \in InHandler}
             = {w \in Workers : worker[w].pc \in InHandler /\ IsOf(worker[w].job, t, k)}
        /\ {w \in AtWorker(t, k)' : worker'[w].pc \in InHandler}
             = {w \in Workers : worker'[w].pc \in InHandler /\ IsOf(worker'[w].job, t, k)}
    BY DEF AtWorker, Busy, InHandler, IsOf
  <1>4. /\ Holders(t, k) = QueueHolds(queue, t, k) + TimerHolds(away, t, k) + WorkerHolds(worker, t, k)
        /\ Holders(t, k)'
              = QueueHolds(queue', t, k) + TimerHolds(away', t, k) + WorkerHolds(worker', t, k)
    BY <1>1, <1>2, <1>3 DEF Holders, QueueHolds, Spots, TimerHolds, WorkerHolds, Running
  <1> QED
    BY <1>4 DEF BusyCount, Occupied, Busy

\* The places of an item in the channel are finitely many.
LEMMA SpotsFinite ==
  ASSUME NEW q \in Seq(Job), NEW t, NEW k
  PROVE  IsFiniteSet(Spots(q, t, k)) /\ QueueHolds(q, t, k) \in Nat
  <1>1. IsFiniteSet(1 .. Len(q))
    BY LenProperties, FS_Interval
  <1>2. Spots(q, t, k) \in SUBSET (1 .. Len(q))
    BY DEF Spots
  <1> QED
    BY <1>1, <1>2, FS_Subset, FS_CardinalityType DEF QueueHolds

\* A job at the end of the channel is one more for its item.
LEMMA HoldsAppended ==
  ASSUME NEW q \in Seq(Job), NEW j \in Job, NEW t, NEW k
  PROVE  QueueHolds(Append(q, j), t, k) = QueueHolds(q, t, k) + One(j, t, k)
  <1>1. /\ Len(q) \in Nat /\ Len(Append(q, j)) = Len(q) + 1
        /\ \A i \in 1 .. Len(q) : Append(q, j)[i] = q[i]
        /\ Append(q, j)[Len(q) + 1] = j
    BY AppendProperties, LenProperties
  <1>2. IsFiniteSet(Spots(q, t, k)) /\ Cardinality(Spots(q, t, k)) \in Nat
    BY SpotsFinite DEF QueueHolds
  <1>3. CASE IsOf(j, t, k)
    <2>1. Spots(Append(q, j), t, k) = Spots(q, t, k) \cup {Len(q) + 1}
      BY <1>1, <1>3 DEF Spots
    <2>2. Len(q) + 1 \notin Spots(q, t, k)
      BY <1>1 DEF Spots
    <2> QED
      BY <1>2, <1>3, <2>1, <2>2, FS_AddElement DEF QueueHolds, One
  <1>4. CASE ~IsOf(j, t, k)
    <2>1. Spots(Append(q, j), t, k) = Spots(q, t, k)
      BY <1>1, <1>4 DEF Spots
    <2> QED
      BY <1>2, <1>4, <2>1 DEF QueueHolds, One
  <1> QED
    BY <1>3, <1>4

\* A job taken from the head of the channel is one less for its item.
LEMMA HoldsTail ==
  ASSUME NEW q \in Seq(Job), q # <<>>, NEW t, NEW k
  PROVE  QueueHolds(q, t, k) = QueueHolds(Tail(q), t, k) + One(Head(q), t, k)
  <1> DEFINE A == Spots(Tail(q), t, k)
  <1> DEFINE B == Spots(q, t, k)
  <1> DEFINE f == [i \in A |-> i + 1]
  <1>1. /\ Tail(q) \in Seq(Job) /\ Head(q) \in Job /\ Head(q) = q[1]
        /\ Len(q) \in Nat /\ Len(q) >= 1 /\ Len(Tail(q)) = Len(q) - 1
        /\ \A i \in 1 .. Len(Tail(q)) : Tail(q)[i] = q[i + 1]
    BY HeadTailProperties, LenProperties, EmptySeq
  <1>2. IsFiniteSet(A) /\ IsFiniteSet(B) /\ Cardinality(A) \in Nat /\ Cardinality(B) \in Nat
    BY <1>1, SpotsFinite DEF QueueHolds
  <1>3. f \in Bijection(A, B \ {1})
    <2>1. f \in [A -> B \ {1}]
      BY <1>1 DEF Spots
    <2>2. \A i, l \in A : f[i] = f[l] => i = l
      BY <1>1 DEF Spots
    <2>3. \A l \in B \ {1} : l - 1 \in A /\ f[l - 1] = l
      BY <1>1 DEF Spots
    <2> HIDE DEF A, B, f
    <2> QED
      BY <2>1, <2>2, <2>3 DEF Bijection, Injection, Surjection, IsInjective
  <1>4. Cardinality(B \ {1}) = Cardinality(A)
    <2> HIDE DEF A, B, f
    <2> QED
      BY <1>2, <1>3, FS_Bijection DEF ExistsBijection
  <1>5. Cardinality(B \ {1}) = IF 1 \in B THEN Cardinality(B) - 1 ELSE Cardinality(B)
    BY <1>2, FS_RemoveElement
  <1>6. 1 \in B <=> IsOf(Head(q), t, k)
    BY <1>1 DEF Spots
  <1> QED
    BY <1>2, <1>4, <1>5, <1>6 DEF QueueHolds, One

\* Some of the absences, and how many jobs they are.
LEMMA AwaySubsets ==
  ASSUME NEW b, AwayBag(b), NEW S \in SUBSET BagToSet(b)
  PROVE  /\ IsFiniteSet(S) /\ SumFunctionOnSet(b, S) \in Nat
         /\ \A a \in S : b[a] \in Nat \ {0}
  <1>1. IsFiniteSet(S)
    BY FS_Subset DEF AwayBag
  <1>2. \A a \in S : b[a] \in Nat \ {0}
    BY DEF AwayBag, IsABag, BagToSet
  <1> QED
    BY <1>1, <1>2, SumIsNat

\* The jobs that timers hold are a natural number.
LEMMA TimerHoldsNat ==
  ASSUME NEW b, AwayBag(b), NEW t, NEW k
  PROVE  TimerHolds(b, t, k) \in Nat
  <1> DEFINE S == {a \in BagToSet(b) : a.held /\ IsOf(a.job, t, k)}
  <1>1. S \in SUBSET BagToSet(b)
    OBVIOUS
  <1>2. SumFunctionOnSet(b, S) \in Nat
    <2> HIDE DEF S
    <2> QED
      BY <1>1, AwaySubsets
  <1> QED
    BY <1>2 DEF TimerHolds

\* An absence that begins is one more for its item when it is held.
LEMMA HoldsAway ==
  ASSUME NEW b, AwayBag(b), NEW a \in Absence, NEW t, NEW k
  PROVE  /\ AwayBag(With(b, a))
         /\ TimerHolds(With(b, a), t, k)
              = TimerHolds(b, t, k) + (IF a.held THEN One(a.job, t, k) ELSE 0)
  <1> DEFINE c == With(b, a)
  <1> DEFINE d == IF a.held THEN One(a.job, t, k) ELSE 0
  <1> DEFINE S(x) == {y \in BagToSet(x) : y.held /\ IsOf(y.job, t, k)}
  <1> DEFINE Rest(x) == S(x) \ {a}
  <1>1. /\ BagToSet(c) = BagToSet(b) \cup {a}
        /\ \A y \in BagToSet(b) : b[y] \in Nat \ {0}
        /\ \A y \in BagToSet(b) \ {a} : c[y] = b[y]
        /\ c[a] = IF a \in BagToSet(b) THEN b[a] + 1 ELSE 1
        /\ c = [y \in BagToSet(c) |-> c[y]]
    BY DEF With, BagToSet, SetToBag, (+), AwayBag, IsABag
  <1>2. \A y \in BagToSet(c) : c[y] \in Nat \ {0}
    BY <1>1
  <1>3. IsFiniteSet(BagToSet(c)) /\ BagToSet(c) \subseteq Absence
    BY <1>1, FS_AddElement DEF AwayBag
  <1>4. IsABag(c)
    <2> HIDE DEF c
    <2> QED BY <1>1, <1>2 DEF IsABag, BagToSet
  <1>5. AwayBag(c)
    BY <1>3, <1>4 DEF AwayBag
  <1>6. TimerHolds(b, t, k) = SumFunctionOnSet(b, S(b)) /\ TimerHolds(c, t, k) = SumFunctionOnSet(c, S(c))
    BY DEF TimerHolds
  <1>7. SumFunctionOnSet(c, Rest(c)) = SumFunctionOnSet(b, Rest(b))
    <2>1. Rest(c) = Rest(b)
      BY <1>1
    <2>2. \A y \in Rest(b) : c[y] = b[y]
      BY <1>1
    <2>3. IsFiniteSet(Rest(b))
      BY AwaySubsets
    <2> HIDE DEF c
    <2> QED BY <2>1, <2>2, <2>3, SumAgree
  <1>8. /\ SumFunctionOnSet(b, Rest(b)) \in Nat /\ SumFunctionOnSet(b, S(b)) \in Nat
        /\ IsFiniteSet(S(b)) /\ IsFiniteSet(S(c))
    <2>1. S(b) \in SUBSET BagToSet(b) /\ Rest(b) \in SUBSET BagToSet(b) /\ S(c) \in SUBSET BagToSet(c)
      OBVIOUS
    <2> HIDE DEF c, S
    <2> QED BY <1>5, <2>1, AwaySubsets
  <1>9. TimerHolds(c, t, k) = TimerHolds(b, t, k) + d
    <2>1. CASE ~(a.held /\ IsOf(a.job, t, k))
      <3>1. Rest(c) = S(c) /\ Rest(b) = S(b) /\ d = 0
        BY <2>1 DEF One
      <3> HIDE DEF S, Rest, c, d
      <3> QED
        BY <1>6, <1>7, <1>8, <3>1
    <2>2. CASE a.held /\ IsOf(a.job, t, k)
      <3>1. d = 1 /\ a \in S(c)
        BY <1>1, <2>2 DEF One
      <3>2. SumFunctionOnSet(c, S(c)) = c[a] + SumFunctionOnSet(c, Rest(c))
        <4>1. \A y \in S(c) : c[y] \in Nat
          BY <1>2
        <4> HIDE DEF S, c
        <4> QED
          BY <1>8, <3>1, <4>1, SumRemove
      <3>3. CASE a \in BagToSet(b)
        <4>1. a \in S(b) /\ \A y \in S(b) : b[y] \in Nat
          BY <1>1, <2>2, <3>3
        <4>2. c[a] = b[a] + 1 /\ b[a] \in Nat
          BY <1>1, <3>3
        <4> HIDE DEF S, c, d
        <4>3. SumFunctionOnSet(b, S(b)) = b[a] + SumFunctionOnSet(b, Rest(b))
          BY <1>8, <4>1, SumRemove
        <4> QED
          BY <1>6, <1>7, <1>8, <3>1, <3>2, <4>2, <4>3
      <3>4. CASE a \notin BagToSet(b)
        <4>1. Rest(b) = S(b) /\ c[a] = 1
          BY <1>1, <3>4
        <4> HIDE DEF S, c, d
        <4> QED
          BY <1>6, <1>7, <1>8, <3>1, <3>2, <4>1
      <3> QED
        BY <3>3, <3>4
    <2> QED
      BY <2>1, <2>2
  <1> QED
    BY <1>5, <1>9

\* An absence that ends is one less for its item when it was held.
LEMMA HoldsBack ==
  ASSUME NEW b, AwayBag(b), NEW a \in BagToSet(b), NEW t, NEW k
  PROVE  /\ AwayBag(Without(b, a))
         /\ TimerHolds(b, t, k)
              = TimerHolds(Without(b, a), t, k) + (IF a.held THEN One(a.job, t, k) ELSE 0)
  <1> DEFINE c == Without(b, a)
  <1>1. /\ b \in [BagToSet(b) -> {n \in Nat : n > 0}]
        /\ a \in Absence /\ BagToSet(b) \subseteq Absence
    BY DEF AwayBag, IsABag, BagToSet
  <1>2. /\ BagToSet(c) = IF b[a] = 1 THEN BagToSet(b) \ {a} ELSE BagToSet(b)
        /\ \A y \in BagToSet(c) : c[y] = IF y = a THEN b[y] - 1 ELSE b[y]
        /\ c = [y \in BagToSet(c) |-> c[y]]
    BY <1>1 DEF Without, BagToSet, SetToBag, (-)
  <1>3. IsABag(c)
    <2>1. \A y \in BagToSet(c) : c[y] \in {n \in Nat : n > 0}
      BY <1>1, <1>2
    <2> HIDE DEF c
    <2> QED
      BY <1>2, <2>1 DEF IsABag, BagToSet
  <1>4. AwayBag(c)
    <2>1. BagToSet(c) \in SUBSET BagToSet(b)
      BY <1>2
    <2>2. IsFiniteSet(BagToSet(c))
      BY <2>1, FS_Subset DEF AwayBag
    <2> QED
      BY <1>1, <1>3, <2>1, <2>2 DEF AwayBag
  <1>5. With(c, a) = b
    <2> DEFINE e == With(c, a)
    <2>1. /\ BagToSet(e) = BagToSet(c) \cup {a}
          /\ \A y \in BagToSet(e) :
               e[y] = (IF y \in BagToSet(c) THEN c[y] ELSE 0) + (IF y = a THEN 1 ELSE 0)
          /\ e = [y \in BagToSet(e) |-> e[y]]
      BY DEF With, BagToSet, SetToBag, (+)
    <2> HIDE DEF e, c
    <2>2. BagToSet(e) = BagToSet(b)
      BY <1>2, <2>1
    <2>3. \A y \in BagToSet(b) : e[y] = b[y]
      BY <1>1, <1>2, <2>1
    <2>4. e = [y \in BagToSet(b) |-> b[y]] /\ b = [y \in BagToSet(b) |-> b[y]]
      BY <1>1, <2>1, <2>2, <2>3
    <2> QED
      BY <2>4 DEF e
  <1> HIDE DEF c
  <1>6. TimerHolds(With(c, a), t, k) = TimerHolds(c, t, k) + (IF a.held THEN One(a.job, t, k) ELSE 0)
    BY <1>1, <1>4, HoldsAway
  <1> QED
    BY <1>4, <1>5, <1>6 DEF c

\* Time changes absences and merges some, and their jobs are as many as before.
LEMMA HoldsAged ==
  ASSUME AwayBag(away), \A a \in BagToSet(away) : a.wait > 0, NEW t, NEW k
  PROVE  /\ AwayBag(AgedAway)
         /\ TimerHolds(AgedAway, t, k) = TimerHolds(away, t, k)
  <1> DEFINE X == BagToSet(away)
  <1> DEFINE to == [a \in X |-> AgedAbsence(a)]
  <1> DEFINE Y == {AgedAbsence(a) : a \in X}
  <1> DEFINE From(b) == Fibre(to, X, b)
  <1>1. BagToSet(AgedAway) = Y /\ \A b \in Y : AgedAway[b] = SumFunctionOnSet(away, From(b))
    <2>1. \A b : From(b) = {a \in BagToSet(away) : AgedAbsence(a) = b}
      BY DEF Fibre
    <2> HIDE DEF From
    <2> QED
      BY <2>1 DEF AgedAway, BagToSet
  <1>2. ASSUME NEW a \in X
        PROVE  /\ AgedAbsence(a) \in Absence
               /\ AgedAbsence(a).held = a.held
               /\ AgedAbsence(a).job.task = a.job.task /\ AgedAbsence(a).job.key = a.job.key
    <2>1. a \in Absence /\ a.job \in Job /\ a.wait \in Nat /\ a.wait > 0
      BY DEF AwayBag, Absence
    <2>2. AgedJob(a.job) \in Job
      BY <2>1, AgedJobIsJob
    <2>3. AgedJob(a.job).task = a.job.task /\ AgedJob(a.job).key = a.job.key
      BY <2>1 DEF AgedJob, Job
    <2>4. /\ AgedAbsence(a).held = a.held
          /\ AgedAbsence(a).job = AgedJob(a.job)
      BY <2>1 DEF AgedAbsence, Absence
    <2>5. AgedAbsence(a) \in Absence
      <3>1. a.wait - 1 \in Nat
        BY <2>1
      <3> QED
        BY <2>1, <2>2, <3>1 DEF AgedAbsence, Absence
    <2> HIDE DEF X
    <2> QED
      BY <2>3, <2>4, <2>5
  <1>3. IsFiniteSet(X) /\ IsFiniteSet(Y)
    <2>1. IsFiniteSet(X)
      BY DEF AwayBag
    <2>2. to \in Surjection(X, Y)
      BY DEF Surjection
    <2> HIDE DEF X, Y, to
    <2> QED
      BY <2>1, <2>2, FS_Surjection
  <1>4. \A a \in X : away[a] \in Nat \ {0}
    BY AwaySubsets
  <1>5. \A b \in Y : AgedAway[b] \in Nat \ {0}
    <2> SUFFICES ASSUME NEW b \in Y PROVE SumFunctionOnSet(away, From(b)) \in Nat \ {0}
      BY <1>1
    <2>1. PICK a \in X : b = AgedAbsence(a)
      OBVIOUS
    <2>2. a \in From(b) /\ From(b) \in SUBSET X
      BY <2>1 DEF Fibre
    <2>3. From(b) \ {a} \in SUBSET X
      BY <2>2
    <2> HIDE DEF From
    <2>4. IsFiniteSet(From(b)) /\ SumFunctionOnSet(away, From(b) \ {a}) \in Nat
      BY <2>2, <2>3, AwaySubsets
    <2>5. SumFunctionOnSet(away, From(b)) = away[a] + SumFunctionOnSet(away, From(b) \ {a})
      BY <1>4, <2>2, <2>4, SumRemove
    <2> QED
      BY <1>4, <2>4, <2>5
  <1>6. AwayBag(AgedAway)
    <2>1. AgedAway = [b \in BagToSet(AgedAway) |-> AgedAway[b]]
      BY DEF AgedAway, BagToSet
    <2>2. \A b \in BagToSet(AgedAway) : AgedAway[b] \in {n \in Nat : n > 0}
      BY <1>1, <1>5
    <2>3. IsABag(AgedAway)
      BY <2>1, <2>2 DEF IsABag, BagToSet
    <2>4. Y \subseteq Absence
      BY <1>2
    <2> QED
      BY <1>1, <1>3, <2>3, <2>4 DEF AwayBag
  <1> DEFINE S(B) == {a \in B : a.held /\ IsOf(a.job, t, k)}
  <1>7. Above(to, X, S(Y)) = S(X)
    BY <1>2 DEF IsOf, Above
  <1>8. SumFunctionOnSet(AgedAway, S(Y)) = SumFunctionOnSet(away, Above(to, X, S(Y)))
    <2>1. IsFiniteSet(S(Y))
      <3>1. S(Y) \in SUBSET Y
        OBVIOUS
      <3> HIDE DEF S
      <3> QED
        BY <1>3, <3>1, FS_Subset
    <2>2. \A b \in S(Y) : AgedAway[b] = SumFunctionOnSet(away, From(b))
      BY <1>1
    <2>3. \A a \in X : away[a] \in Nat
      BY <1>4
    <2> HIDE DEF S, to, Y, X
    <2> QED
      BY <1>3, <2>1, <2>2, <2>3, SumFibres
  <1>9. /\ TimerHolds(AgedAway, t, k) = SumFunctionOnSet(AgedAway, S(Y))
        /\ TimerHolds(away, t, k) = SumFunctionOnSet(away, S(X))
    BY <1>1 DEF TimerHolds
  <1> HIDE DEF S, to, X, Y
  <1> QED
    BY <1>6, <1>7, <1>8, <1>9

\* One worker's part in the handlers of an item.
RunsIt(st, t, k) == IF st.pc \in InHandler THEN One(st.job, t, k) ELSE 0

\* Two subsets of a finite set that differ in one member at most.
LEMMA CountOneChange ==
  ASSUME NEW X, IsFiniteSet(X), NEW A \in SUBSET X, NEW B \in SUBSET X, NEW x \in X,
         \A y \in X : y # x => (y \in A <=> y \in B)
  PROVE  /\ Cardinality(A) \in Nat /\ Cardinality(B) \in Nat
         /\ (x \in A <=> x \in B) => Cardinality(B) = Cardinality(A)
         /\ x \in A /\ x \notin B => Cardinality(A) = Cardinality(B) + 1
         /\ x \notin A /\ x \in B => Cardinality(B) = Cardinality(A) + 1
  <1>1. IsFiniteSet(A) /\ IsFiniteSet(B)
    BY FS_Subset
  <1>2. Cardinality(A) \in Nat /\ Cardinality(B) \in Nat
    BY <1>1, FS_CardinalityType
  <1>3. /\ Cardinality(A \ {x}) = IF x \in A THEN Cardinality(A) - 1 ELSE Cardinality(A)
        /\ Cardinality(B \ {x}) = IF x \in B THEN Cardinality(B) - 1 ELSE Cardinality(B)
    BY <1>1, FS_RemoveElement
  <1>4. A \ {x} = B \ {x}
    OBVIOUS
  <1> QED
    BY <1>2, <1>3, <1>4

\* The workers ws become vs when w goes to the state st.
Changed(ws, vs, w, st) ==
  /\ ws \in [Workers -> WorkerState] /\ vs \in [Workers -> WorkerState]
  /\ vs[w] = st /\ \A v \in Workers : v # w => vs[v] = ws[v]

\* A worker that changes its state changes the handlers of an item by its own.
LEMMA RunningChange ==
  ASSUME NEW ws, NEW vs, NEW w \in Workers, NEW st, Changed(ws, vs, w, st), NEW t, NEW k
  PROVE  /\ WorkerHolds(vs, t, k) + RunsIt(ws[w], t, k) = WorkerHolds(ws, t, k) + RunsIt(st, t, k)
         /\ WorkerHolds(vs, t, k) \in Nat /\ WorkerHolds(ws, t, k) \in Nat
  <1>1. /\ Running(ws, t, k) \in SUBSET Workers /\ Running(vs, t, k) \in SUBSET Workers
        /\ \A v \in Workers : v # w => (v \in Running(ws, t, k) <=> v \in Running(vs, t, k))
    BY DEF Running, Changed
  <1>2. /\ RunsIt(ws[w], t, k) = IF w \in Running(ws, t, k) THEN 1 ELSE 0
        /\ RunsIt(st, t, k) = IF w \in Running(vs, t, k) THEN 1 ELSE 0
    BY DEF RunsIt, One, Running, Changed
  <1>3. IsFiniteSet(Workers)
    BY QueueAssumption
  <1>4. /\ Cardinality(Running(ws, t, k)) \in Nat /\ Cardinality(Running(vs, t, k)) \in Nat
        /\ (w \in Running(ws, t, k) <=> w \in Running(vs, t, k))
             => Cardinality(Running(vs, t, k)) = Cardinality(Running(ws, t, k))
        /\ w \in Running(ws, t, k) /\ w \notin Running(vs, t, k)
             => Cardinality(Running(ws, t, k)) = Cardinality(Running(vs, t, k)) + 1
        /\ w \notin Running(ws, t, k) /\ w \in Running(vs, t, k)
             => Cardinality(Running(vs, t, k)) = Cardinality(Running(ws, t, k)) + 1
    BY <1>1, <1>3, CountOneChange
  <1> QED
    BY <1>2, <1>4 DEF WorkerHolds

\* One worker's part in the gauge of running jobs.
BusyIs(st) == IF st.pc = "idle" THEN 0 ELSE 1

\* A worker that changes its state changes the number of busy ones by itself.
LEMMA BusyChange ==
  ASSUME NEW ws, NEW vs, NEW w \in Workers, NEW st, Changed(ws, vs, w, st)
  PROVE  /\ BusyCount(vs) + BusyIs(ws[w]) = BusyCount(ws) + BusyIs(st)
         /\ BusyCount(vs) \in Nat /\ BusyCount(ws) \in Nat
  <1>1. /\ Occupied(ws) \in SUBSET Workers /\ Occupied(vs) \in SUBSET Workers
        /\ \A v \in Workers : v # w => (v \in Occupied(ws) <=> v \in Occupied(vs))
    BY DEF Occupied, Changed
  <1>2. /\ BusyIs(ws[w]) = IF w \in Occupied(ws) THEN 1 ELSE 0
        /\ BusyIs(st) = IF w \in Occupied(vs) THEN 1 ELSE 0
    BY DEF BusyIs, Occupied, Changed
  <1>3. IsFiniteSet(Workers)
    BY QueueAssumption
  <1>4. /\ Cardinality(Occupied(ws)) \in Nat /\ Cardinality(Occupied(vs)) \in Nat
        /\ (w \in Occupied(ws) <=> w \in Occupied(vs))
             => Cardinality(Occupied(vs)) = Cardinality(Occupied(ws))
        /\ w \in Occupied(ws) /\ w \notin Occupied(vs)
             => Cardinality(Occupied(ws)) = Cardinality(Occupied(vs)) + 1
        /\ w \notin Occupied(ws) /\ w \in Occupied(vs)
             => Cardinality(Occupied(vs)) = Cardinality(Occupied(ws)) + 1
    BY <1>1, <1>3, CountOneChange
  <1> QED
    BY <1>2, <1>4 DEF BusyCount

\* The workers of a finite pool are a natural number.
LEMMA WorkersNat ==
  ASSUME NEW ws, NEW t, NEW k
  PROVE  BusyCount(ws) \in Nat /\ WorkerHolds(ws, t, k) \in Nat
  <1>1. /\ Occupied(ws) \in SUBSET Workers /\ Running(ws, t, k) \in SUBSET Workers
        /\ IsFiniteSet(Workers)
    BY QueueAssumption DEF Occupied, Running
  <1> QED
    BY <1>1, FS_Subset, FS_CardinalityType DEF BusyCount, WorkerHolds

-----------------------------------------------------------------------------
(* The counters are exact. *)

\* The inductive invariant of the counts.
CountInv ==
  /\ AwayBag(away)
  /\ inflight \in [Tasks -> [Keys -> Nat]]
  /\ gauge \in [queued : Nat, running : Nat]
  /\ CountersExact

\* The three places where a job is, each with a natural number of jobs that hold
\* an item.
LEMMA HoldsAreNat ==
  ASSUME JobsInv, AwayBag(away), NEW t, NEW k
  PROVE  /\ QueueHolds(queue, t, k) \in Nat
         /\ TimerHolds(away, t, k) \in Nat
         /\ WorkerHolds(worker, t, k) \in Nat
  <1>1. QueueHolds(queue, t, k) \in Nat
    BY SpotsFinite DEF JobsInv
  <1>2. TimerHolds(away, t, k) \in Nat
    BY TimerHoldsNat
  <1>3. WorkerHolds(worker, t, k) \in Nat
    BY WorkersNat
  <1> QED
    BY <1>1, <1>2, <1>3

\* CountersExact by the three places of a job.
LEMMA ExactByParts ==
  /\ CountersExact <=>
       /\ \A t \in Tasks, k \in Keys :
            inflight[t][k] = QueueHolds(queue, t, k) + TimerHolds(away, t, k) + WorkerHolds(worker, t, k)
       /\ gauge.queued = Len(queue) /\ gauge.running = BusyCount(worker)
  /\ CountersExact' <=>
       /\ \A t \in Tasks, k \in Keys :
            inflight'[t][k]
              = QueueHolds(queue', t, k) + TimerHolds(away', t, k) + WorkerHolds(worker', t, k)
       /\ gauge'.queued = Len(queue') /\ gauge'.running = BusyCount(worker')
  BY HoldersAddUp DEF CountersExact

\* The gauges of a state.
LEMMA GaugesOf ==
  ASSUME JobsInv, CountersExact
  PROVE  /\ gauge.queued = Len(queue) /\ Len(queue) \in Nat
         /\ gauge.running = BusyCount(worker) /\ BusyCount(worker) \in Nat
  <1>1. BusyCount(worker) \in Nat
    BY WorkersNat
  <1> QED
    BY <1>1, ExactByParts, LenProperties DEF JobsInv

\* What markInflight does to the counts, when there is something to let go of.
LEMMA HoldFacts ==
  ASSUME inflight \in [Tasks -> [Keys -> Nat]], NEW j \in Job
  PROVE  /\ Hold(j) => /\ inflight' \in [Tasks -> [Keys -> Nat]]
                       /\ \A t \in Tasks, k \in Keys : inflight'[t][k] = inflight[t][k] + One(j, t, k)
         /\ LetGo(j) /\ inflight[j.task][j.key] > 0 =>
              /\ inflight' \in [Tasks -> [Keys -> Nat]]
              /\ \A t \in Tasks, k \in Keys : inflight[t][k] = inflight'[t][k] + One(j, t, k)
  <1>1. j.task \in Tasks /\ j.key \in Keys
    BY JobFacts
  <1>2. \A t \in Tasks, k \in Keys : inflight[t][k] \in Nat
    OBVIOUS
  <1>3. ASSUME Hold(j)
        PROVE  /\ inflight' \in [Tasks -> [Keys -> Nat]]
               /\ \A t \in Tasks, k \in Keys : inflight'[t][k] = inflight[t][k] + One(j, t, k)
    BY <1>1, <1>2, <1>3 DEF Hold, One, IsOf
  <1>4. ASSUME LetGo(j), inflight[j.task][j.key] > 0
        PROVE  /\ inflight' \in [Tasks -> [Keys -> Nat]]
               /\ \A t \in Tasks, k \in Keys : inflight[t][k] = inflight'[t][k] + One(j, t, k)
    <2>1. inflight' = [inflight EXCEPT ![j.task][j.key] = @ - 1]
      BY <1>4 DEF LetGo
    <2>2. inflight[j.task][j.key] - 1 \in Nat
      BY <1>1, <1>2, <1>4
    <2> QED
      BY <1>1, <1>2, <2>1, <2>2 DEF One, IsOf
  <1> QED
    BY <1>3, <1>4

\* The count of an item and the jobs that hold it change by the same amount when
\* worker w goes to the state st.
WorkerMoves(w, st, t, k) ==
  inflight'[t][k] + QueueHolds(queue, t, k) + TimerHolds(away, t, k) + RunsIt(worker[w], t, k)
    = inflight[t][k] + QueueHolds(queue', t, k) + TimerHolds(away', t, k) + RunsIt(st, t, k)

\* A worker changes its state: the count of every item moves with the jobs that
\* hold it, and the gauge of running jobs with the worker.
LEMMA WorkerBalance ==
  ASSUME JobsInv, CountInv, NEW w \in Workers, NEW st \in WorkerState,
         worker' = [worker EXCEPT ![w] = st],
         queue' \in Seq(Job), AwayBag(away'),
         inflight' \in [Tasks -> [Keys -> Nat]],
         \A t \in Tasks, k \in Keys : WorkerMoves(w, st, t, k),
         gauge' = [queued |-> Len(queue'), running |-> gauge.running + BusyIs(st) - BusyIs(worker[w])]
  PROVE  CountInv'
  <1>1. Changed(worker, worker', w, st)
    BY OneWorker DEF JobsInv, Changed
  <1>2. ASSUME NEW t \in Tasks, NEW k \in Keys
        PROVE  inflight'[t][k]
                 = QueueHolds(queue', t, k) + TimerHolds(away', t, k) + WorkerHolds(worker', t, k)
    <2> DEFINE n == inflight[t][k]
    <2> DEFINE m == inflight'[t][k]
    <2> DEFINE q == QueueHolds(queue, t, k)
    <2> DEFINE p == QueueHolds(queue', t, k)
    <2> DEFINE a == TimerHolds(away, t, k)
    <2> DEFINE b == TimerHolds(away', t, k)
    <2> DEFINE x == WorkerHolds(worker, t, k)
    <2> DEFINE y == WorkerHolds(worker', t, k)
    <2> DEFINE r == RunsIt(worker[w], t, k)
    <2> DEFINE s == RunsIt(st, t, k)
    <2>1. y + r = x + s /\ y \in Nat /\ x \in Nat
      BY <1>1, RunningChange
    <2>2. n = q + a + x
      BY ExactByParts DEF CountInv
    <2>3. r \in Nat /\ s \in Nat
      BY DEF RunsIt, One
    <2>4. n \in Nat /\ m \in Nat
      BY DEF CountInv
    <2>5. q \in Nat /\ a \in Nat
      BY HoldsAreNat DEF CountInv
    <2>6. p \in Nat /\ b \in Nat
      BY SpotsFinite, TimerHoldsNat
    <2>7. m + q + a + r = n + p + b + s
      BY DEF WorkerMoves
    <2> HIDE DEF n, m, q, p, a, b, x, y, r, s
    <2>8. m = p + b + y
      BY <2>1, <2>2, <2>3, <2>4, <2>5, <2>6, <2>7
    <2> QED
      BY <2>8 DEF m, p, b, y
  <1>3. BusyCount(worker') = gauge.running + BusyIs(st) - BusyIs(worker[w]) /\ BusyCount(worker') \in Nat
    <2> DEFINE g == gauge.running
    <2> DEFINE x == BusyCount(worker)
    <2> DEFINE y == BusyCount(worker')
    <2> DEFINE r == BusyIs(worker[w])
    <2> DEFINE s == BusyIs(st)
    <2>1. g = x /\ x \in Nat
      BY GaugesOf DEF CountInv
    <2>2. y + r = x + s /\ y \in Nat
      BY <1>1, BusyChange
    <2>3. r \in Nat /\ s \in Nat
      BY DEF BusyIs
    <2> HIDE DEF g, x, y, r, s
    <2>4. y = g + s - r /\ y \in Nat
      BY <2>1, <2>2, <2>3
    <2> QED
      BY <2>4 DEF y, g, s, r
  <1>4. Len(queue') \in Nat
    BY LenProperties
  <1>5. /\ gauge' \in [queued : Nat, running : Nat]
        /\ gauge'.queued = Len(queue') /\ gauge'.running = BusyCount(worker')
    BY <1>3, <1>4
  <1>6. CountersExact'
    BY <1>2, <1>5, ExactByParts
  <1> QED
    BY <1>5, <1>6 DEF CountInv

\* A worker in its handler holds the item of its job.
LEMMA HandlerHolds ==
  ASSUME JobsInv, CountInv, NEW w \in Workers, worker[w].pc \in InHandler
  PROVE  inflight[worker[w].job.task][worker[w].job.key] > 0
  <1> DEFINE t == worker[w].job.task
  <1> DEFINE k == worker[w].job.key
  <1>1. t \in Tasks /\ k \in Keys
    BY WorkerJob, JobFacts DEF JobsInv, InHandler
  <1>2. inflight[t][k] = QueueHolds(queue, t, k) + TimerHolds(away, t, k) + WorkerHolds(worker, t, k)
    BY <1>1, ExactByParts DEF CountInv
  <1>3. QueueHolds(queue, t, k) \in Nat /\ TimerHolds(away, t, k) \in Nat
    BY HoldsAreNat DEF CountInv
  <1>4. w \in Running(worker, t, k) /\ Running(worker, t, k) \in SUBSET Workers
    BY DEF IsOf, Running
  <1>5. WorkerHolds(worker, t, k) \in Nat /\ WorkerHolds(worker, t, k) # 0
    BY <1>4, QueueAssumption, FS_Subset, FS_CardinalityType, FS_EmptySet DEF WorkerHolds
  <1> HIDE DEF t, k
  <1>6. inflight[t][k] > 0
    BY <1>2, <1>3, <1>5
  <1> QED
    BY <1>6 DEF t, k

\* The count of an item and the jobs that hold it change by the same amount, the
\* workers aside.
Moves(t, k) ==
  inflight'[t][k] + QueueHolds(queue, t, k) + TimerHolds(away, t, k)
    = inflight[t][k] + QueueHolds(queue', t, k) + TimerHolds(away', t, k)

\* A step that leaves the workers where they are.
LEMMA PoolBalance ==
  ASSUME JobsInv, CountInv,
         queue' \in Seq(Job), AwayBag(away'),
         inflight' \in [Tasks -> [Keys -> Nat]],
         \A t \in Tasks, k \in Keys : WorkerHolds(worker', t, k) = WorkerHolds(worker, t, k),
         BusyCount(worker') = BusyCount(worker),
         \A t \in Tasks, k \in Keys : Moves(t, k),
         gauge' = [queued |-> Len(queue'), running |-> gauge.running]
  PROVE  CountInv'
  <1>1. ASSUME NEW t \in Tasks, NEW k \in Keys
        PROVE  inflight'[t][k]
                 = QueueHolds(queue', t, k) + TimerHolds(away', t, k) + WorkerHolds(worker', t, k)
    <2> DEFINE n == inflight[t][k]
    <2> DEFINE m == inflight'[t][k]
    <2> DEFINE q == QueueHolds(queue, t, k)
    <2> DEFINE p == QueueHolds(queue', t, k)
    <2> DEFINE a == TimerHolds(away, t, k)
    <2> DEFINE b == TimerHolds(away', t, k)
    <2> DEFINE x == WorkerHolds(worker, t, k)
    <2> DEFINE y == WorkerHolds(worker', t, k)
    <2>1. y = x /\ x \in Nat /\ y \in Nat
      BY WorkersNat
    <2>2. n = q + a + x
      BY ExactByParts DEF CountInv
    <2>3. n \in Nat /\ m \in Nat
      BY DEF CountInv
    <2>4. q \in Nat /\ a \in Nat
      BY HoldsAreNat DEF CountInv
    <2>5. p \in Nat /\ b \in Nat
      BY SpotsFinite, TimerHoldsNat
    <2>6. m + q + a = n + p + b
      BY DEF Moves
    <2> HIDE DEF n, m, q, p, a, b, x, y
    <2>7. m = p + b + y
      BY <2>1, <2>2, <2>3, <2>4, <2>5, <2>6
    <2> QED
      BY <2>7 DEF m, p, b, y
  <1>2. Len(queue') \in Nat
    BY LenProperties
  <1>3. gauge.running = BusyCount(worker) /\ BusyCount(worker) \in Nat
    BY GaugesOf DEF CountInv
  <1>4. /\ gauge' \in [queued : Nat, running : Nat]
        /\ gauge'.queued = Len(queue') /\ gauge'.running = BusyCount(worker')
    BY <1>2, <1>3 DEF CountInv
  <1>5. CountersExact'
    BY <1>1, <1>4, ExactByParts
  <1> QED
    BY <1>4, <1>5 DEF CountInv

\* The counts do not change when nothing that is counted does.
LEMMA CountsStay ==
  ASSUME JobsInv, CountInv, UNCHANGED <<queue, worker, away, inflight, gauge>>
  PROVE  CountInv'
  <1>1. CountersExact'
    BY ExactByParts DEF CountInv
  <1> QED
    BY <1>1 DEF CountInv

\* A job is appended to the channel.
LEMMA EnqueueCounts ==
  ASSUME JobsInv, CountInv, NEW j \in Job, Enqueue(j), UNCHANGED worker, AwayBag(away'),
         \A t \in Tasks, k \in Keys : TimerHolds(away', t, k) = TimerHolds(away, t, k)
  PROVE  CountInv'
  <1>1. queue \in Seq(Job) /\ inflight \in [Tasks -> [Keys -> Nat]]
    BY DEF JobsInv, CountInv
  <1>2. queue' = Append(queue, j) /\ Hold(j) /\ gauge' = [gauge EXCEPT !.queued = @ + 1]
    BY DEF Enqueue
  <1>3. queue' \in Seq(Job) /\ Len(queue') = Len(queue) + 1
    BY <1>1, <1>2, AppendProperties
  <1>4. /\ inflight' \in [Tasks -> [Keys -> Nat]]
        /\ \A t \in Tasks, k \in Keys : inflight'[t][k] = inflight[t][k] + One(j, t, k)
    BY <1>1, <1>2, HoldFacts
  <1>5. ASSUME NEW t \in Tasks, NEW k \in Keys
        PROVE  Moves(t, k)
    <2> DEFINE n == inflight[t][k]
    <2> DEFINE m == inflight'[t][k]
    <2> DEFINE q == QueueHolds(queue, t, k)
    <2> DEFINE p == QueueHolds(queue', t, k)
    <2> DEFINE a == TimerHolds(away, t, k)
    <2> DEFINE b == TimerHolds(away', t, k)
    <2> DEFINE o == One(j, t, k)
    <2>1. m = n + o /\ b = a
      BY <1>4
    <2>2. p = q + o
      BY <1>1, <1>2, HoldsAppended
    <2>3. n \in Nat /\ q \in Nat /\ a \in Nat /\ o \in Nat
      BY HoldsAreNat DEF CountInv, One
    <2> HIDE DEF n, m, q, p, a, b, o
    <2>4. m + q + a = n + p + b
      BY <2>1, <2>2, <2>3
    <2> QED
      BY <2>4 DEF n, m, q, p, a, b, Moves
  <1>6. gauge' = [queued |-> Len(queue'), running |-> gauge.running]
    BY <1>2, <1>3, GaugesOf DEF CountInv
  <1> QED
    BY <1>3, <1>4, <1>5, <1>6, PoolBalance

\* The worker loop takes a job that the channel holds.
LEMMA TakeCounts ==
  ASSUME JobsInv, CountInv, NEW w \in Workers, Take(w)
  PROVE  CountInv'
  <1> DEFINE j == Head(queue)
  <1> DEFINE st == [pc |-> "taken", job |-> j]
  <1>1. queue \in Seq(Job) /\ queue # <<>> /\ inflight \in [Tasks -> [Keys -> Nat]] /\ AwayBag(away)
    BY DEF JobsInv, CountInv, Take
  <1>2. /\ Tail(queue) \in Seq(Job) /\ j \in Job
        /\ Len(queue) \in Nat /\ Len(Tail(queue)) = Len(queue) - 1
    BY <1>1, HeadTailProperties, LenProperties
  <1>3. \A t, k : QueueHolds(queue, t, k) = QueueHolds(Tail(queue), t, k) + One(j, t, k)
    BY <1>1, HoldsTail
  <1>4. \A t, k : QueueHolds(Tail(queue), t, k) \in Nat
    BY <1>2, SpotsFinite
  <1>5. j.task \in Tasks /\ j.key \in Keys /\ One(j, j.task, j.key) = 1
    BY <1>2, JobFacts DEF One, IsOf
  <1>6. inflight[j.task][j.key] > 0
    <2> DEFINE t == j.task
    <2> DEFINE k == j.key
    <2>1. /\ QueueHolds(queue, t, k) = QueueHolds(Tail(queue), t, k) + 1
          /\ QueueHolds(Tail(queue), t, k) \in Nat
      BY <1>3, <1>4, <1>5
    <2>2. inflight[t][k] = QueueHolds(queue, t, k) + TimerHolds(away, t, k) + WorkerHolds(worker, t, k)
      BY <1>5, ExactByParts DEF CountInv
    <2>3. TimerHolds(away, t, k) \in Nat /\ WorkerHolds(worker, t, k) \in Nat
      BY <1>1, HoldsAreNat
    <2> HIDE DEF t, k, j
    <2>4. inflight[t][k] > 0
      BY <2>1, <2>2, <2>3
    <2> QED
      BY <2>4 DEF t, k
  <1>7. /\ inflight' \in [Tasks -> [Keys -> Nat]]
        /\ \A t \in Tasks, k \in Keys : inflight[t][k] = inflight'[t][k] + One(j, t, k)
    <2>1. LetGo(j)
      BY DEF Take
    <2> HIDE DEF j
    <2> QED
      BY <1>1, <1>2, <1>6, <2>1, HoldFacts
  <1>8. ASSUME NEW t \in Tasks, NEW k \in Keys
        PROVE  WorkerMoves(w, st, t, k)
    <2>1. RunsIt(worker[w], t, k) = 0 /\ RunsIt(st, t, k) = 0 /\ queue' = Tail(queue) /\ away' = away
      BY DEF Take, Busy, RunsIt, InHandler
    <2> DEFINE n == inflight[t][k]
    <2> DEFINE m == inflight'[t][k]
    <2> DEFINE q == QueueHolds(queue, t, k)
    <2> DEFINE p == QueueHolds(Tail(queue), t, k)
    <2> DEFINE a == TimerHolds(away, t, k)
    <2> DEFINE o == One(j, t, k)
    <2>2. n = m + o /\ q = p + o
      BY <1>3, <1>7
    <2>3. n \in Nat /\ m \in Nat /\ q \in Nat /\ p \in Nat /\ a \in Nat /\ o \in Nat
      BY <1>1, <1>4, <1>7, HoldsAreNat DEF One
    <2> HIDE DEF n, m, q, p, a, o, j, st
    <2>4. m + q + a + 0 = n + p + a + 0
      BY <2>2, <2>3
    <2> QED
      BY <2>1, <2>4 DEF n, m, q, p, a, WorkerMoves
  <1>9. gauge' = [queued |-> Len(queue'), running |-> gauge.running + BusyIs(st) - BusyIs(worker[w])]
    <2>1. BusyIs(st) = 1 /\ BusyIs(worker[w]) = 0
      BY DEF BusyIs, Take, Busy
    <2>2. gauge' = [queued |-> gauge.queued - 1, running |-> gauge.running + 1] /\ queue' = Tail(queue)
      BY DEF Take
    <2>3. gauge.queued = Len(queue) /\ gauge.running \in Nat
      BY GaugesOf DEF CountInv
    <2> HIDE DEF st
    <2> QED
      BY <1>2, <2>1, <2>2, <2>3
  <1>10. st \in WorkerState /\ worker' = [worker EXCEPT ![w] = st] /\ queue' \in Seq(Job) /\ AwayBag(away')
    BY <1>1, <1>2 DEF WorkerState, Take
  <1> HIDE DEF st
  <1> QED
    BY <1>7, <1>8, <1>9, <1>10, WorkerBalance

\* What is known of a worker that runs a handler.
LEMMA AtHandler ==
  ASSUME JobsInv, CountInv, NEW w \in Workers, worker[w].pc \in InHandler
  PROVE  /\ worker[w].job \in Job /\ worker[w].job.task \in Tasks /\ worker[w].job.key \in Keys
         /\ \A pc \in {"failed"} \cup InHandler : [worker[w] EXCEPT !.pc = pc] \in WorkerState
         /\ BusyIs(worker[w]) = 1
         /\ \A t, k : RunsIt(worker[w], t, k) = One(worker[w].job, t, k)
         /\ LetGo(worker[w].job) =>
              /\ inflight' \in [Tasks -> [Keys -> Nat]]
              /\ \A t \in Tasks, k \in Keys :
                   inflight[t][k] = inflight'[t][k] + One(worker[w].job, t, k)
  <1>1. worker[w] \in [pc : {"taken", "failed"} \cup InHandler, job : Job]
    BY WorkerJob DEF JobsInv, InHandler
  <1>2. worker[w].job \in Job /\ worker[w].job.task \in Tasks /\ worker[w].job.key \in Keys
    BY <1>1, JobFacts
  <1>3. \A pc \in {"failed"} \cup InHandler : [worker[w] EXCEPT !.pc = pc] \in WorkerState
    BY <1>1 DEF WorkerState
  <1>4. BusyIs(worker[w]) = 1 /\ \A t, k : RunsIt(worker[w], t, k) = One(worker[w].job, t, k)
    BY DEF BusyIs, RunsIt, InHandler
  <1>5. inflight[worker[w].job.task][worker[w].job.key] > 0
    BY HandlerHolds
  <1>6. LetGo(worker[w].job) =>
              /\ inflight' \in [Tasks -> [Keys -> Nat]]
              /\ \A t \in Tasks, k \in Keys :
                   inflight[t][k] = inflight'[t][k] + One(worker[w].job, t, k)
    <2>1. inflight \in [Tasks -> [Keys -> Nat]]
      BY DEF CountInv
    <2> QED
      BY <1>2, <1>5, <2>1, HoldFacts
  <1> QED
    BY <1>2, <1>3, <1>4, <1>6

\* A worker leaves its handler, for a state st outside of it.
LEMMA LeaveCounts ==
  ASSUME JobsInv, CountInv, NEW w \in Workers, worker[w].pc \in InHandler,
         NEW st \in WorkerState, st.pc \notin InHandler,
         worker' = [worker EXCEPT ![w] = st], LetGo(worker[w].job), queue' = queue,
         AwayBag(away'), \A t \in Tasks, k \in Keys : TimerHolds(away', t, k) = TimerHolds(away, t, k),
         gauge' = [queued |-> gauge.queued, running |-> gauge.running + BusyIs(st) - 1]
  PROVE  CountInv'
  <1>1. /\ inflight' \in [Tasks -> [Keys -> Nat]]
        /\ \A t \in Tasks, k \in Keys : inflight[t][k] = inflight'[t][k] + One(worker[w].job, t, k)
        /\ BusyIs(worker[w]) = 1
        /\ \A t, k : RunsIt(worker[w], t, k) = One(worker[w].job, t, k)
    BY AtHandler
  <1>2. ASSUME NEW t \in Tasks, NEW k \in Keys
        PROVE  WorkerMoves(w, st, t, k)
    <2> DEFINE n == inflight[t][k]
    <2> DEFINE m == inflight'[t][k]
    <2> DEFINE q == QueueHolds(queue, t, k)
    <2> DEFINE a == TimerHolds(away, t, k)
    <2> DEFINE b == TimerHolds(away', t, k)
    <2> DEFINE o == One(worker[w].job, t, k)
    <2>1. n = m + o /\ b = a
      BY <1>1
    <2>2. n \in Nat /\ m \in Nat /\ q \in Nat /\ a \in Nat /\ o \in Nat
      BY <1>1, HoldsAreNat DEF CountInv, One
    <2> HIDE DEF n, m, q, a, b, o
    <2>3. m + q + a + o = n + q + b + 0
      BY <2>1, <2>2
    <2>4. RunsIt(st, t, k) = 0 /\ RunsIt(worker[w], t, k) = o
      BY <1>1 DEF RunsIt, o
    <2> QED
      BY <2>3, <2>4 DEF n, m, q, a, b, WorkerMoves
  <1>3. gauge' = [queued |-> Len(queue'), running |-> gauge.running + BusyIs(st) - BusyIs(worker[w])]
    BY <1>1, GaugesOf DEF CountInv
  <1>4. queue' \in Seq(Job)
    BY DEF JobsInv
  <1> QED
    BY <1>1, <1>2, <1>3, <1>4, WorkerBalance

\* The gauges as records.
LEMMA GaugeMoves ==
  ASSUME CountInv
  PROVE  /\ [gauge EXCEPT !.running = @ - 1] = [queued |-> gauge.queued, running |-> gauge.running + 0 - 1]
         /\ gauge = [queued |-> gauge.queued, running |-> gauge.running + 1 - 1]
         /\ gauge.running \in Nat
  <1>1. gauge \in [queued : Nat, running : Nat]
    BY DEF CountInv
  <1> QED
    BY <1>1

\* A handler that returns without an error.
LEMMA ReturnCounts ==
  ASSUME JobsInv, CountInv, NEW w \in Workers, worker[w].pc \in InHandler, Return(w),
         AwayBag(away'), \A t \in Tasks, k \in Keys : TimerHolds(away', t, k) = TimerHolds(away, t, k)
  PROVE  CountInv'
  <1>1. Idle \in WorkerState /\ Idle.pc \notin InHandler /\ BusyIs(Idle) = 0
    BY DEF WorkerState, Idle, InHandler, BusyIs
  <1>2. worker' = [worker EXCEPT ![w] = Idle] /\ LetGo(worker[w].job) /\ queue' = queue
    BY DEF Return
  <1>3. gauge' = [queued |-> gauge.queued, running |-> gauge.running + BusyIs(Idle) - 1]
    BY <1>1, GaugeMoves DEF Return
  <1> QED
    BY <1>1, <1>2, <1>3, LeaveCounts

\* A handler that returns an error, or is left behind at the deadline.
LEMMA FailCounts ==
  ASSUME JobsInv, CountInv, NEW w \in Workers, worker[w].pc \in InHandler,
         worker' = [worker EXCEPT ![w].pc = "failed"], LetGo(worker[w].job),
         UNCHANGED <<queue, away, gauge>>
  PROVE  CountInv'
  <1> DEFINE st == [worker[w] EXCEPT !.pc = "failed"]
  <1>1. st \in WorkerState
    BY AtHandler
  <1>2. worker' = [worker EXCEPT ![w] = st]
    OBVIOUS
  <1>3. st.pc = "failed"
    BY WorkerJob DEF JobsInv, InHandler
  <1>4. BusyIs(st) = 1 /\ st.pc \notin InHandler
    BY <1>3 DEF BusyIs, InHandler
  <1>5. AwayBag(away') /\ \A t \in Tasks, k \in Keys : TimerHolds(away', t, k) = TimerHolds(away, t, k)
    BY DEF CountInv
  <1> HIDE DEF st
  <1>6. gauge' = [queued |-> gauge.queued, running |-> gauge.running + BusyIs(st) - 1]
    BY <1>4, GaugeMoves
  <1> QED
    BY <1>1, <1>2, <1>4, <1>5, <1>6, LeaveCounts

\* A handler that goes on.
LEMMA ProceedCounts ==
  ASSUME JobsInv, CountInv, NEW w \in Workers, worker[w].pc \in InHandler,
         NEW pc \in InHandler, Proceed(w, pc)
  PROVE  CountInv'
  <1> DEFINE st == [worker[w] EXCEPT !.pc = pc]
  <1>1. st \in WorkerState
    BY AtHandler
  <1>2. worker' = [worker EXCEPT ![w] = st] /\ UNCHANGED <<queue, away, inflight, gauge>>
    BY DEF Proceed
  <1>3. st.pc = pc /\ st.job = worker[w].job
    BY WorkerJob DEF JobsInv, InHandler
  <1>4. \A t, k : RunsIt(st, t, k) = RunsIt(worker[w], t, k) /\ BusyIs(st) = 1 /\ BusyIs(worker[w]) = 1
    BY <1>3 DEF RunsIt, BusyIs, InHandler
  <1>5. queue \in Seq(Job) /\ AwayBag(away) /\ inflight \in [Tasks -> [Keys -> Nat]]
    BY DEF JobsInv, CountInv
  <1> HIDE DEF st
  <1>6. gauge' = [queued |-> Len(queue'), running |-> gauge.running + BusyIs(st) - BusyIs(worker[w])]
    BY <1>2, <1>4, GaugeMoves, GaugesOf DEF CountInv
  <1>7. \A t \in Tasks, k \in Keys : WorkerMoves(w, st, t, k)
    BY <1>2, <1>4 DEF WorkerMoves
  <1> QED
    BY <1>1, <1>2, <1>5, <1>6, <1>7, WorkerBalance

\* The worker starts the handler, and holds its item again.
LEMMA StartCounts ==
  ASSUME JobsInv, CountInv, NEW w \in Workers, Start(w)
  PROVE  CountInv'
  <1> DEFINE j == worker[w].job
  <1> DEFINE started == [j EXCEPT !.left = IF @ = NoDeadline THEN JobTimeout ELSE @]
  <1>1. worker[w] \in [pc : {"taken", "failed"} \cup InHandler, job : Job] /\ worker[w].pc = "taken"
    BY WorkerJob DEF JobsInv, Start
  <1>2. j \in Job /\ JobTimeout \in 0 .. NoDeadline
    BY <1>1, QueueAssumption DEF NoDeadline
  <1>3. started \in Job /\ started.task = j.task /\ started.key = j.key
    BY <1>2 DEF Job
  <1>4. /\ UNCHANGED <<queue, away, gauge>>
        /\ queue \in Seq(Job) /\ AwayBag(away) /\ inflight \in [Tasks -> [Keys -> Nat]]
    BY DEF JobsInv, CountInv, Start
  <1>5. BusyIs(worker[w]) = 1 /\ \A t, k : RunsIt(worker[w], t, k) = 0
    BY <1>1 DEF BusyIs, RunsIt, InHandler
  <1>6. ASSUME NEW st \in WorkerState, BusyIs(st) = 1
        PROVE  gauge' = [queued |-> Len(queue'), running |-> gauge.running + BusyIs(st) - BusyIs(worker[w])]
    BY <1>4, <1>5, <1>6, GaugeMoves, GaugesOf DEF CountInv
  <1>7. CASE started.left = 0
    <2> DEFINE st == [pc |-> "failed", job |-> started]
    <2>1. st \in WorkerState
      BY <1>3 DEF WorkerState
    <2>2. worker' = [worker EXCEPT ![w] = st] /\ UNCHANGED inflight
      BY <1>7 DEF Start
    <2>3. BusyIs(st) = 1 /\ \A t, k : RunsIt(st, t, k) = 0
      BY DEF BusyIs, RunsIt, InHandler
    <2> HIDE DEF st
    <2>4. \A t \in Tasks, k \in Keys : WorkerMoves(w, st, t, k)
      BY <1>4, <1>5, <2>2, <2>3 DEF WorkerMoves
    <2> QED
      BY <1>4, <1>6, <2>1, <2>2, <2>3, <2>4, WorkerBalance
  <1>8. CASE started.left # 0
    <2> DEFINE st == [pc |-> "claim", job |-> started]
    <2>1. st \in WorkerState
      BY <1>3 DEF WorkerState, InHandler
    <2>2. worker' = [worker EXCEPT ![w] = st] /\ Hold(j)
      BY <1>8 DEF Start
    <2>3. BusyIs(st) = 1 /\ \A t, k : RunsIt(st, t, k) = One(j, t, k)
      BY <1>3 DEF BusyIs, RunsIt, InHandler, One, IsOf
    <2>4. /\ inflight' \in [Tasks -> [Keys -> Nat]]
          /\ \A t \in Tasks, k \in Keys : inflight'[t][k] = inflight[t][k] + One(j, t, k)
      <3> HIDE DEF j
      <3> QED
        BY <1>2, <1>4, <2>2, HoldFacts
    <2> HIDE DEF st
    <2>5. ASSUME NEW t \in Tasks, NEW k \in Keys
          PROVE  WorkerMoves(w, st, t, k)
      <3> DEFINE n == inflight[t][k]
      <3> DEFINE m == inflight'[t][k]
      <3> DEFINE q == QueueHolds(queue, t, k)
      <3> DEFINE a == TimerHolds(away, t, k)
      <3> DEFINE o == One(j, t, k)
      <3>1. m = n + o
        BY <2>4
      <3>2. n \in Nat /\ m \in Nat /\ q \in Nat /\ a \in Nat /\ o \in Nat
        BY <1>4, <2>4, HoldsAreNat DEF One
      <3> HIDE DEF n, m, q, a, o, j, started
      <3>3. m + q + a + 0 = n + q + a + o
        BY <3>1, <3>2
      <3> QED
        BY <1>4, <1>5, <2>3, <3>3 DEF n, m, q, a, o, WorkerMoves
    <2> QED
      BY <1>4, <1>6, <2>1, <2>2, <2>3, <2>4, <2>5, WorkerBalance
  <1> QED
    BY <1>7, <1>8

\* A worker that is back with an error.
LEMMA AtFailed ==
  ASSUME JobsInv, CountInv, NEW w \in Workers, worker[w].pc = "failed"
  PROVE  /\ worker[w].job \in Job
         /\ BusyIs(worker[w]) = 1 /\ \A t, k : RunsIt(worker[w], t, k) = 0
         /\ Idle \in WorkerState /\ BusyIs(Idle) = 0 /\ \A t, k : RunsIt(Idle, t, k) = 0
         /\ gauge' = [gauge EXCEPT !.running = @ - 1] /\ queue' = queue
              => gauge' = [queued |-> Len(queue'),
                           running |-> gauge.running + BusyIs(Idle) - BusyIs(worker[w])]
  <1>1. worker[w].job \in Job
    BY WorkerJob DEF JobsInv
  <1>2. BusyIs(worker[w]) = 1 /\ \A t, k : RunsIt(worker[w], t, k) = 0
    BY DEF BusyIs, RunsIt, InHandler
  <1>3. Idle \in WorkerState /\ BusyIs(Idle) = 0 /\ \A t, k : RunsIt(Idle, t, k) = 0
    BY DEF Idle, WorkerState, BusyIs, RunsIt, InHandler
  <1>4. gauge.queued = Len(queue)
    BY GaugesOf DEF CountInv
  <1> QED
    BY <1>1, <1>2, <1>3, <1>4, GaugeMoves

\* The item of a job that failed is held by its retry timer.
LEMMA RetryCounts ==
  ASSUME JobsInv, CountInv, NEW w \in Workers, RetryLater(w)
  PROVE  CountInv'
  <1> DEFINE j == worker[w].job
  <1> DEFINE a == [job |-> [j EXCEPT !.attempt = @ + 1], wait |-> Delay(j), held |-> TRUE]
  <1>1. /\ j \in Job
        /\ BusyIs(worker[w]) = 1 /\ \A t, k : RunsIt(worker[w], t, k) = 0
        /\ Idle \in WorkerState /\ BusyIs(Idle) = 0 /\ \A t, k : RunsIt(Idle, t, k) = 0
    BY AtFailed DEF RetryLater
  <1>2. a \in Absence
    <2>1. j.attempt + 1 \in 0 .. Retries
      <3>1. j.attempt < Retries
        BY DEF RetryLater, MayRetry
      <3>2. j.attempt \in Nat
        BY <1>1, JobFacts
      <3> QED
        BY <3>1, <3>2, QueueAssumption
    <2>2. [j EXCEPT !.attempt = @ + 1] \in Job
      BY <1>1, <2>1 DEF Job
    <2>3. Delay(j) \in Nat
      BY <1>1, DelayIsPositive
    <2> QED
      BY <2>2, <2>3 DEF Absence
  <1>3. a.held /\ a.job.task = j.task /\ a.job.key = j.key
    BY <1>1 DEF Job
  <1>4. away' = With(away, a) /\ Hold(j) /\ worker' = [worker EXCEPT ![w] = Idle] /\ queue' = queue
    BY DEF RetryLater
  <1>5. queue \in Seq(Job) /\ AwayBag(away) /\ inflight \in [Tasks -> [Keys -> Nat]]
    BY DEF JobsInv, CountInv
  <1>6. gauge' = [queued |-> Len(queue'), running |-> gauge.running + BusyIs(Idle) - BusyIs(worker[w])]
    BY AtFailed DEF RetryLater
  <1> HIDE DEF a, j
  <1>7. /\ AwayBag(away')
        /\ \A t, k : TimerHolds(away', t, k) = TimerHolds(away, t, k) + One(j, t, k)
    <2>1. \A t, k : One(a.job, t, k) = One(j, t, k)
      BY <1>3 DEF One, IsOf
    <2> QED
      BY <1>2, <1>3, <1>4, <1>5, <2>1, HoldsAway
  <1>8. /\ inflight' \in [Tasks -> [Keys -> Nat]]
        /\ \A t \in Tasks, k \in Keys : inflight'[t][k] = inflight[t][k] + One(j, t, k)
    BY <1>1, <1>4, <1>5, HoldFacts
  <1>9. ASSUME NEW t \in Tasks, NEW k \in Keys
        PROVE  WorkerMoves(w, Idle, t, k)
    <2> DEFINE n == inflight[t][k]
    <2> DEFINE m == inflight'[t][k]
    <2> DEFINE q == QueueHolds(queue, t, k)
    <2> DEFINE b == TimerHolds(away, t, k)
    <2> DEFINE c == TimerHolds(away', t, k)
    <2> DEFINE o == One(j, t, k)
    <2>1. m = n + o /\ c = b + o
      BY <1>7, <1>8
    <2>2. n \in Nat /\ m \in Nat /\ q \in Nat /\ b \in Nat /\ o \in Nat
      BY <1>5, <1>8, HoldsAreNat DEF One
    <2> HIDE DEF n, m, q, b, c, o
    <2>3. m + q + b + 0 = n + q + c + 0
      BY <2>1, <2>2
    <2> QED
      BY <1>1, <1>4, <2>3 DEF n, m, q, b, c, WorkerMoves
  <1> QED
    BY <1>1, <1>4, <1>5, <1>6, <1>7, <1>8, <1>9, WorkerBalance

\* A job is given up, and nobody held it.
LEMMA GiveUpCounts ==
  ASSUME JobsInv, CountInv, NEW w \in Workers, GiveUp(w)
  PROVE  CountInv'
  <1>1. /\ BusyIs(worker[w]) = 1 /\ \A t, k : RunsIt(worker[w], t, k) = 0
        /\ Idle \in WorkerState /\ BusyIs(Idle) = 0 /\ \A t, k : RunsIt(Idle, t, k) = 0
    BY AtFailed DEF GiveUp
  <1>2. UNCHANGED <<queue, away, inflight>> /\ worker' = [worker EXCEPT ![w] = Idle]
    BY DEF GiveUp
  <1>3. queue \in Seq(Job) /\ AwayBag(away) /\ inflight \in [Tasks -> [Keys -> Nat]]
    BY DEF JobsInv, CountInv
  <1>4. gauge' = [queued |-> Len(queue'), running |-> gauge.running + BusyIs(Idle) - BusyIs(worker[w])]
    BY AtFailed DEF GiveUp
  <1>5. \A t \in Tasks, k \in Keys : WorkerMoves(w, Idle, t, k)
    BY <1>1, <1>2 DEF WorkerMoves
  <1> QED
    BY <1>1, <1>2, <1>3, <1>4, <1>5, WorkerBalance

\* Every step of a worker keeps the counts.
LEMMA WorkerCounts ==
  ASSUME JobsInv, CountInv, NEW w \in Workers, WorkerStep(w)
  PROVE  CountInv'
  <1>1. AwayBag(away)
    BY DEF CountInv
  <1>2. ASSUME worker[w].pc \in InHandler, Return(w), UNCHANGED away
        PROVE  CountInv'
    BY <1>1, <1>2, ReturnCounts
  <1>3. ASSUME worker[w].pc \in InHandler, Fail(w)
        PROVE  CountInv'
    BY <1>3, FailCounts DEF Fail
  <1>4. CASE Take(w)
    BY <1>4, TakeCounts
  <1>5. CASE Start(w)
    BY <1>5, StartCounts
  <1>6. CASE HandlerClaim(w)
    BY <1>2, <1>3, <1>6, ProceedCounts DEF HandlerClaim, InHandler
  <1>7. CASE HandlerSync(w)
    BY <1>7, ProceedCounts DEF HandlerSync, InHandler
  <1>8. CASE HandlerRefuses(w)
    BY <1>2, <1>8 DEF HandlerRefuses, InHandler
  <1>9. CASE HandlerNodeLocked(w)
    <2> DEFINE j == worker[w].job
    <2> DEFINE a == [job |-> [j EXCEPT !.release = @ + 1], wait |-> LockDelay, held |-> FALSE]
    <2>1. worker[w].pc \in InHandler /\ Return(w) /\ away' = With(away, a)
      BY <1>9 DEF HandlerNodeLocked, InHandler
    <2>2. j \in Job /\ j.release \in Nat /\ j.release < MaxReleases
      BY <1>9, <2>1, AtHandler, JobFacts DEF HandlerNodeLocked, MayRelease
    <2>3. j.release + 1 \in 0 .. MaxReleases
      BY <2>2, QueueAssumption
    <2>4. [j EXCEPT !.release = @ + 1] \in Job
      BY <2>2, <2>3 DEF Job
    <2>5. a \in Absence /\ ~a.held
      BY <2>4, QueueAssumption DEF Absence
    <2> HIDE DEF a
    <2>6. AwayBag(away') /\ \A t \in Tasks, k \in Keys : TimerHolds(away', t, k) = TimerHolds(away, t, k)
      BY <1>1, <2>1, <2>5, HoldsAway, TimerHoldsNat
    <2> QED
      BY <2>1, <2>6, ReturnCounts
  <1>10. CASE HandlerComplete(w)
    <2>1. worker[w].pc \in InHandler
      BY <1>10 DEF HandlerComplete, InHandler
    <2>2. CASE Return(w) /\ UNCHANGED <<away, spent>>
      BY <1>2, <2>1, <2>2
    <2>3. CASE /\ worker' = [worker EXCEPT ![w].pc = "failed"] /\ LetGo(worker[w].job)
               /\ UNCHANGED <<queue, away, todo, gauge, sweep, spent>>
      BY <2>1, <2>3, FailCounts
    <2> QED
      BY <1>10, <2>2, <2>3 DEF HandlerComplete
  <1>11. CASE HandlerError(w)
    BY <1>2, <1>3, <1>11 DEF HandlerError
  <1>12. CASE DeadlineHits(w)
    BY <1>3, <1>12 DEF DeadlineHits
  <1>13. CASE RetryLater(w)
    BY <1>13, RetryCounts
  <1>14. CASE GiveUp(w)
    BY <1>14, GiveUpCounts
  <1> QED
    BY <1>4, <1>5, <1>6, <1>7, <1>8, <1>9, <1>10, <1>11, <1>12, <1>13, <1>14 DEF WorkerStep

\* The timer of a retry lets go of the item it held.
LEMMA WakeCounts ==
  ASSUME JobsInv, CountInv, NEW a \in BagToSet(away), TimerWakes(a)
  PROVE  CountInv'
  <1> DEFINE j == a.job
  <1> DEFINE c == Without(away, a)
  <1> DEFINE e == [a EXCEPT !.held = FALSE]
  <1>1. a \in Absence /\ a.held /\ j \in Job /\ j.task \in Tasks /\ j.key \in Keys
    BY JobFacts DEF JobsInv, TimerWakes, Absence
  <1>2. e \in Absence /\ ~e.held
    BY <1>1 DEF Absence
  <1>3. AwayBag(away) /\ inflight \in [Tasks -> [Keys -> Nat]] /\ queue \in Seq(Job)
    BY DEF CountInv, JobsInv
  <1>4. away' = With(c, e) /\ LetGo(j) /\ UNCHANGED <<queue, worker, gauge>>
    BY DEF TimerWakes
  <1> HIDE DEF j, c, e
  <1>5. AwayBag(c) /\ \A t, k : TimerHolds(away, t, k) = TimerHolds(c, t, k) + One(j, t, k)
    BY <1>1, <1>3, HoldsBack DEF j, c
  <1>6. \A t, k : TimerHolds(c, t, k) \in Nat
    BY <1>5, TimerHoldsNat
  <1>7. AwayBag(away') /\ \A t, k : TimerHolds(away', t, k) = TimerHolds(c, t, k)
    BY <1>2, <1>4, <1>5, <1>6, HoldsAway
  <1>8. inflight[j.task][j.key] > 0
    <2> DEFINE t == j.task
    <2> DEFINE k == j.key
    <2> DEFINE b == TimerHolds(away, t, k)
    <2> DEFINE d == TimerHolds(c, t, k)
    <2> DEFINE q == QueueHolds(queue, t, k)
    <2> DEFINE x == WorkerHolds(worker, t, k)
    <2> DEFINE n == inflight[t][k]
    <2>1. b = d + 1 /\ d \in Nat
      BY <1>5, <1>6 DEF One, IsOf
    <2>2. n = q + b + x
      BY <1>1, ExactByParts DEF CountInv
    <2>3. q \in Nat /\ x \in Nat
      BY <1>3, HoldsAreNat
    <2> HIDE DEF t, k, b, d, q, x, n
    <2>4. n > 0
      BY <2>1, <2>2, <2>3
    <2> QED
      BY <2>4 DEF n, t, k
  <1>9. /\ inflight' \in [Tasks -> [Keys -> Nat]]
        /\ \A t \in Tasks, k \in Keys : inflight[t][k] = inflight'[t][k] + One(j, t, k)
    BY <1>1, <1>3, <1>4, <1>8, HoldFacts
  <1>10. ASSUME NEW t \in Tasks, NEW k \in Keys
         PROVE  Moves(t, k)
    <2> DEFINE n == inflight[t][k]
    <2> DEFINE m == inflight'[t][k]
    <2> DEFINE q == QueueHolds(queue, t, k)
    <2> DEFINE b == TimerHolds(away, t, k)
    <2> DEFINE d == TimerHolds(away', t, k)
    <2> DEFINE o == One(j, t, k)
    <2>1. n = m + o /\ b = d + o
      BY <1>5, <1>7, <1>9
    <2>2. n \in Nat /\ m \in Nat /\ q \in Nat /\ d \in Nat /\ o \in Nat
      BY <1>3, <1>7, <1>9, HoldsAreNat, TimerHoldsNat DEF One
    <2> HIDE DEF n, m, q, b, d, o
    <2>3. m + q + b = n + q + d
      BY <2>1, <2>2
    <2> QED
      BY <1>4, <2>3 DEF n, m, q, b, d, Moves
  <1>11. gauge' = [queued |-> Len(queue'), running |-> gauge.running]
    <2>1. gauge \in [queued : Nat, running : Nat] /\ gauge.queued = Len(queue)
      BY GaugesOf DEF CountInv
    <2> QED
      BY <1>4, <2>1
  <1>12. /\ \A t \in Tasks, k \in Keys : WorkerHolds(worker', t, k) = WorkerHolds(worker, t, k)
         /\ BusyCount(worker') = BusyCount(worker) /\ queue' \in Seq(Job)
    BY <1>3, <1>4
  <1> QED
    BY <1>7, <1>9, <1>10, <1>11, <1>12, PoolBalance

\* A timer enqueues a job that nobody held.
LEMMA RedeliverCounts ==
  ASSUME JobsInv, CountInv, NEW a \in BagToSet(away), Redeliver(a)
  PROVE  CountInv'
  <1>1. a \in Absence /\ ~a.held /\ a.job \in Job
    BY DEF JobsInv, Redeliver, Absence
  <1>2. AwayBag(away) /\ away' = Without(away, a) /\ Enqueue(a.job) /\ UNCHANGED worker
    BY DEF CountInv, Redeliver
  <1>3. AwayBag(away') /\ \A t, k : TimerHolds(away, t, k) = TimerHolds(away', t, k) + 0
    BY <1>1, <1>2, HoldsBack
  <1>4. \A t, k : TimerHolds(away', t, k) = TimerHolds(away, t, k)
    <2>1. \A t, k : TimerHolds(away', t, k) \in Nat
      BY <1>3, TimerHoldsNat
    <2> QED
      BY <1>3, <2>1
  <1> QED
    BY <1>1, <1>2, <1>3, <1>4, EnqueueCounts

\* The memory of a process that starts.
Fresh ==
  /\ queue = <<>> /\ worker = [w \in Workers |-> Idle] /\ away = EmptyBag
  /\ inflight = [t \in Tasks |-> [k \in Keys |-> 0]]
  /\ gauge = [queued |-> 0, running |-> 0]

\* A process that starts holds nothing.
LEMMA FreshCounts == Fresh => CountInv
  <1> SUFFICES ASSUME Fresh PROVE CountInv
    OBVIOUS
  <1> USE DEF Fresh
  <1>1. AwayBag(away)
    BY FS_EmptySet DEF AwayBag, IsABag, EmptyBag, SetToBag, BagToSet
  <1>2. BagToSet(away) = {}
    BY DEF EmptyBag, SetToBag, BagToSet
  <1>3. ASSUME NEW t, NEW k
        PROVE  /\ QueueHolds(queue, t, k) = 0 /\ TimerHolds(away, t, k) = 0
               /\ WorkerHolds(worker, t, k) = 0
    <2>1. Spots(queue, t, k) = {}
      BY LenProperties, EmptySeq DEF Spots
    <2>2. Running(worker, t, k) = {}
      BY DEF Running, Idle, InHandler
    <2>3. {a \in BagToSet(away) : a.held /\ IsOf(a.job, t, k)} = {}
      BY <1>2
    <2>4. TimerHolds(away, t, k) = 0
      BY <2>3, SumOfNone DEF TimerHolds
    <2> QED
      BY <2>1, <2>2, <2>4, FS_EmptySet DEF QueueHolds, WorkerHolds
  <1>4. BusyCount(worker) = 0
    <2>1. Occupied(worker) = {}
      BY DEF Occupied, Idle
    <2> QED
      BY <2>1, FS_EmptySet DEF BusyCount
  <1>5. Len(queue) = 0
    BY EmptySeq
  <1>6. CountersExact
    BY <1>3, <1>4, <1>5, ExactByParts
  <1> QED
    BY <1>1, <1>6 DEF CountInv

\* The same of a process that starts again.
LEMMA FreshAgain == Fresh' => CountInv'
  BY FreshCounts, PTL

\* The process dies with everything it held.
LEMMA CrashCounts ==
  ASSUME Crash
  PROVE  CountInv'
  BY FreshAgain DEF Crash, Fresh

\* Time moves no job.
LEMMA TickCounts ==
  ASSUME JobsInv, CountInv, Tick
  PROVE  CountInv'
  <1>1. queue \in Seq(Job) /\ worker \in [Workers -> WorkerState]
        /\ AwayBag(away) /\ inflight \in [Tasks -> [Keys -> Nat]]
    BY DEF JobsInv, CountInv
  <1>2. queue' \in Seq(Job)
    BY TickStep DEF JobsInv
  <1>3. /\ queue' = [i \in 1 .. Len(queue) |-> AgedJob(queue[i])]
        /\ worker' = [w \in Workers |-> IF Busy(w) THEN [worker[w] EXCEPT !.job = AgedJob(@)] ELSE Idle]
        /\ away' = AgedAway /\ UNCHANGED <<inflight, gauge>>
        /\ \A a \in BagToSet(away) : a.wait > 0
    BY DEF Tick, Quiet
  <1>4. \A j \in Job : AgedJob(j).task = j.task /\ AgedJob(j).key = j.key
    BY DEF AgedJob, Job
  <1>5. Len(queue') = Len(queue) /\ \A t, k : QueueHolds(queue', t, k) = QueueHolds(queue, t, k)
    <2>1. Len(queue) \in Nat /\ \A i \in 1 .. Len(queue) : queue[i] \in Job
      BY <1>1, LenProperties, ElementOfSeq
    <2>2. \A i \in 1 .. Len(queue) : AgedJob(queue[i]) \in Job
      BY <2>1, AgedJobIsJob
    <2>3. Len(queue') = Len(queue) /\ \A i \in 1 .. Len(queue) : queue'[i] = AgedJob(queue[i])
      BY <1>3, <2>1, <2>2, IsASeq
    <2>4. ASSUME NEW t, NEW k
          PROVE  Spots(queue', t, k) = Spots(queue, t, k)
      BY <1>4, <2>1, <2>3 DEF Spots, IsOf
    <2> QED
      BY <2>3, <2>4 DEF QueueHolds
  <1>6. ASSUME NEW w \in Workers
        PROVE  /\ worker'[w].pc = worker[w].pc
               /\ worker[w].pc # "idle" =>
                    /\ worker'[w].job.task = worker[w].job.task
                    /\ worker'[w].job.key = worker[w].job.key
    <2>1. CASE Busy(w)
      <3>1. worker[w] \in [pc : {"taken", "failed"} \cup InHandler, job : Job]
        BY <1>1, <2>1, WorkerJob DEF Busy
      <3>2. worker'[w] = [worker[w] EXCEPT !.job = AgedJob(@)]
        BY <1>3, <2>1
      <3> QED
        BY <1>4, <3>1, <3>2
    <2>2. CASE ~Busy(w)
      BY <1>3, <2>2 DEF Busy, Idle
    <2> QED
      BY <2>1, <2>2
  <1>7. /\ \A t \in Tasks, k \in Keys : WorkerHolds(worker', t, k) = WorkerHolds(worker, t, k)
        /\ BusyCount(worker') = BusyCount(worker)
    <2>1. Occupied(worker') = Occupied(worker)
      BY <1>6 DEF Occupied
    <2>2. ASSUME NEW t, NEW k
          PROVE  Running(worker', t, k) = Running(worker, t, k)
      BY <1>6 DEF Running, InHandler, IsOf
    <2> QED
      BY <2>1, <2>2 DEF WorkerHolds, BusyCount
  <1>8. AwayBag(away') /\ \A t, k : TimerHolds(away', t, k) = TimerHolds(away, t, k)
    BY <1>1, <1>3, HoldsAged
  <1>9. \A t \in Tasks, k \in Keys : Moves(t, k)
    BY <1>3, <1>5, <1>8 DEF Moves
  <1>10. gauge' = [queued |-> Len(queue'), running |-> gauge.running]
    <2>1. gauge \in [queued : Nat, running : Nat] /\ gauge.queued = Len(queue)
      BY GaugesOf DEF CountInv
    <2> QED
      BY <1>3, <1>5, <2>1
  <1>11. inflight' \in [Tasks -> [Keys -> Nat]]
    BY <1>1, <1>3
  <1> QED
    BY <1>2, <1>7, <1>8, <1>9, <1>10, <1>11, PoolBalance

\* Whoever hands a job over, the counts follow it.
THEOREM StepCountInv == JobsInv /\ CountInv /\ [QueueNext]_vars => CountInv'
  <1> SUFFICES ASSUME JobsInv, CountInv, [QueueNext]_vars PROVE CountInv'
    OBVIOUS
  <1>1. CASE \E t \in Tasks : AdminRetry(t) \/ \E ks \in SUBSET Keys : Submit(t, ks)
    BY <1>1, CountsStay DEF AdminRetry, Submit
  <1>2. CASE DispatchStep
    <2>1. PICK t \in Tasks, k \in Keys : DispatchNext(t, k)
      BY <1>2 DEF DispatchStep
    <2>2. NewJob(t, k) \in Job
      BY QueueAssumption DEF NewJob, Job, NoDeadline
    <2>3. Enqueue(NewJob(t, k)) /\ UNCHANGED <<worker, away>>
      BY <2>1 DEF DispatchNext
    <2>4. AwayBag(away') /\ \A u \in Tasks, l \in Keys : TimerHolds(away', u, l) = TimerHolds(away, u, l)
      BY <2>3 DEF CountInv
    <2> QED
      BY <2>2, <2>3, <2>4, EnqueueCounts
  <1>3. CASE \E w \in Workers : WorkerStep(w)
    BY <1>3, WorkerCounts
  <1>4. CASE TimerStep
    BY <1>4, WakeCounts, RedeliverCounts DEF TimerStep
  <1>5. CASE SweepStep
    BY <1>5, CountsStay DEF SweepStep, SweepReads, SweepChecks, SweepFails, SweepEnds
  <1>6. CASE Crash
    BY <1>6, CrashCounts
  <1>7. CASE Tick
    BY <1>7, TickCounts
  <1>8. CASE UNCHANGED vars
    BY <1>8, CountsStay DEF vars
  <1> QED
    BY <1>1, <1>2, <1>3, <1>4, <1>5, <1>6, <1>7, <1>8 DEF QueueNext

\* The counts are exact in every state, and they and the absences are well typed.
THEOREM CountsFollow == QueueSpec => []CountInv
  <1>1. QueueInit => CountInv
    BY FreshCounts DEF QueueInit, Fresh
  <1> QED
    BY <1>1, StepCountInv, JobsWellFormed, PTL DEF QueueSpec

\* The in-flight map and the gauges of the queue are exact through every handover,
\* retry, time limit and crash, for every number of workers, jobs and retries.
THEOREM CountersAreExact == QueueSpec => []CountersExact
  <1>1. CountInv => CountersExact
    BY DEF CountInv
  <1> QED
    BY <1>1, CountsFollow, PTL

\* Every part of the queue's state keeps its shape.
THEOREM QueueTyped == QueueSpec => []QueueTypeOK
  <1>1. AsyncInv /\ JobsInv /\ CountInv => QueueTypeOK
    BY DEF AsyncInv, JobsInv, CountInv, AwayBag, QueueTypeOK
  <1> QED
    BY <1>1, QueueKeepsTables, JobsWellFormed, CountsFollow, PTL

-----------------------------------------------------------------------------
(* Every open item has a job. *)

\* The places where the job of an item is.
HasJob(t, k) ==
  \/ k \in todo[t]
  \/ \E i \in 1 .. Len(queue) : IsOf(queue[i], t, k)
  \/ \E a \in BagToSet(away) : IsOf(a.job, t, k)
  \/ \E w \in Workers : worker[w].pc # "idle" /\ IsOf(worker[w].job, t, k)

\* What the model spends, and the inductive invariant of the open items.
Spent == [crash : Nat, retry : Nat, lost : Nat]
OpenInv == spent \in Spent /\ OpenItemHasJob

\* The deliveries that have lost their jobs by a retry.
Exempt(t) == Kind[t] = "delivery" /\ spent.retry > 0

\* OpenItemHasJob item by item.
LEMMA OpenByJobs ==
  /\ OpenItemHasJob <=>
       ((spent.crash = 0 /\ spent.lost = 0) =>
          \A t \in Tasks, k \in Keys : item[t][k] \in Active => HasJob(t, k) \/ Exempt(t))
  /\ OpenItemHasJob' <=>
       ((spent'.crash = 0 /\ spent'.lost = 0) =>
          \A t \in Tasks, k \in Keys : item'[t][k] \in Active => HasJob(t, k)' \/ Exempt(t)')
  <1>1. ASSUME NEW t \in Tasks
        PROVE  /\ ActiveKeys(t) = {k \in Keys : item[t][k] \in Active}
               /\ ActiveKeys(t)' = {k \in Keys : item'[t][k] \in Active}
    BY DEF ActiveKeys, KeysIn
  <1>2. ASSUME NEW t \in Tasks, NEW k \in Keys
        PROVE  /\ HasJob(t, k) <=> \/ k \in todo[t] \/ InQueue(t, k) # {}
                                   \/ OnTimer(t, k) # {} \/ AtWorker(t, k) # {}
               /\ HasJob(t, k)' <=> \/ k \in todo'[t] \/ InQueue(t, k)' # {}
                                    \/ OnTimer(t, k)' # {} \/ AtWorker(t, k)' # {}
    BY DEF HasJob, IsOf, InQueue, OnTimer, AtWorker, Busy
  <1> QED
    BY <1>1, <1>2 DEF OpenItemHasJob, Exempt

\* What is left to show of a step that spends nothing.
LEMMA OpenFollows ==
  ASSUME OpenInv, UNCHANGED spent,
         \A t \in Tasks, k \in Keys :
           item'[t][k] \in Active =>
             HasJob(t, k)' \/ (item[t][k] \in Active /\ (HasJob(t, k) => HasJob(t, k)'))
  PROVE  OpenInv'
  <1>1. \A t : Exempt(t)' <=> Exempt(t)
    BY DEF Exempt
  <1> QED
    BY <1>1, OpenByJobs DEF OpenInv

\* A step of a worker takes away the job of that worker at most.
LEMMA OtherJobsStay ==
  ASSUME JobsInv, NEW w \in Workers, NEW st, worker' = [worker EXCEPT ![w] = st],
         UNCHANGED <<queue, todo>>, BagToSet(away) \subseteq BagToSet(away')
  PROVE  \A t, k : HasJob(t, k) =>
           HasJob(t, k)' \/ (worker[w].pc # "idle" /\ IsOf(worker[w].job, t, k))
  <1>1. worker'[w] = st /\ \A v \in Workers : v # w => worker'[v] = worker[v]
    BY DEF JobsInv
  <1> QED
    BY <1>1 DEF HasJob

\* A worker that goes on with its job takes no job away.
LEMMA WorkerKeepsJob ==
  ASSUME JobsInv, NEW w \in Workers, NEW st, worker' = [worker EXCEPT ![w] = st],
         st.pc # "idle", st.job.task = worker[w].job.task, st.job.key = worker[w].job.key,
         UNCHANGED <<queue, todo, away>>
  PROVE  /\ \A t, k : HasJob(t, k) => HasJob(t, k)'
         /\ \A t, k : IsOf(worker[w].job, t, k) => HasJob(t, k)'
  <1>1. worker'[w] = st
    BY DEF JobsInv
  <1>2. \A t, k : IsOf(worker[w].job, t, k) => HasJob(t, k)'
    BY <1>1 DEF HasJob, IsOf
  <1>3. \A t, k : HasJob(t, k) => HasJob(t, k)'
    BY <1>2, OtherJobsStay
  <1> QED
    BY <1>2, <1>3 DEF IsOf

\* The verdict on an item leaves it closed, and opens none.
LEMMA VerdictCloses ==
  ASSUME AsyncInv, NEW t \in Tasks, NEW k \in Keys, NEW s \in Terminal, TryFinish(t, k, s)
  PROVE  /\ item'[t][k] \notin Active
         /\ \A u \in Tasks, l \in Keys : item'[u][l] \in Active => item[u][l] \in Active
  <1>1. item \in [Tasks -> [Keys -> Statuses]]
    BY DEF AsyncInv, AsyncTypeOK
  <1>2. s \in Statuses /\ s \notin Active
    BY DEF Statuses, Terminal, Active
  <1>3. CASE FinishOpen(t, k)
    <2>1. SetItems(t, {k}, s)
      BY <1>3 DEF TryFinish, FinishItem
    <2> QED
      BY <1>1, <1>2, <2>1, SetItemsFacts
  <1>4. CASE ~FinishOpen(t, k)
    <2>1. item' = item
      BY <1>4 DEF TryFinish, asyncVars
    <2>2. item[t][k] \notin Active
      BY <1>4 DEF FinishOpen, AsyncInv, TerminalIsSettled, ActiveKeys, KeysIn, Active
    <2> QED
      BY <2>1, <2>2
  <1> QED
    BY <1>3, <1>4

\* A worker that is done with its item goes idle.
LEMMA DoneWithItem ==
  ASSUME OpenInv, JobsInv, NEW w \in Workers, UNCHANGED spent,
         worker' = [worker EXCEPT ![w] = Idle], UNCHANGED <<queue, todo, away>>,
         item'[worker[w].job.task][worker[w].job.key] \notin Active,
         \A u \in Tasks, l \in Keys : item'[u][l] \in Active => item[u][l] \in Active
  PROVE  OpenInv'
  <1>1. \A t, k : HasJob(t, k) =>
           HasJob(t, k)' \/ (worker[w].pc # "idle" /\ IsOf(worker[w].job, t, k))
    BY OtherJobsStay
  <1> QED
    BY <1>1, OpenFollows DEF IsOf

\* A worker hands its job to a timer.
LEMMA JobToTimer ==
  ASSUME OpenInv, JobsInv, NEW w \in Workers, UNCHANGED spent, UNCHANGED item,
         worker' = [worker EXCEPT ![w] = Idle], UNCHANGED <<queue, todo>>,
         NEW a, away' = With(away, a),
         a.job.task = worker[w].job.task, a.job.key = worker[w].job.key
  PROVE  OpenInv'
  <1>1. BagToSet(away') = BagToSet(away) \cup {a}
    BY BagMembers
  <1>2. \A t, k : IsOf(worker[w].job, t, k) => HasJob(t, k)'
    BY <1>1 DEF HasJob, IsOf
  <1>3. \A t, k : HasJob(t, k) => HasJob(t, k)'
    BY <1>1, <1>2, OtherJobsStay
  <1> QED
    BY <1>3, OpenFollows

\* A verdict that was lost ends the promise.
LEMMA Lost ==
  ASSUME OpenInv, LoseVerdict
  PROVE  OpenInv'
  <1>1. spent.lost \in Nat /\ spent.crash \in Nat /\ spent.retry \in Nat
    BY DEF OpenInv, Spent
  <1>2. spent' \in Spent /\ spent'.lost = spent.lost + 1
    BY <1>1 DEF OpenInv, LoseVerdict, Spent
  <1>3. spent'.lost # 0
    BY <1>1, <1>2
  <1> QED
    BY <1>2, <1>3, OpenByJobs DEF OpenInv

\* No step of a worker leaves an open item without a job.
LEMMA WorkerFollows ==
  ASSUME AsyncInv, JobsInv, OpenInv, NEW w \in Workers, WorkerStep(w)
  PROVE  OpenInv'
  <1> DEFINE j == worker[w].job
  <1>1. worker \in [Workers -> WorkerState]
    BY DEF JobsInv
  <1>2. ASSUME worker[w].pc # "idle"
        PROVE  /\ worker[w] \in [pc : {"taken", "failed"} \cup InHandler, job : Job]
               /\ j \in Job /\ j.task \in Tasks /\ j.key \in Keys
    <2>1. worker[w] \in [pc : {"taken", "failed"} \cup InHandler, job : Job]
      BY <1>1, <1>2, WorkerJob
    <2> QED
      BY <2>1, JobFacts
  <1>3. ASSUME NEW pc \in {"failed"} \cup InHandler, worker[w].pc # "idle",
               worker' = [worker EXCEPT ![w].pc = pc], UNCHANGED <<queue, todo, away>>
        PROVE  /\ \A t, k : HasJob(t, k) => HasJob(t, k)'
               /\ \A t, k : IsOf(j, t, k) => HasJob(t, k)'
    <2> DEFINE st == [worker[w] EXCEPT !.pc = pc]
    <2>1. worker' = [worker EXCEPT ![w] = st]
      BY <1>3
    <2>2. st.pc # "idle" /\ st.job = j
      BY <1>2, <1>3 DEF InHandler
    <2> HIDE DEF st
    <2> QED
      BY <1>3, <2>1, <2>2, WorkerKeepsJob
  <1>4. ASSUME worker[w].pc # "idle", Fail(w)
        PROVE  OpenInv'
    <2>1. /\ worker' = [worker EXCEPT ![w].pc = "failed"] /\ UNCHANGED <<queue, todo, away>>
          /\ UNCHANGED <<item, spent>>
      BY <1>4 DEF Fail, asyncVars
    <2>2. \A t, k : HasJob(t, k) => HasJob(t, k)'
      BY <1>3, <1>4, <2>1
    <2> QED
      BY <2>1, <2>2, OpenFollows
  <1>5. ASSUME worker[w].pc # "idle", Return(w), UNCHANGED <<away, spent>>,
               item'[j.task][j.key] \notin Active,
               \A u \in Tasks, l \in Keys : item'[u][l] \in Active => item[u][l] \in Active
        PROVE  OpenInv'
    BY <1>5, DoneWithItem DEF Return
  <1>6. CASE Take(w)
    <2> DEFINE h == Head(queue)
    <2> DEFINE st == [pc |-> "taken", job |-> h]
    <2>1. queue \in Seq(Job) /\ queue # <<>>
      BY <1>6 DEF JobsInv, Take
    <2>2. /\ Tail(queue) \in Seq(Job) /\ h = queue[1]
          /\ Len(queue) \in Nat /\ Len(Tail(queue)) = Len(queue) - 1
          /\ \A i \in 1 .. Len(Tail(queue)) : Tail(queue)[i] = queue[i + 1]
      BY <2>1, HeadTailProperties, LenProperties
    <2>3. \A i \in 1 .. Len(queue) :
            i = 1 \/ (i - 1 \in 1 .. Len(Tail(queue)) /\ Tail(queue)[i - 1] = queue[i])
      BY <2>2
    <2>4. worker[w].pc = "idle" /\ worker'[w] = st /\ \A v \in Workers : v # w => worker'[v] = worker[v]
      BY <1>1, <1>6 DEF Take, Busy
    <2>5. queue' = Tail(queue) /\ UNCHANGED <<away, todo, item, spent>>
      BY <1>6 DEF Take, asyncVars
    <2> HIDE DEF h
    <2>6. \A t, k : IsOf(h, t, k) => HasJob(t, k)'
      BY <2>4 DEF HasJob, IsOf
    <2>7. \A t, k : HasJob(t, k) => HasJob(t, k)'
      <3> SUFFICES ASSUME NEW t, NEW k, HasJob(t, k) PROVE HasJob(t, k)'
        OBVIOUS
      <3>1. CASE \E i \in 1 .. Len(queue) : IsOf(queue[i], t, k)
        <4>1. PICK i \in 1 .. Len(queue) : IsOf(queue[i], t, k)
          BY <3>1
        <4>2. CASE i = 1
          BY <2>2, <2>6, <4>1, <4>2
        <4>3. CASE i # 1
          BY <2>3, <2>5, <4>1, <4>3 DEF HasJob
        <4> QED
          BY <4>2, <4>3
      <3>2. CASE k \in todo[t] \/ \E a \in BagToSet(away) : IsOf(a.job, t, k)
        BY <2>5, <3>2 DEF HasJob
      <3>3. CASE \E v \in Workers : worker[v].pc # "idle" /\ IsOf(worker[v].job, t, k)
        BY <2>4, <3>3 DEF HasJob
      <3> QED
        BY <3>1, <3>2, <3>3 DEF HasJob
    <2> QED
      BY <2>5, <2>7, OpenFollows
  <1>7. CASE Start(w)
    <2>1. worker[w].pc # "idle" /\ UNCHANGED <<queue, todo, away, item, spent>>
      BY <1>7 DEF Start, asyncVars
    <2> DEFINE started == [j EXCEPT !.left = IF @ = NoDeadline THEN JobTimeout ELSE @]
    <2>2. started.task = j.task /\ started.key = j.key
      BY <1>2, <2>1 DEF Job
    <2>3. \E pc \in {"failed", "claim"} : worker' = [worker EXCEPT ![w] = [pc |-> pc, job |-> started]]
      BY <1>7 DEF Start
    <2>4. PICK pc \in {"failed", "claim"} : worker' = [worker EXCEPT ![w] = [pc |-> pc, job |-> started]]
      BY <2>3
    <2> DEFINE st == [pc |-> pc, job |-> started]
    <2>5. st.pc # "idle" /\ st.job.task = j.task /\ st.job.key = j.key
      BY <2>2
    <2> HIDE DEF st, started
    <2>6. \A t, k : HasJob(t, k) => HasJob(t, k)'
      BY <2>1, <2>4, <2>5, WorkerKeepsJob DEF st
    <2> QED
      BY <2>1, <2>6, OpenFollows
  <1>8. CASE HandlerClaim(w)
    <2>1. worker[w].pc # "idle"
      BY <1>8 DEF HandlerClaim
    <2>2. CASE ClaimItem(j.task, j.key) /\ Proceed(w, "work")
      <3>1. /\ \A t, k : HasJob(t, k) => HasJob(t, k)'
            /\ \A t, k : IsOf(j, t, k) => HasJob(t, k)'
        BY <1>3, <2>1, <2>2 DEF Proceed, InHandler
      <3>2. \A t \in Tasks, k \in Keys :
              item'[t][k] \in Active => item[t][k] \in Active \/ (t = j.task /\ k = j.key)
        <4>1. SetItems(j.task, {j.key}, "running") /\ item \in [Tasks -> [Keys -> Statuses]]
          BY <2>2 DEF ClaimItem, AsyncInv, AsyncTypeOK
        <4>2. j.task \in Tasks /\ "running" \in Statuses
          BY <1>2, <2>1 DEF Statuses, Active
        <4> QED
          BY <4>1, <4>2, SetItemsFacts
      <3>3. UNCHANGED spent
        BY <2>2 DEF Proceed
      <3> HIDE DEF j
      <3>4. ASSUME NEW t \in Tasks, NEW k \in Keys, item'[t][k] \in Active
            PROVE  HasJob(t, k)' \/ (item[t][k] \in Active /\ (HasJob(t, k) => HasJob(t, k)'))
        <4>1. CASE item[t][k] \in Active
          BY <3>1, <4>1
        <4>2. CASE t = j.task /\ k = j.key
          BY <3>1, <4>2 DEF IsOf
        <4> QED
          BY <3>2, <3>4, <4>1, <4>2
      <3> QED
        BY <3>3, <3>4, OpenFollows
    <2>3. CASE /\ item[j.task][j.key] = "succeeded" \/ task[j.task].status \in Terminal
               /\ Return(w) /\ UNCHANGED <<asyncVars, away, spent>>
      <3>1. item' = item /\ j.task \in Tasks /\ j.key \in Keys
        BY <1>2, <2>1, <2>3 DEF asyncVars
      <3>2. item[j.task][j.key] \notin Active
        BY <2>3, <3>1 DEF AsyncInv, TerminalIsSettled, ActiveKeys, KeysIn, Active
      <3> QED
        BY <1>5, <2>1, <2>3, <3>1, <3>2
    <2>4. CASE Fail(w)
      BY <1>4, <2>1, <2>4
    <2> QED
      BY <1>8, <2>2, <2>3, <2>4 DEF HandlerClaim
  <1>9. CASE HandlerSync(w)
    <2>1. worker[w].pc # "idle" /\ Proceed(w, "synced") /\ UNCHANGED <<item, spent>>
      BY <1>9 DEF HandlerSync, Proceed, asyncVars
    <2>2. \A t, k : HasJob(t, k) => HasJob(t, k)'
      BY <1>3, <2>1 DEF Proceed, InHandler
    <2> QED
      BY <2>1, <2>2, OpenFollows
  <1>10. CASE HandlerRefuses(w)
    <2>1. /\ worker[w].pc # "idle" /\ Return(w) /\ UNCHANGED <<away, spent>>
          /\ TryFinish(j.task, j.key, "failed") /\ "failed" \in Terminal
      BY <1>10 DEF HandlerRefuses, Terminal
    <2> QED
      BY <1>2, <1>5, <2>1, VerdictCloses
  <1>11. CASE HandlerNodeLocked(w)
    <2> DEFINE a == [job |-> [j EXCEPT !.release = @ + 1], wait |-> LockDelay, held |-> FALSE]
    <2>1. /\ worker[w].pc # "idle" /\ Return(w) /\ away' = With(away, a) /\ UNCHANGED <<item, spent>>
      BY <1>11 DEF HandlerNodeLocked, asyncVars
    <2>2. a.job.task = j.task /\ a.job.key = j.key
      BY <1>2, <2>1 DEF Job
    <2>3. worker' = [worker EXCEPT ![w] = Idle] /\ UNCHANGED <<queue, todo>>
      BY <2>1 DEF Return
    <2> HIDE DEF a
    <2> QED
      BY <2>1, <2>2, <2>3, JobToTimer
  <1>12. CASE HandlerComplete(w)
    <2>1. worker[w].pc # "idle" /\ TryFinish(j.task, j.key, "succeeded") /\ "succeeded" \in Terminal
      BY <1>12 DEF HandlerComplete, Terminal
    <2>2. /\ item'[j.task][j.key] \notin Active
          /\ \A u \in Tasks, l \in Keys : item'[u][l] \in Active => item[u][l] \in Active
      BY <1>2, <2>1, VerdictCloses
    <2>3. CASE Return(w) /\ UNCHANGED <<away, spent>>
      BY <1>5, <2>1, <2>2, <2>3
    <2>4. CASE /\ worker' = [worker EXCEPT ![w].pc = "failed"]
               /\ UNCHANGED <<queue, away, todo, gauge, sweep, spent>>
      <3>1. \A t, k : HasJob(t, k) => HasJob(t, k)'
        BY <1>3, <2>1, <2>4
      <3> QED
        BY <2>2, <2>4, <3>1, OpenFollows
    <2> QED
      BY <1>12, <2>3, <2>4 DEF HandlerComplete
  <1>13. CASE HandlerError(w)
    <2>1. CASE Fail(w)
      BY <1>4, <1>13, <2>1 DEF HandlerError, InHandler
    <2>2. CASE LoseVerdict
      BY <2>2, Lost
    <2> QED
      BY <1>13, <2>1, <2>2 DEF HandlerError
  <1>14. CASE DeadlineHits(w)
    BY <1>4, <1>14 DEF DeadlineHits, InHandler
  <1>15. CASE RetryLater(w)
    <2> DEFINE a == [job |-> [j EXCEPT !.attempt = @ + 1], wait |-> Delay(j), held |-> TRUE]
    <2>1. /\ worker[w].pc # "idle" /\ away' = With(away, a) /\ UNCHANGED <<item, spent>>
          /\ worker' = [worker EXCEPT ![w] = Idle] /\ UNCHANGED <<queue, todo>>
      BY <1>15 DEF RetryLater, asyncVars
    <2>2. a.job.task = j.task /\ a.job.key = j.key
      BY <1>2, <2>1 DEF Job
    <2> HIDE DEF a
    <2> QED
      BY <2>1, <2>2, JobToTimer
  <1>16. CASE GiveUp(w)
    <2>1. CASE LoseVerdict
      BY <2>1, Lost
    <2>2. CASE TryFinish(j.task, j.key, "failed") /\ UNCHANGED spent
      <3>1. worker[w].pc # "idle" /\ "failed" \in Terminal /\ worker' = [worker EXCEPT ![w] = Idle]
            /\ UNCHANGED <<queue, todo, away>>
        BY <1>16 DEF GiveUp, Terminal
      <3>2. /\ item'[j.task][j.key] \notin Active
            /\ \A u \in Tasks, l \in Keys : item'[u][l] \in Active => item[u][l] \in Active
        BY <1>2, <2>2, <3>1, VerdictCloses
      <3> QED
        BY <2>2, <3>1, <3>2, DoneWithItem
    <2> QED
      BY <1>16, <2>1, <2>2 DEF GiveUp
  <1> QED
    BY <1>6, <1>7, <1>8, <1>9, <1>10, <1>11, <1>12, <1>13, <1>14, <1>15, <1>16 DEF WorkerStep

\* A task that is submitted has every item of it left to dispatch.
LEMMA SubmitFollows ==
  ASSUME AsyncInv, JobsInv, OpenInv, NEW t \in Tasks, NEW ks \in SUBSET Keys, Submit(t, ks)
  PROVE  OpenInv'
  <1>1. /\ item \in [Tasks -> [Keys -> Statuses]] /\ \A k \in Keys : item[t][k] = "absent"
        /\ SetItems(t, ks, "pending") /\ "pending" \in Statuses
    BY DEF AsyncInv, AsyncTypeOK, AbsentIsEmpty, Submit, Create, Statuses, Active
  <1>2. /\ \A u \in Tasks : u # t => item'[u] = item[u]
        /\ \A k \in Keys : item'[t][k] = IF k \in ks THEN "pending" ELSE item[t][k]
    BY <1>1, SetItemsFacts
  <1>3. /\ UNCHANGED <<queue, worker, away, spent>>
        /\ todo'[t] = ks /\ \A u \in Tasks : u # t => todo'[u] = todo[u]
    BY DEF Submit, JobsInv
  <1>4. ASSUME NEW u \in Tasks, NEW k \in Keys, item'[u][k] \in Active
        PROVE  HasJob(u, k)' \/ (item[u][k] \in Active /\ (HasJob(u, k) => HasJob(u, k)'))
    <2>1. CASE u = t
      <3>1. k \in ks
        BY <1>1, <1>2, <1>4, <2>1 DEF Active
      <3> QED
        BY <1>3, <2>1, <3>1 DEF HasJob
    <2>2. CASE u # t
      BY <1>2, <1>3, <1>4, <2>2 DEF HasJob
    <2> QED
      BY <2>1, <2>2
  <1> QED
    BY <1>3, <1>4, OpenFollows

\* A retried task has every item that it reopens left to dispatch, unless it is a
\* delivery.
LEMMA AdminRetryFollows ==
  ASSUME AsyncInv, JobsInv, OpenInv, NEW t \in Tasks, AdminRetry(t)
  PROVE  OpenInv'
  <1>1. /\ item \in [Tasks -> [Keys -> Statuses]] /\ SetItems(t, FailedKeys(t), "pending")
        /\ "pending" \in Statuses
    BY DEF AsyncInv, AsyncTypeOK, AdminRetry, Retry, Reopen, Statuses, Active
  <1>2. /\ \A u \in Tasks : u # t => item'[u] = item[u]
        /\ \A k \in Keys : item'[t][k] = IF k \in FailedKeys(t) THEN "pending" ELSE item[t][k]
    BY <1>1, SetItemsFacts
  <1>3. spent.lost \in Nat /\ spent.crash \in Nat /\ spent.retry \in Nat
    BY DEF OpenInv, Spent
  <1>4. /\ spent' \in Spent /\ spent'.lost = spent.lost /\ spent'.crash = spent.crash
        /\ spent'.retry = spent.retry + 1
    BY <1>3 DEF OpenInv, AdminRetry, Spent
  <1>5. spent'.retry > 0 /\ (spent.retry > 0 => spent'.retry > 0)
    BY <1>3, <1>4
  <1>6. /\ UNCHANGED <<queue, worker, away>>
        /\ \A u \in Tasks : todo[u] \subseteq todo'[u]
        /\ Kind[t] # "delivery" => FailedKeys(t) \subseteq todo'[t]
    BY DEF AdminRetry, JobsInv
  <1>7. \A u, k : u \in Tasks /\ HasJob(u, k) => HasJob(u, k)'
    BY <1>6 DEF HasJob
  <1>8. \A u \in Tasks : (Exempt(u) => Exempt(u)') /\ (Kind[u] = "delivery" => Exempt(u)')
    BY <1>5 DEF Exempt
  <1>9. ASSUME NEW u \in Tasks, NEW k \in Keys, item'[u][k] \in Active
        PROVE  HasJob(u, k)' \/ Exempt(u)' \/ item[u][k] \in Active
    <2>1. CASE u = t /\ k \in FailedKeys(t)
      <3>1. CASE Kind[t] = "delivery"
        BY <1>8, <2>1, <3>1
      <3>2. CASE Kind[t] # "delivery"
        BY <1>6, <2>1, <3>2 DEF HasJob
      <3> QED
        BY <3>1, <3>2
    <2>2. CASE ~(u = t /\ k \in FailedKeys(t))
      BY <1>2, <1>9, <2>2
    <2> QED
      BY <2>1, <2>2
  <1> QED
    BY <1>4, <1>7, <1>8, <1>9, OpenByJobs DEF OpenInv

\* The dispatcher puts into the channel what it takes from its list.
LEMMA DispatchFollows ==
  ASSUME AsyncInv, JobsInv, OpenInv, NEW t \in Tasks, NEW k \in Keys, DispatchNext(t, k)
  PROVE  OpenInv'
  <1>1. /\ queue' = Append(queue, NewJob(t, k)) /\ UNCHANGED <<worker, away, item, spent>>
        /\ todo' = [todo EXCEPT ![t] = @ \ {k}] /\ queue \in Seq(Job) /\ NewJob(t, k) \in Job
    BY QueueAssumption DEF DispatchNext, Enqueue, asyncVars, JobsInv, NewJob, Job, NoDeadline
  <1>2. /\ Len(queue') = Len(queue) + 1 /\ queue'[Len(queue) + 1] = NewJob(t, k)
        /\ \A i \in 1 .. Len(queue) : queue'[i] = queue[i]
        /\ Len(queue) \in Nat
    BY <1>1, AppendProperties, LenProperties
  <1>3. HasJob(t, k)'
    <2>1. Len(queue) + 1 \in 1 .. Len(queue')
      BY <1>2
    <2>2. IsOf(NewJob(t, k), t, k)
      BY DEF IsOf, NewJob
    <2> QED
      BY <1>2, <2>1, <2>2 DEF HasJob
  <1>4. \A i \in 1 .. Len(queue) : i \in 1 .. Len(queue') /\ queue'[i] = queue[i]
    BY <1>2
  <1>5. ASSUME NEW u \in Tasks, NEW l \in Keys, HasJob(u, l)
        PROVE  HasJob(u, l)'
    <2>1. CASE u = t /\ l = k
      BY <1>3, <2>1
    <2>2. CASE ~(u = t /\ l = k)
      <3>1. l \in todo[u] => l \in todo'[u]
        BY <1>1, <2>2 DEF JobsInv
      <3> QED
        BY <1>1, <1>4, <1>5, <3>1 DEF HasJob
    <2> QED
      BY <2>1, <2>2
  <1> QED
    BY <1>1, <1>5, OpenFollows

\* A timer gives its job to itself or to the channel.
LEMMA TimerFollows ==
  ASSUME JobsInv, CountInv, OpenInv, TimerStep
  PROVE  OpenInv'
  <1>1. PICK a \in BagToSet(away) : TimerWakes(a) \/ Redeliver(a)
    BY DEF TimerStep
  <1>2. a \in Absence /\ AwayBag(away) /\ queue \in Seq(Job) /\ a.job \in Job
    BY <1>1 DEF JobsInv, CountInv, Absence
  <1>3. BagToSet(away) \ {a} \subseteq BagToSet(Without(away, a))
    BY <1>2 DEF Without, BagToSet, SetToBag, (-), AwayBag, IsABag
  <1>4. UNCHANGED <<worker, todo, item, spent>>
    BY <1>1 DEF TimerWakes, Redeliver, asyncVars
  <1>5. CASE TimerWakes(a)
    <2> DEFINE e == [a EXCEPT !.held = FALSE]
    <2>1. away' = With(Without(away, a), e) /\ UNCHANGED queue
      BY <1>5 DEF TimerWakes
    <2>2. e.job = a.job
      BY <1>2 DEF Absence
    <2> HIDE DEF e
    <2>3. BagToSet(away) \ {a} \subseteq BagToSet(away') /\ e \in BagToSet(away')
      BY <1>3, <2>1, BagMembers
    <2>4. \A t, k : HasJob(t, k) => HasJob(t, k)'
      BY <1>4, <2>1, <2>2, <2>3 DEF HasJob, IsOf
    <2> QED
      BY <1>4, <2>4, OpenFollows
  <1>6. CASE Redeliver(a)
    <2>1. queue' = Append(queue, a.job) /\ away' = Without(away, a)
      BY <1>6 DEF Redeliver, Enqueue
    <2>2. /\ Len(queue') = Len(queue) + 1 /\ queue'[Len(queue) + 1] = a.job
          /\ \A i \in 1 .. Len(queue) : queue'[i] = queue[i]
          /\ Len(queue) \in Nat
      BY <1>2, <2>1, AppendProperties, LenProperties
    <2>3. /\ \A i \in 1 .. Len(queue) : i \in 1 .. Len(queue') /\ queue'[i] = queue[i]
          /\ Len(queue) + 1 \in 1 .. Len(queue')
      BY <2>2
    <2>4. \A t, k : IsOf(a.job, t, k) => HasJob(t, k)'
      BY <2>2, <2>3 DEF HasJob, IsOf
    <2>5. \A b \in BagToSet(away) : b = a \/ b \in BagToSet(away')
      BY <1>3, <2>1
    <2>6. \A t, k : HasJob(t, k) => HasJob(t, k)'
      BY <1>4, <2>3, <2>4, <2>5 DEF HasJob
    <2> QED
      BY <1>4, <2>6, OpenFollows
  <1> QED
    BY <1>1, <1>5, <1>6

\* The sweeper closes items and moves no job.
LEMMA SweepFollows ==
  ASSUME AsyncInv, OpenInv, SweepStep
  PROVE  OpenInv'
  <1>1. UNCHANGED <<queue, worker, away, todo, spent>>
    BY DEF SweepStep, SweepReads, SweepChecks, SweepFails, SweepEnds
  <1>2. \A t \in Tasks, k \in Keys : item'[t][k] \in Active => item[t][k] \in Active
    <2>1. CASE \E t \in Tasks : SweepFails(t)
      <3>1. PICK t \in Tasks : SweepFails(t)
        BY <2>1
      <3>2. /\ SetItems(t, ActiveKeys(t), "failed") /\ item \in [Tasks -> [Keys -> Statuses]]
            /\ "failed" \in Statuses /\ "failed" \notin Active
        BY <3>1 DEF SweepFails, FailPendingItems, AsyncInv, AsyncTypeOK, Statuses, Terminal, Active
      <3> QED
        BY <3>2, SetItemsFacts
    <2>2. CASE UNCHANGED item
      BY <2>2
    <2> QED
      BY <2>1, <2>2 DEF SweepStep, SweepReads, SweepChecks, SweepEnds, asyncVars
  <1>3. \A t, k : HasJob(t, k) => HasJob(t, k)'
    BY <1>1 DEF HasJob
  <1> QED
    BY <1>1, <1>2, <1>3, OpenFollows

\* A crash ends the promise.
LEMMA CrashFollows ==
  ASSUME OpenInv, Crash
  PROVE  OpenInv'
  <1>1. spent.lost \in Nat /\ spent.crash \in Nat /\ spent.retry \in Nat
    BY DEF OpenInv, Spent
  <1>2. spent' \in Spent /\ spent'.crash = spent.crash + 1
    BY <1>1 DEF OpenInv, Crash, Spent
  <1>3. spent'.crash # 0
    BY <1>1, <1>2
  <1> QED
    BY <1>2, <1>3, OpenByJobs DEF OpenInv

\* Time makes jobs older and leaves them where they are.
LEMMA TickFollows ==
  ASSUME JobsInv, OpenInv, Tick
  PROVE  OpenInv'
  <1>1. queue \in Seq(Job) /\ worker \in [Workers -> WorkerState] /\ BagToSet(away) \subseteq Absence
    BY DEF JobsInv
  <1>2. /\ queue' = [i \in 1 .. Len(queue) |-> AgedJob(queue[i])]
        /\ worker' = [w \in Workers |-> IF Busy(w) THEN [worker[w] EXCEPT !.job = AgedJob(@)] ELSE Idle]
        /\ UNCHANGED <<todo, item, spent>>
    BY DEF Tick, db
  <1>3. \A j \in Job : \A t, k : IsOf(j, t, k) => IsOf(AgedJob(j), t, k)
    BY DEF AgedJob, Job, IsOf
  <1>4. /\ Len(queue') = Len(queue)
        /\ \A i \in 1 .. Len(queue) : queue[i] \in Job /\ queue'[i] = AgedJob(queue[i])
    <2>1. Len(queue) \in Nat /\ \A i \in 1 .. Len(queue) : queue[i] \in Job
      BY <1>1, LenProperties, ElementOfSeq
    <2>2. \A i \in 1 .. Len(queue) : AgedJob(queue[i]) \in Job
      BY <2>1, AgedJobIsJob
    <2> QED
      BY <1>2, <2>1, <2>2, IsASeq
  <1>5. ASSUME NEW a \in BagToSet(away)
        PROVE  AgedAbsence(a) \in BagToSet(away') /\ AgedAbsence(a).job = AgedJob(a.job) /\ a.job \in Job
    <2>1. BagToSet(away') = {AgedAbsence(b) : b \in BagToSet(away)}
      BY DEF Tick, AgedAway, BagToSet
    <2> QED
      BY <1>1, <2>1 DEF AgedAbsence, Absence
  <1>6. ASSUME NEW w \in Workers, worker[w].pc # "idle"
        PROVE  worker'[w].pc # "idle" /\ worker'[w].job = AgedJob(worker[w].job) /\ worker[w].job \in Job
    <2>1. worker[w] \in [pc : {"taken", "failed"} \cup InHandler, job : Job]
      BY <1>1, <1>6, WorkerJob
    <2>2. worker'[w] = [worker[w] EXCEPT !.job = AgedJob(@)]
      BY <1>2, <1>6 DEF Busy
    <2> QED
      BY <1>6, <2>1, <2>2
  <1>7. ASSUME NEW t, NEW k, HasJob(t, k)
        PROVE  HasJob(t, k)'
    <2>1. CASE k \in todo[t]
      BY <1>2, <2>1 DEF HasJob
    <2>2. CASE \E i \in 1 .. Len(queue) : IsOf(queue[i], t, k)
      BY <1>3, <1>4, <2>2 DEF HasJob
    <2>3. CASE \E a \in BagToSet(away) : IsOf(a.job, t, k)
      BY <1>3, <1>5, <2>3 DEF HasJob
    <2>4. CASE \E w \in Workers : worker[w].pc # "idle" /\ IsOf(worker[w].job, t, k)
      BY <1>3, <1>6, <2>4 DEF HasJob
    <2> QED
      BY <1>7, <2>1, <2>2, <2>3, <2>4 DEF HasJob
  <1> QED
    BY <1>2, <1>7, OpenFollows

\* No step but a crash, a lost verdict and the retry of a delivery leaves an open
\* item without a job.
THEOREM StepOpenInv ==
  AsyncInv /\ JobsInv /\ CountInv /\ OpenInv /\ [QueueNext]_vars => OpenInv'
  <1> SUFFICES ASSUME AsyncInv, JobsInv, CountInv, OpenInv, [QueueNext]_vars PROVE OpenInv'
    OBVIOUS
  <1>1. CASE \E t \in Tasks : AdminRetry(t) \/ \E ks \in SUBSET Keys : Submit(t, ks)
    BY <1>1, AdminRetryFollows, SubmitFollows
  <1>2. CASE DispatchStep
    BY <1>2, DispatchFollows DEF DispatchStep
  <1>3. CASE \E w \in Workers : WorkerStep(w)
    BY <1>3, WorkerFollows
  <1>4. CASE TimerStep
    BY <1>4, TimerFollows
  <1>5. CASE SweepStep
    BY <1>5, SweepFollows
  <1>6. CASE Crash
    BY <1>6, CrashFollows
  <1>7. CASE Tick
    BY <1>7, TickFollows
  <1>8. CASE UNCHANGED vars
    <2>1. \A t, k : HasJob(t, k) => HasJob(t, k)'
      BY <1>8 DEF vars, HasJob
    <2> QED
      BY <1>8, <2>1, OpenFollows DEF vars
  <1> QED
    BY <1>1, <1>2, <1>3, <1>4, <1>5, <1>6, <1>7, <1>8 DEF QueueNext

\* As long as the process lives and the database takes the verdicts, every open
\* item has a job that will settle it, unless it is of a retried delivery.
THEOREM OpenItemsHaveJobs == QueueSpec => []OpenItemHasJob
  <1>1. QueueInit => OpenInv
    <2> SUFFICES ASSUME QueueInit PROVE OpenInv
      OBVIOUS
    <2>1. spent \in Spent
      BY DEF QueueInit, Spent
    <2>2. \A t \in Tasks, k \in Keys : item[t][k] \notin Active
      BY DEF QueueInit, AsyncInit, Active
    <2> QED
      BY <2>1, <2>2, OpenByJobs DEF OpenInv
  <1>2. QueueSpec => []OpenInv
    BY <1>1, StepOpenInv, QueueKeepsTables, JobsWellFormed, CountsFollow, PTL DEF QueueSpec
  <1>3. OpenInv => OpenItemHasJob
    BY DEF OpenInv
  <1> QED
    BY <1>2, <1>3, PTL
=============================================================================
