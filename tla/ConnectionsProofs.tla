-------------------------- MODULE ConnectionsProofs --------------------------
(* The list of connections is exact and numbers are unique, for any number   *)
(* of connections, whatever they ask to be called.                           *)
EXTENDS Connections, FiniteSetTheorems, SequenceTheorems, WellFoundedInduction, TLAPS

\* A set of natural numbers has a least one.
LEMMA LeastNatural ==
  ASSUME NEW S \in SUBSET Nat, S # {}
  PROVE  \E n \in S : \A m \in S : n <= m
<1> DEFINE R == OpToRel(<, Nat)
<1>1. IsWellFoundedOn(R, Nat)
  BY NatLessThanWellFounded
<1>2. PICK n \in S : \A m \in S : <<m, n>> \notin R
  <2> HIDE DEF R
  <2> QED
    BY <1>1, WFMin
<1>3. ASSUME NEW m \in S PROVE n <= m
  <2>1. m \in Nat /\ n \in Nat /\ <<m, n>> \notin R
    BY <1>2
  <2> QED
    BY <2>1 DEF OpToRel
<1> QED
  BY <1>3

-----------------------------------------------------------------------------
(* The inductive invariant *)

Typed ==
  /\ thread \in [Conns -> [stage : Stages, id : Nat, out : Seq(Messages), remote : BOOLEAN]]
  /\ list \in Seq(Conns)
  /\ nextNumber \in Nat \ {0}
  /\ twins \in SUBSET Nat
  /\ corrupt \in BOOLEAN

Holds(k) == thread[k].stage \in {"chosen", "serving"}

\* Nobody is in the list twice, and only who is or was registered is in it.
\* A freed connection stays only under an id two of them had.
ListedOnce == \A i, j \in DOMAIN list : list[i] = list[j] => i = j
ListedAreServed ==
  \A k \in Listed : \/ thread[k].stage = "serving"
                    \/ Freed(k) /\ thread[k].id \in twins
ServedAreListed ==
  \A k \in Conns : thread[k].stage = "serving" /\ thread[k].id \notin twins => k \in Listed

Exact == ListedOnce /\ ListedAreServed /\ ServedAreListed

\* Two connections that have one id make it a twin; a number not asked for is
\* behind next_client_number.
HoldersAreTwins ==
  \A j, k \in Conns : j # k /\ Holds(j) /\ Holds(k) /\ thread[j].id = thread[k].id
                        => thread[k].id \in twins
NumbersAreGiven ==
  \A k \in Conns : Holds(k) => thread[k].id = Requested[k] \/ thread[k].id < nextNumber

ListInv ==
  /\ Typed
  /\ ~ corrupt => Exact
  /\ HoldersAreTwins /\ NumbersAreGiven /\ NumbersAreUnique

\* The strengthened invariant says what the runs check: but for ids two
\* connections have, the list is that of the connections served.
LEMMA ListInvImplies == ListInv => ListIsExact /\ NumbersAreUnique
<1> SUFFICES ASSUME ListInv, ~ corrupt PROVE ListIsExact
  BY DEF ListInv, ListIsExact
<1>1. ASSUME NEW k \in Conns, thread[k].id \notin twins
      PROVE  k \in Listed <=> thread[k].stage = "serving"
  BY <1>1 DEF ListInv, Exact, ListedAreServed, ServedAreListed
<1>2. ASSUME NEW k \in Conns, NEW i \in DOMAIN list, NEW j \in DOMAIN list, list[i] = k, list[j] = k
      PROVE  i = j
  BY <1>2 DEF ListInv, Exact, ListedOnce
<1> QED
  BY <1>1, <1>2 DEF ListIsExact

\* The server starts with no connection listed (main in server.c).
LEMMA ListInvInit == Init => ListInv
<1> SUFFICES ASSUME Init PROVE ListInv
  OBVIOUS
<1>1. Typed
  <2>1. corrupt \in BOOLEAN
    BY DEF Init
  <2> QED
    BY <2>1 DEF Init, Typed, Stages, Messages
<1>2. Listed = {} /\ \A k \in Conns : ~ Holds(k)
  BY DEF Init, Listed, Holds
<1>3. twins = {} /\ DOMAIN list = {}
  BY DEF Init
<1> QED
  BY <1>1, <1>2, <1>3 DEF ListInv, Exact, ListedOnce, ListedAreServed, ServedAreListed, HoldersAreTwins,
     NumbersAreGiven, NumbersAreUnique, Holds

-----------------------------------------------------------------------------
(* Steps *)

\* A step that leaves the list, the numbers and the twins alone, and takes
\* nobody in or out of the stages that count.
LEMMA AsideStep ==
  ASSUME ListInv, Typed', UNCHANGED <<list, nextNumber, twins, corrupt>>,
         \A k \in Conns : /\ thread'[k].id = thread[k].id
                          /\ \/ thread'[k].stage = thread[k].stage
                             \/ /\ thread[k].stage \notin {"chosen", "serving", "gone"}
                                /\ thread'[k].stage \notin {"chosen", "serving"}
  PROVE  ListInv'
<1>1. Listed' = Listed /\ Listed \subseteq Conns
  BY DEF Listed, ListInv, Typed
<1>2. \A k \in Conns : Holds(k)' = Holds(k)
  BY DEF Holds
<1>3. Exact => Exact'
  BY <1>1 DEF Exact, ListedOnce, ListedAreServed, ServedAreListed, Freed
<1>4. HoldersAreTwins' /\ NumbersAreGiven'
  BY <1>2 DEF ListInv, HoldersAreTwins, NumbersAreGiven
<1>5. NumbersAreUnique'
  BY DEF ListInv, NumbersAreUnique
<1> QED
  BY <1>3, <1>4, <1>5 DEF ListInv

\* Some number from next_client_number on is in nobody's hands: the list has
\* no more ids than there are connections.
LEMMA NumberIsFree ==
  ASSUME Typed
  PROVE  \E n \in nextNumber .. nextNumber + Cardinality(Conns) :
           ~ IdExists(n) /\ \A m \in nextNumber .. n - 1 : IdExists(m)
<1> DEFINE C == Cardinality(Conns)
           Numbers == nextNumber .. nextNumber + C
           Free == {n \in Numbers : ~ IdExists(n)}
<1>1. IsFiniteSet(Conns) /\ C \in Nat /\ nextNumber \in Nat
  BY ConnectionsAssumption, FS_CardinalityType DEF ConnectionsAssumption, Typed
<1>2. Listed \subseteq Conns
  BY DEF Listed, Typed
<1>3. Free # {}
  <2>1. SUFFICES ASSUME \A n \in Numbers : IdExists(n) PROVE FALSE
    OBVIOUS
  <2> DEFINE owner == [n \in Numbers |-> CHOOSE k \in Conns : thread[k].id = n]
  <2>2. \A n \in Numbers : owner[n] \in Conns /\ thread[owner[n]].id = n
    <3>1. \A n \in Numbers : \E k \in Conns : thread[k].id = n
      BY <1>2, <2>1 DEF IdExists
    <3> QED
      BY <3>1
  <2>3. IsFiniteSet(Numbers) /\ Cardinality(Numbers) = C + 1
    BY <1>1, FS_Interval
  <2>4. owner \in [Numbers -> Conns]
    BY <2>2
  <2>5. \E x, y \in Numbers : x # y /\ owner[x] = owner[y]
    <3> HIDE DEF owner, Numbers
    <3> QED
      BY <1>1, <2>3, <2>4, FS_PigeonHole
  <2> QED
    BY <2>2, <2>5
<1>4. PICK n \in Free : \A m \in Free : n <= m
  <2>1. Free \in SUBSET Nat
    BY <1>1
  <2> HIDE DEF Free
  <2> QED
    BY <1>3, <2>1, LeastNatural
<1>5. \A m \in nextNumber .. n - 1 : m \in Numbers /\ ~ (n <= m)
  BY <1>1
<1> QED
  BY <1>4, <1>5

\* An id that was asked for may be one another connection was told; a number
\* that was not is from next_client_number on, which none has that was given,
\* and behind next_client_number from then on.
LEMMA ToldStep ==
  ASSUME ListInv, NEW k \in Conns, thread[k].stage = "joining", UNCHANGED <<list, corrupt>>,
         NEW id \in Nat, NEW number \in Nat, Told(k, id, number),
         nextNumber <= number, id = Requested[k] \/ (nextNumber <= id /\ id < number)
  PROVE  ListInv'
<1>0. Typed /\ nextNumber \in Nat /\ nextNumber # 0
  BY DEF ListInv, Typed
<1>1. /\ thread' = [thread EXCEPT ![k].stage = "chosen", ![k].id = id]
      /\ twins' = IF Holders(id) = {} THEN twins ELSE twins \cup {id}
      /\ nextNumber' = number
  BY DEF Told
<1>2. /\ thread'[k].stage = "chosen" /\ thread'[k].id = id
      /\ \A j \in Conns \ {k} : thread'[j] = thread[j]
  BY <1>0, <1>1 DEF Typed
<1>3. Typed'
  <2>1. thread' \in [Conns -> [stage : Stages, id : Nat, out : Seq(Messages), remote : BOOLEAN]]
    <3>1. thread \in [Conns -> [stage : Stages, id : Nat, out : Seq(Messages), remote : BOOLEAN]]
      BY <1>0 DEF Typed
    <3>2. "chosen" \in Stages
      BY DEF Stages
    <3> QED
      BY <1>1, <3>1, <3>2
  <2>2. nextNumber' \in Nat \ {0} /\ twins' \in SUBSET Nat
    BY <1>0, <1>1 DEF Typed
  <2> QED
    BY <1>0, <2>1, <2>2 DEF Typed
<1>4. twins \subseteq twins' /\ (Holders(id) # {} => id \in twins')
  BY <1>1
<1>5. \A j \in Conns \ {k} : Holds(j) /\ thread[j].id = id => j \in Holders(id)
  BY DEF Holds, Holders
<1>6. Exact => Exact'
  <2> SUFFICES ASSUME Exact PROVE Exact'
    OBVIOUS
  <2>1. Listed' = Listed /\ Listed \subseteq Conns
    BY <1>0 DEF Listed, Typed
  <2>2. k \notin Listed
    BY DEF Exact, ListedAreServed, Freed
  <2>3. ListedOnce'
    BY DEF Exact, ListedOnce
  <2>4. ListedAreServed' /\ ServedAreListed'
    BY <1>2, <1>4, <2>1, <2>2 DEF Exact, ListedAreServed, ServedAreListed, Freed
  <2> QED
    BY <2>3, <2>4 DEF Exact
<1>7. HoldersAreTwins'
  <2> SUFFICES ASSUME NEW i \in Conns, NEW j \in Conns, i # j, Holds(i)', Holds(j)', thread'[i].id = thread'[j].id
               PROVE  thread'[j].id \in twins'
    BY DEF HoldersAreTwins
  <2>1. CASE i = k \/ j = k
    BY <2>1, <1>2, <1>4, <1>5 DEF Holds
  <2>2. CASE i # k /\ j # k
    BY <2>2, <1>2, <1>4 DEF Holds, ListInv, HoldersAreTwins
  <2> QED
    BY <2>1, <2>2
<1>8. NumbersAreGiven'
  <2> SUFFICES ASSUME NEW j \in Conns, Holds(j)'
               PROVE  thread'[j].id = Requested[j] \/ thread'[j].id < nextNumber'
    BY DEF NumbersAreGiven
  <2>1. CASE j = k
    BY <2>1, <1>1, <1>2
  <2>2. CASE j # k
    <3>1. thread[j].id = Requested[j] \/ thread[j].id < nextNumber
      BY <2>2, <1>2 DEF Holds, ListInv, NumbersAreGiven
    <3>2. thread[j].id \in Nat
      BY <1>0 DEF Typed
    <3>3. thread'[j].id = thread[j].id /\ nextNumber' = number
      BY <2>2, <1>1, <1>2
    <3> QED
      BY <3>1, <3>2, <3>3, <1>0
  <2> QED
    BY <2>1, <2>2
<1>9. NumbersAreUnique'
  <2> SUFFICES ASSUME Holders(id) # {}, id \notin twins, id # Requested[k]
               PROVE  \E j \in Conns : Requested[j] = id
    BY <1>1 DEF ListInv, NumbersAreUnique
  <2>1. PICK j \in Conns : Holds(j) /\ thread[j].id = id
    BY DEF Holders, Holds
  <2>2. ~ (id < nextNumber)
    BY <1>0
  <2> QED
    BY <2>1, <2>2 DEF ListInv, NumbersAreGiven
<1> QED
  BY <1>3, <1>6, <1>7, <1>8, <1>9 DEF ListInv

\* choose_client_id, whether the list it searches has a freed connection or not.
LEMMA ChooseIdStep ==
  ASSUME ListInv, NEW k \in Conns, ChooseId(k) \/ ChooseIdReadingFreed(k)
  PROVE  ListInv'
<1> DEFINE wanted == Requested[k]
           numbers == nextNumber .. nextNumber + Cardinality(Conns)
           free == CHOOSE n \in numbers : ~ IdExists(n) /\ \A m \in nextNumber .. n - 1 : IdExists(m)
<1>0. /\ Typed /\ wanted \in Nat /\ nextNumber \in Nat /\ Cardinality(Conns) \in Nat
  BY ConnectionsAssumption, FS_CardinalityType DEF ListInv, ConnectionsAssumption, Typed
<1>1. thread[k].stage = "joining" /\ UNCHANGED <<list, corrupt>>
  BY DEF ChooseId, ChooseIdReadingFreed, Choosing
<1>2. free \in numbers
  BY <1>0, NumberIsFree
<1>3. \A n \in numbers : n \in Nat /\ n + 1 \in Nat /\ nextNumber <= n /\ nextNumber <= n + 1 /\ n < n + 1
  BY <1>0
<1>4. \/ Told(k, wanted, nextNumber)
      \/ \E n \in numbers : Told(k, n, n + 1)
  <2>1. ASSUME ChooseId(k)
        PROVE  Told(k, wanted, nextNumber) \/ Told(k, free, free + 1)
    BY <2>1 DEF ChooseId
  <2> HIDE DEF free
  <2> QED
    BY <1>2, <2>1 DEF ChooseIdReadingFreed
<1> HIDE DEF free, numbers
<1>5. CASE Told(k, wanted, nextNumber)
  BY <1>0, <1>1, <1>5, ToldStep
<1>6. CASE \E n \in numbers : Told(k, n, n + 1)
  <2>1. PICK n \in numbers : Told(k, n, n + 1)
    BY <1>6
  <2> QED
    BY <1>0, <1>1, <1>3, <2>1, ToldStep
<1> QED
  BY <1>4, <1>5, <1>6

\* A connection is put before those in the list, once (register_client).
LEMMA RegisterStep ==
  ASSUME ListInv, NEW k \in Conns, Register(k)
  PROVE  ListInv'
<1>0. Typed /\ Typed'
  <2>1. PICK document \in Documents :
          thread' = [thread EXCEPT ![k].stage = "serving", ![k].out = <<"WELCOME", document>>]
    BY DEF Register
  <2>2. <<"WELCOME", document>> \in Seq(Messages)
    BY DEF Documents, Messages
  <2> HIDE DEF Messages
  <2>3. thread' \in [Conns -> [stage : Stages, id : Nat, out : Seq(Messages), remote : BOOLEAN]]
    BY <2>1, <2>2 DEF ListInv, Typed, Stages
  <2>4. list' \in Seq(Conns)
    BY DEF Register, ListInv, Typed
  <2> QED
    BY <2>3, <2>4 DEF Register, ListInv, Typed
<1>1. /\ thread[k].stage = "chosen"
      /\ list' = <<k>> \o list
      /\ nextNumber' = nextNumber /\ twins' = twins /\ corrupt' = corrupt
  BY DEF Register
<1>2. /\ thread'[k].stage = "serving" /\ thread'[k].id = thread[k].id
      /\ \A j \in Conns \ {k} : thread'[j] = thread[j]
  BY <1>0 DEF Register, Typed
<1>3. Exact => Exact'
  <2> SUFFICES ASSUME Exact PROVE Exact'
    OBVIOUS
  <2>1. Listed \subseteq Conns \ {k}
    <3>1. Listed \subseteq Conns
      BY <1>0 DEF Listed, Typed
    <3>2. k \notin Listed
      BY <1>1 DEF Exact, ListedAreServed, Freed
    <3> QED
      BY <3>1, <3>2
  <2>2. /\ DOMAIN list' = 1 .. Len(list) + 1 /\ DOMAIN list = 1 .. Len(list) /\ Len(list) \in Nat
        /\ \A i \in DOMAIN list' : list'[i] = IF i = 1 THEN k ELSE list[i - 1]
    BY <1>0, <1>1 DEF Typed
  <2>3. Listed' = Listed \cup {k}
    <3>1. \A i \in DOMAIN list' : list'[i] \in Listed \cup {k}
      BY <2>2 DEF Listed
    <3>2. \A i \in DOMAIN list : i + 1 \in DOMAIN list' /\ list'[i + 1] = list[i]
      BY <2>2
    <3>3. 1 \in DOMAIN list' /\ list'[1] = k
      BY <2>2
    <3>4. Listed' = {list'[i] : i \in DOMAIN list'}
      BY DEF Listed
    <3>5. \A i \in DOMAIN list : list[i] \in Listed'
      BY <3>2, <3>4
    <3>6. k \in Listed'
      BY <3>3, <3>4
    <3>7. \A j \in Listed : \E i \in DOMAIN list : j = list[i]
      BY DEF Listed
    <3>8. \A j \in Listed' : \E i \in DOMAIN list' : j = list'[i]
      BY <3>4
    <3> QED
      BY <3>1, <3>5, <3>6, <3>7, <3>8
  <2>4. ListedOnce'
    <3> SUFFICES ASSUME NEW i \in DOMAIN list', NEW j \in DOMAIN list', list'[i] = list'[j]
                 PROVE  i = j
      BY DEF ListedOnce
    <3>1. \A n \in DOMAIN list : list[n] # k
      BY <2>1 DEF Listed
    <3>2. CASE i = 1 \/ j = 1
      BY <3>1, <3>2, <2>2
    <3>3. CASE i # 1 /\ j # 1
      <4>1. i - 1 \in DOMAIN list /\ j - 1 \in DOMAIN list /\ list[i - 1] = list[j - 1]
        BY <3>3, <2>2
      <4>2. i - 1 = j - 1
        BY <4>1 DEF Exact, ListedOnce
      <4> QED
        BY <4>2, <2>2
    <3> QED
      BY <3>2, <3>3
  <2>5. ListedAreServed' /\ ServedAreListed'
    BY <1>1, <1>2, <2>1, <2>3 DEF Exact, ListedAreServed, ServedAreListed, Freed
  <2> QED
    BY <2>4, <2>5 DEF Exact
<1>4. \A j \in Conns : (Holds(j)' <=> Holds(j)) /\ thread'[j].id = thread[j].id
  BY <1>1, <1>2 DEF Holds
<1>5. HoldersAreTwins' /\ NumbersAreGiven'
  BY <1>1, <1>4 DEF ListInv, HoldersAreTwins, NumbersAreGiven
<1>6. NumbersAreUnique'
  BY <1>1 DEF ListInv, NumbersAreUnique
<1> QED
  BY <1>0, <1>1, <1>3, <1>5, <1>6 DEF ListInv

\* What is left of a sequence without its i-th element.
LEMMA RemoveAtFacts ==
  ASSUME NEW S, NEW s \in Seq(S), NEW i \in DOMAIN s
  PROVE  /\ RemoveAt(s, i) \in Seq(S)
         /\ Len(RemoveAt(s, i)) = Len(s) - 1
         /\ \A j \in 1 .. Len(s) - 1 : RemoveAt(s, i)[j] = IF j < i THEN s[j] ELSE s[j + 1]
<1>1. i \in 1 .. Len(s) /\ Len(s) \in Nat
  OBVIOUS
<1>2. /\ SubSeq(s, 1, i - 1) \in Seq(S) /\ Len(SubSeq(s, 1, i - 1)) = i - 1
      /\ \A j \in 1 .. i - 1 : SubSeq(s, 1, i - 1)[j] = s[j]
  BY <1>1
<1>3. /\ SubSeq(s, i + 1, Len(s)) \in Seq(S) /\ Len(SubSeq(s, i + 1, Len(s))) = Len(s) - i
      /\ \A j \in 1 .. Len(s) - i : SubSeq(s, i + 1, Len(s))[j] = s[i + j]
  BY <1>1
<1> DEFINE a == SubSeq(s, 1, i - 1)
           b == SubSeq(s, i + 1, Len(s))
<1>4. RemoveAt(s, i) = a \o b
  BY DEF RemoveAt
<1>5. a \in Seq(S) /\ b \in Seq(S) /\ Len(a) = i - 1 /\ Len(b) = Len(s) - i
  BY <1>2, <1>3
<1>6. ASSUME NEW j \in 1 .. Len(s) - 1
      PROVE  /\ j < i => a[j] = s[j]
             /\ j >= i => b[j - (i - 1)] = s[j + 1]
  <2>1. ASSUME j >= i PROVE b[j - (i - 1)] = s[j + 1]
    <3>1. j - (i - 1) \in 1 .. Len(s) - i /\ i + (j - (i - 1)) = j + 1
      BY <1>1, <2>1
    <3> QED
      BY <1>3, <3>1
  <2> QED
    BY <1>1, <1>2, <2>1
<1> HIDE DEF a, b
<1>7. /\ a \o b \in Seq(S)
      /\ Len(a \o b) = Len(s) - 1
      /\ \A j \in 1 .. Len(s) - 1 : (a \o b)[j] = IF j <= Len(a) THEN a[j] ELSE b[j - Len(a)]
  BY <1>1, <1>5
<1>8. ASSUME NEW j \in 1 .. Len(s) - 1
      PROVE  (a \o b)[j] = IF j < i THEN s[j] ELSE s[j + 1]
  <2>1. j <= Len(a) <=> j < i
    BY <1>1, <1>5
  <2>2. CASE j < i
    BY <2>1, <2>2, <1>6, <1>7
  <2>3. CASE ~ (j < i)
    <3>1. (a \o b)[j] = b[j - Len(a)]
      BY <2>1, <2>3, <1>7
    <3>2. j >= i
      BY <2>3, <1>1
    <3> QED
      BY <2>3, <3>1, <3>2, <1>5, <1>6
  <2> QED
    BY <2>2, <2>3
<1> QED
  BY <1>4, <1>7, <1>8

\* The first place in the list of an id that it has.
LEMMA FirstOfFound ==
  ASSUME Typed, NEW id, IdExists(id)
  PROVE  FirstOf(id) \in DOMAIN list /\ thread[list[FirstOf(id)]].id = id
<1> DEFINE S == {i \in DOMAIN list : thread[list[i]].id = id}
<1>1. S # {} /\ S \in SUBSET Nat
  BY DEF IdExists, Listed, Typed
<1>2. \E i \in S : \A j \in S : i <= j
  <2> HIDE DEF S
  <2> QED
    BY <1>1, LeastNatural
<1>3. \E i \in DOMAIN list :
        thread[list[i]].id = id /\ \A j \in DOMAIN list : thread[list[j]].id = id => i <= j
  BY <1>2
<1> QED
  BY <1>3 DEF FirstOf

\* Who leaves keeps its id, and holds it no more.
LEMMA LeavingFacts ==
  ASSUME ListInv, NEW k \in Conns, Leaving(k)
  PROVE  /\ thread[k].stage = "serving"
         /\ nextNumber' = nextNumber /\ twins' = twins
         /\ thread'[k].stage = "gone"
         /\ \A j \in Conns : thread'[j].id = thread[j].id
         /\ \A j \in Conns \ {k} : thread'[j] = thread[j]
         /\ thread' \in [Conns -> [stage : Stages, id : Nat, out : Seq(Messages), remote : BOOLEAN]]
         /\ HoldersAreTwins' /\ NumbersAreGiven' /\ NumbersAreUnique'
<1>1. /\ thread[k].stage = "serving" /\ nextNumber' = nextNumber /\ twins' = twins
      /\ thread' = [thread EXCEPT ![k].stage = "gone"]
  BY DEF Leaving
<1>2. thread' \in [Conns -> [stage : Stages, id : Nat, out : Seq(Messages), remote : BOOLEAN]]
  BY <1>1 DEF ListInv, Typed, Stages
<1>3. /\ \A j \in Conns \ {k} : thread'[j] = thread[j]
      /\ thread'[k].stage = "gone" /\ thread'[k].id = thread[k].id
  BY <1>1 DEF ListInv, Typed
<1>4. \A j \in Conns : thread'[j].id = thread[j].id /\ (Holds(j)' => Holds(j))
  BY <1>3 DEF Holds
<1>5. HoldersAreTwins'
  BY <1>1, <1>4 DEF ListInv, HoldersAreTwins
<1>6. NumbersAreGiven'
  BY <1>1, <1>4 DEF ListInv, NumbersAreGiven
<1>7. NumbersAreUnique'
  BY <1>1 DEF ListInv, NumbersAreUnique
<1> QED
  BY <1>1, <1>2, <1>3, <1>4, <1>5, <1>6, <1>7

\* The list that remains is a list, whichever connection went.
LEMMA TypedAfterLeaving ==
  ASSUME ListInv, NEW k \in Conns, Leave(k) \/ LeaveReadingFreed(k)
  PROVE  Typed'
<1>0. Typed /\ Leaving(k)
  BY DEF ListInv, Leave, LeaveReadingFreed
<1>1. \A i \in DOMAIN list : RemoveAt(list, i) \in Seq(Conns)
  BY <1>0, RemoveAtFacts DEF Typed
<1>2. list' = list \/ \E i \in DOMAIN list : list' = RemoveAt(list, i)
  BY <1>0, FirstOfFound DEF Leave, LeaveReadingFreed, Unregister
<1>3. list' \in Seq(Conns)
  BY <1>0, <1>1, <1>2 DEF Typed
<1>4. corrupt' \in BOOLEAN
  BY <1>0 DEF Leave, LeaveReadingFreed, Typed
<1> QED
  BY <1>0, <1>3, <1>4, LeavingFacts DEF Typed

\* Who leaves takes the first off the list that has its id: itself, unless two
\* have it (unregister_client).
LEMMA LeaveKeepsExact ==
  ASSUME ListInv, Exact, NEW k \in Conns, Leave(k)
  PROVE  Exact'
<1> DEFINE id == thread[k].id
<1>0. Typed /\ Leaving(k)
  BY DEF ListInv, Leave
<1>1. /\ thread[k].stage = "serving"
      /\ nextNumber' = nextNumber /\ twins' = twins
      /\ Unregister(k)
  BY <1>0, LeavingFacts DEF Leave
<1>2. /\ thread'[k].stage = "gone"
      /\ \A j \in Conns : thread'[j].id = thread[j].id
      /\ \A j \in Conns \ {k} : thread'[j] = thread[j]
  BY <1>0, LeavingFacts
<1>3. CASE ~ IdExists(id)
  <2>1. list' = list
    BY <1>1, <1>3 DEF Unregister
  <2>2. k \notin Listed /\ id \in twins /\ Listed' = Listed
    BY <1>1, <1>3, <2>1 DEF IdExists, Exact, ServedAreListed, Listed
  <2>3. Listed \subseteq Conns
    BY <1>0 DEF Listed, Typed
  <2>4. ListedAreServed' /\ ServedAreListed'
    BY <1>1, <1>2, <2>2, <2>3 DEF Exact, ListedAreServed, ServedAreListed, Freed
  <2>5. ListedOnce'
    BY <2>1 DEF Exact, ListedOnce
  <2> QED
    BY <2>4, <2>5 DEF Exact
<1>4. CASE IdExists(id)
  <2> DEFINE at == FirstOf(id)
  <2>1. at \in DOMAIN list /\ thread[list[at]].id = id
    BY <1>0, <1>4, FirstOfFound
  <2>2. list' = RemoveAt(list, at)
    BY <1>1, <1>4 DEF Unregister
  <2> DEFINE out == list[at]
  <2> HIDE DEF at
  <2>3. /\ list' \in Seq(Conns)
        /\ DOMAIN list = 1 .. Len(list) /\ Len(list) \in Nat /\ at \in 1 .. Len(list)
        /\ DOMAIN list' = 1 .. Len(list) - 1
        /\ \A j \in DOMAIN list' : list'[j] = IF j < at THEN list[j] ELSE list[j + 1]
    <3>1. list \in Seq(Conns)
      BY <1>0 DEF Typed
    <3>2. /\ list' \in Seq(Conns)
          /\ Len(list') = Len(list) - 1
          /\ \A j \in 1 .. Len(list) - 1 : list'[j] = IF j < at THEN list[j] ELSE list[j + 1]
      BY <3>1, <2>1, <2>2, RemoveAtFacts
    <3> QED
      BY <3>1, <3>2, <2>1
  <2>4. ListedOnce'
    <3> SUFFICES ASSUME NEW i \in DOMAIN list', NEW j \in DOMAIN list', list'[i] = list'[j]
                 PROVE  i = j
      BY DEF ListedOnce
    <3> DEFINE from(n) == IF n < at THEN n ELSE n + 1
    <3>1. from(i) \in DOMAIN list /\ from(j) \in DOMAIN list /\ list[from(i)] = list[from(j)]
      BY <2>3
    <3>2. from(i) = from(j)
      BY <3>1 DEF Exact, ListedOnce
    <3> QED
      BY <3>2, <2>3
  <2>5. Listed' = Listed \ {out} /\ Listed \subseteq Conns
    <3>1. ASSUME NEW j \in DOMAIN list'
          PROVE  list'[j] \in Listed \ {out}
      <4> DEFINE from == IF j < at THEN j ELSE j + 1
      <4>1. from \in DOMAIN list /\ from # at /\ list'[j] = list[from]
        BY <2>3
      <4>2. list[from] # out
        BY <4>1, <2>1 DEF Exact, ListedOnce
      <4> QED
        BY <4>1, <4>2 DEF Listed
    <3>2. ASSUME NEW i \in DOMAIN list, list[i] # out
          PROVE  \E j \in DOMAIN list' : list'[j] = list[i]
      <4> DEFINE to == IF i < at THEN i ELSE i - 1
      <4>1. i # at
        BY <3>2
      <4>2. to \in DOMAIN list' /\ list'[to] = list[i]
        BY <4>1, <2>3
      <4> QED
        BY <4>2
    <3>3. Listed' = {list'[j] : j \in DOMAIN list'}
      BY DEF Listed
    <3>4. Listed \subseteq Conns
      BY <1>0 DEF Listed, Typed
    <3>5. \A x \in Listed \ {out} : \E j \in DOMAIN list' : list'[j] = x
      BY <3>2 DEF Listed
    <3> QED
      BY <3>1, <3>3, <3>4, <3>5
  <2>6. id \notin twins => out = k
    <3>1. out \in Listed /\ out \in Conns
      BY <2>1, <2>5 DEF Listed
    <3>2. thread[out].stage = "serving" \/ (thread[out].stage = "gone" /\ id \in twins)
      BY <3>1, <2>1 DEF Exact, ListedAreServed, Freed
    <3> QED
      BY <1>1, <3>1, <3>2, <2>1 DEF ListInv, HoldersAreTwins, Holds
  <2>7. ListedAreServed'
    BY <1>1, <1>2, <2>5, <2>6 DEF Exact, ListedAreServed, Freed
  <2>8. ServedAreListed'
    <3> SUFFICES ASSUME NEW j \in Conns, thread'[j].stage = "serving", thread'[j].id \notin twins
                 PROVE  j \in Listed \ {out}
      BY <1>1, <2>5 DEF ServedAreListed
    <3>1. j # k /\ thread[j].stage = "serving" /\ thread[j].id \notin twins
      BY <1>2
    <3>2. j \in Listed
      BY <3>1 DEF Exact, ServedAreListed
    <3>3. j # out
      BY <3>1, <2>1, <2>6
    <3> QED
      BY <3>2, <3>3
  <2> QED
    BY <2>4, <2>7, <2>8 DEF Exact
<1> QED
  BY <1>3, <1>4

\* A connection leaves, by a sound search of the list or by one that reads a
\* freed entry, after which nothing is said of the list.
LEMMA LeaveStep ==
  ASSUME ListInv, NEW k \in Conns, Leave(k) \/ LeaveReadingFreed(k)
  PROVE  ListInv'
<1>1. Leaving(k)
  BY DEF Leave, LeaveReadingFreed
<1>2. HoldersAreTwins' /\ NumbersAreGiven' /\ NumbersAreUnique'
  BY <1>1, LeavingFacts
<1>3. ~ corrupt' => Exact'
  BY LeaveKeepsExact DEF ListInv, Leave, LeaveReadingFreed
<1> QED
  BY <1>2, <1>3, TypedAfterLeaving DEF ListInv

\* The other steps change no id, and neither the list nor the numbers.
LEMMA ListInvStep == ListInv /\ [Next]_vars => ListInv'
<1> SUFFICES ASSUME ListInv, [Next]_vars PROVE ListInv'
  OBVIOUS
<1>0. Typed
  BY DEF ListInv
<1>1. ASSUME UNCHANGED <<thread, list, nextNumber, twins, corrupt>>
      PROVE  ListInv'
  BY <1>0, <1>1, AsideStep DEF Typed
<1>2. CASE UNCHANGED vars
  BY <1>1, <1>2 DEF vars, server
<1>3. ASSUME NEW k \in Conns, Ask(k) \/ Push(k) \/ Read(k) \/ Close(k)
      PROVE  ListInv'
  BY <1>1, <1>3 DEF Ask, Push, Read, Close, server
<1>4. ASSUME NEW k \in Conns, StartBroadcast(k) \/ BroadcastNext(k) \/ BroadcastToFreed(k)
      PROVE  ListInv'
  BY <1>1, <1>4 DEF StartBroadcast, BroadcastNext, BroadcastToFreed
<1>5. ASSUME NEW k \in Conns, Connect(k) \/ First(k) \/ Reject(k)
      PROVE  ListInv'
  <2>1. UNCHANGED <<list, nextNumber, twins, corrupt>>
    BY <1>5 DEF Connect, First, Reject
  <2>2. PICK stage \in {"accepted", "joining", "rejected", "gone"}, out \in {thread[k].out, <<"ERROR">>} :
          thread' = [thread EXCEPT ![k].stage = stage, ![k].out = out]
    <3> DEFINE Turns(stage, out) == thread' = [thread EXCEPT ![k].stage = stage, ![k].out = out]
    <3>1. ASSUME NEW stage, thread' = [thread EXCEPT ![k].stage = stage]
          PROVE  Turns(stage, thread[k].out)
      BY <1>0, <3>1 DEF Typed
    <3>2. ASSUME Connect(k) PROVE Turns("accepted", thread[k].out)
      BY <3>1, <3>2 DEF Connect
    <3>3. ASSUME Reject(k) PROVE Turns("gone", thread[k].out)
      BY <3>1, <3>3 DEF Reject
    <3>4. ASSUME First(k) PROVE Turns("joining", thread[k].out) \/ Turns("rejected", <<"ERROR">>)
      BY <3>1, <3>4 DEF First
    <3> QED
      BY <1>5, <3>2, <3>3, <3>4
  <2>3. thread[k].stage \in {"none", "accepted", "rejected"}
    BY <1>5 DEF Connect, First, Reject
  <2>4. <<"ERROR">> \in Seq(Messages)
    BY DEF Messages
  <2>5. Typed'
    <3>1. out \in Seq(Messages) /\ stage \in Stages
      BY <1>0, <2>4 DEF Typed, Stages
    <3>2. thread' \in [Conns -> [stage : Stages, id : Nat, out : Seq(Messages), remote : BOOLEAN]]
      BY <1>0, <2>2, <3>1 DEF Typed
    <3> QED
      BY <1>0, <2>1, <3>2 DEF Typed
  <2>6. \A j \in Conns : /\ thread'[j].id = thread[j].id
                         /\ j # k => thread'[j].stage = thread[j].stage
    BY <1>0, <2>2 DEF Typed
  <2>7. thread'[k].stage \notin {"chosen", "serving"}
    BY <1>0, <2>2 DEF Typed
  <2> QED
    BY <2>1, <2>3, <2>5, <2>6, <2>7, AsideStep
<1>6. ASSUME NEW k \in Conns, Receive(k) \/ Answer(k) \/ EndBroadcast(k)
      PROVE  ListInv'
  <2>1. UNCHANGED <<list, nextNumber, twins, corrupt>>
    BY <1>6 DEF Receive, Answer, EndBroadcast
  <2>2. Typed' /\ \A j \in Conns : thread'[j].id = thread[j].id /\ thread'[j].stage = thread[j].stage
    <3> DEFINE Sends(out, remote) == thread' = [thread EXCEPT ![k].out = out, ![k].remote = remote]
    <3>1. thread[k].out \in Seq(Messages) /\ thread[k].remote \in BOOLEAN
      BY <1>0 DEF Typed
    <3>2. ASSUME Receive(k)
          PROVE  \E out \in Seq(Messages), remote \in BOOLEAN : Sends(out, remote)
      <4>1. /\ <<"ACK">> \in Seq(Messages) /\ <<"SAVE_QUEUED">> \in Seq(Messages)
            /\ \A document \in Documents : <<"RESYNC_REQUIRED", document>> \in Seq(Messages)
        BY DEF Messages, Documents
      <4>2. ASSUME NEW out, thread' = [thread EXCEPT ![k].out = out]
            PROVE  Sends(out, thread[k].remote)
        BY <1>0, <4>2 DEF Typed
      <4>3. CASE Sends(<<"ACK">>, TRUE)
        BY <4>1, <4>3
      <4>4. CASE \E document \in Documents :
                   thread' = [thread EXCEPT ![k].out = <<"RESYNC_REQUIRED", document>>]
        <5>1. PICK document \in Documents : Sends(<<"RESYNC_REQUIRED", document>>, thread[k].remote)
          BY <4>2, <4>4
        <5> QED
          BY <3>1, <4>1, <5>1
      <4>5. CASE thread' = [thread EXCEPT ![k].out = <<"SAVE_QUEUED">>]
        <5>1. Sends(<<"SAVE_QUEUED">>, thread[k].remote)
          BY <4>2, <4>5
        <5> QED
          BY <3>1, <4>1, <5>1
      <4> QED
        BY <3>2, <4>3, <4>4, <4>5 DEF Receive
    <3>3. ASSUME Answer(k)
          PROVE  \E out \in Seq(Messages), remote \in BOOLEAN : Sends(out, remote)
      <4>1. Tail(thread[k].out) \in Seq(Messages)
        BY <3>1, <3>3 DEF Answer
      <4>2. Sends(Tail(thread[k].out), thread[k].remote)
        BY <1>0, <3>3 DEF Answer, Typed
      <4> QED
        BY <3>1, <4>1, <4>2
    <3>4. ASSUME EndBroadcast(k)
          PROVE  \E out \in Seq(Messages), remote \in BOOLEAN : Sends(out, remote)
      <4>1. Sends(thread[k].out, FALSE)
        BY <1>0, <3>4 DEF EndBroadcast, Typed
      <4> QED
        BY <3>1, <4>1
    <3>5. PICK out \in Seq(Messages), remote \in BOOLEAN : Sends(out, remote)
      BY <1>6, <3>2, <3>3, <3>4
    <3>6. /\ thread' \in [Conns -> [stage : Stages, id : Nat, out : Seq(Messages), remote : BOOLEAN]]
          /\ \A j \in Conns : thread'[j].id = thread[j].id /\ thread'[j].stage = thread[j].stage
      BY <1>0, <3>5 DEF Typed
    <3> QED
      BY <1>0, <2>1, <3>6 DEF Typed
  <2> QED
    BY <2>1, <2>2, AsideStep
<1> QED
  BY <1>2, <1>3, <1>4, <1>5, <1>6, ChooseIdStep, RegisterStep, LeaveStep DEF Next, ServerStep

-----------------------------------------------------------------------------

\* The list has exactly who is registered, each once, as long as no two ever
\* had the same id (register_client, unregister_client), for any number of
\* connections.
THEOREM ListCorrect == Spec => []ListIsExact
<1>1. ListInv => ListIsExact
  BY ListInvImplies
<1> QED
  BY <1>1, ListInvInit, ListInvStep, PTL DEF Spec

\* Two connections share an id only if one of their clients asked for it
\* (choose_client_id), for any number of connections.
THEOREM NumbersCorrect == Spec => []NumbersAreUnique
<1>1. ListInv => NumbersAreUnique
  BY ListInvImplies
<1> QED
  BY <1>1, ListInvInit, ListInvStep, PTL DEF Spec

-----------------------------------------------------------------------------
(* The sockets *)

ToServer == {"JOIN", "REQUEST"}

\* No socket holds more than it can, and a client sends a message at a time.
Sockets ==
  /\ broadcast \in [by : Conns \cup {NoConn}, to : Seq(Conns)]
  /\ alive \in BOOLEAN
  /\ toServer \in [Conns -> Seq(ToServer)]
  /\ toClient \in [Conns -> Seq(Messages)]
  /\ \A k \in Conns : Len(toServer[k]) <= Capacity /\ Len(toClient[k]) <= Capacity
  /\ sending \in [Conns -> Seq(ToServer)]
  /\ \A k \in Conns : Len(sending[k]) <= 1
  /\ asked \in [Conns -> Nat]
  /\ \A k \in Conns : asked[k] <= Requests[k]
  /\ reading \subseteq open /\ open \subseteq Conns

\* A function whose values all have a property has it still when one of them
\* is changed for another that has.
LEMMA Changed ==
  ASSUME NEW S, NEW f \in [Conns -> S], NEW g, NEW k \in Conns, NEW x \in S, g = [f EXCEPT ![k] = x]
  PROVE  /\ g \in [Conns -> S] /\ g[k] = x
         /\ \A j \in Conns : j # k => g[j] = f[j]
OBVIOUS

\* A write that waits for room, or that nobody reads (ts_transport_send), does
\* not overfill the socket.
LEMMA SentTo ==
  ASSUME Sockets, NEW k \in Conns, NEW type \in Messages, CanSend(k), Deliver(k, type)
  PROVE  toClient' \in [Conns -> Seq(Messages)] /\ \A j \in Conns : Len(toClient'[j]) <= Capacity
<1>1. /\ toClient \in [Conns -> Seq(Messages)] /\ \A j \in Conns : Len(toClient[j]) <= Capacity
      /\ Capacity \in Nat
  BY ConnectionsAssumption DEF Sockets
<1>2. CASE k \in open
  <2> DEFINE q == Append(toClient[k], type)
  <2>1. Len(toClient[k]) < Capacity /\ toClient[k] \in Seq(Messages)
    BY <1>1, <1>2 DEF CanSend
  <2>2. q \in Seq(Messages) /\ Len(q) <= Capacity
    <3>1. q \in Seq(Messages) /\ Len(q) = Len(toClient[k]) + 1 /\ Len(toClient[k]) \in Nat
      BY <2>1, AppendProperties
    <3> QED
      BY <1>1, <2>1, <3>1
  <2>3. toClient' = [toClient EXCEPT ![k] = q]
    BY <1>2 DEF Deliver
  <2> HIDE DEF q
  <2> QED
    BY <1>1, <2>2, <2>3, Changed
<1>3. CASE k \notin open
  BY <1>1, <1>3 DEF Deliver
<1> QED
  BY <1>2, <1>3

\* What is taken off a sequence leaves it shorter.
LEMMA TakenOff ==
  ASSUME NEW S, NEW q \in Seq(S), q # <<>>
  PROVE  /\ Tail(q) \in Seq(S) /\ Len(Tail(q)) = Len(q) - 1 /\ Len(q) \in Nat /\ Head(q) \in S
BY HeadTailProperties

\* The clients: their UI and reader threads (client.c).
LEMMA ClientSockets ==
  ASSUME Sockets, NEW k \in Conns, Connect(k) \/ Ask(k) \/ Push(k) \/ Read(k) \/ Close(k)
  PROVE  Sockets'
<1> DEFINE Same == UNCHANGED <<broadcast, alive>>
<1>0. Capacity \in Nat /\ Requests \in [Conns -> Nat]
  BY ConnectionsAssumption
<1>1. Same
  BY DEF Connect, Ask, Push, Read, Close, server
<1>2. ASSUME NEW first \in ToServer
      PROVE  <<first>> \in Seq(ToServer) /\ Len(<<first>>) <= 1
  OBVIOUS
<1>3. <<>> \in Seq(ToServer) /\ Len(<<>>) <= 1 /\ <<>> \in Seq(Messages) /\ Len(<<>>) <= Capacity
  BY <1>0, EmptySeq
<1>4. CASE Connect(k)
  <2>1. PICK first \in ToServer : sending' = [sending EXCEPT ![k] = <<first>>]
    BY <1>4 DEF Connect, ToServer
  <2>2. sending' \in [Conns -> Seq(ToServer)] /\ \A j \in Conns : Len(sending'[j]) <= 1
    BY <1>2, <2>1, Changed DEF Sockets
  <2> QED
    BY <1>1, <1>4, <2>2 DEF Connect, Sockets
<1>5. CASE Ask(k)
  <2>1. sending' = [sending EXCEPT ![k] = <<"REQUEST">>] /\ "REQUEST" \in ToServer
    BY <1>5 DEF Ask, ToServer
  <2>2. sending' \in [Conns -> Seq(ToServer)] /\ \A j \in Conns : Len(sending'[j]) <= 1
    BY <1>2, <2>1, Changed DEF Sockets
  <2>3. asked' \in [Conns -> Nat] /\ \A j \in Conns : asked'[j] <= Requests[j]
    <3>1. asked \in [Conns -> Nat] /\ \A j \in Conns : asked[j] <= Requests[j]
      BY DEF Sockets
    <3>2. asked[k] + 1 \in Nat /\ asked[k] + 1 <= Requests[k] /\ asked' = [asked EXCEPT ![k] = asked[k] + 1]
      BY <1>0, <1>5, <3>1 DEF Ask
    <3> QED
      BY <3>1, <3>2, Changed
  <2> QED
    BY <1>1, <1>5, <2>2, <2>3 DEF Ask, Sockets
<1>6. CASE Push(k)
  <2>1. sending' \in [Conns -> Seq(ToServer)] /\ \A j \in Conns : Len(sending'[j]) <= 1
    <3>1. sending' = [sending EXCEPT ![k] = <<>>]
      BY <1>6 DEF Push
    <3> QED
      BY <1>3, <3>1, Changed DEF Sockets
  <2>2. toServer' \in [Conns -> Seq(ToServer)] /\ \A j \in Conns : Len(toServer'[j]) <= Capacity
    <3> DEFINE q == toServer[k] \o sending[k]
    <3>1. CASE UNCHANGED toServer
      BY <3>1 DEF Sockets
    <3>2. CASE Len(toServer[k]) < Capacity /\ toServer' = [toServer EXCEPT ![k] = q]
      <4>1. /\ toServer[k] \in Seq(ToServer) /\ sending[k] \in Seq(ToServer) /\ Len(sending[k]) <= 1
            /\ toServer \in [Conns -> Seq(ToServer)] /\ \A j \in Conns : Len(toServer[j]) <= Capacity
        BY DEF Sockets
      <4>2. q \in Seq(ToServer) /\ Len(q) = Len(toServer[k]) + Len(sending[k])
        BY <4>1, ConcatProperties
      <4> HIDE DEF q
      <4>3. Len(q) <= Capacity
        <5>1. Len(toServer[k]) \in Nat /\ Len(sending[k]) \in Nat
          BY <4>1
        <5> QED
          BY <1>0, <3>2, <4>1, <4>2, <5>1
      <4> QED
        BY <3>2, <4>1, <4>2, <4>3, Changed
    <3> QED
      BY <1>6, <3>1, <3>2 DEF Push
  <2> QED
    BY <1>1, <1>6, <2>1, <2>2 DEF Push, Sockets
<1>7. CASE Read(k)
  <2> DEFINE q == Tail(toClient[k])
  <2>1. /\ toClient \in [Conns -> Seq(Messages)] /\ \A j \in Conns : Len(toClient[j]) <= Capacity
        /\ toClient[k] # <<>> /\ toClient' = [toClient EXCEPT ![k] = q]
    BY <1>7 DEF Read, Sockets
  <2>2. q \in Seq(Messages) /\ Len(q) <= Capacity
    <3>1. q \in Seq(Messages) /\ Len(q) = Len(toClient[k]) - 1 /\ Len(toClient[k]) \in Nat
      BY <2>1, TakenOff
    <3>2. Len(toClient[k]) <= Capacity
      BY <2>1
    <3> QED
      BY <1>0, <3>1, <3>2
  <2> HIDE DEF q
  <2>3. toClient' \in [Conns -> Seq(Messages)] /\ \A j \in Conns : Len(toClient'[j]) <= Capacity
    BY <2>1, <2>2, Changed
  <2> QED
    BY <1>1, <1>7, <2>3 DEF Read, Sockets
<1>8. CASE Close(k)
  <2>1. sending' \in [Conns -> Seq(ToServer)] /\ \A j \in Conns : Len(sending'[j]) <= 1
    <3>1. sending' = [sending EXCEPT ![k] = <<>>]
      BY <1>8 DEF Close
    <3> QED
      BY <1>3, <3>1, Changed DEF Sockets
  <2>2. toClient' \in [Conns -> Seq(Messages)] /\ \A j \in Conns : Len(toClient'[j]) <= Capacity
    <3>1. toClient' = [toClient EXCEPT ![k] = <<>>]
      BY <1>8 DEF Close
    <3> QED
      BY <1>3, <3>1, Changed DEF Sockets
  <2> QED
    BY <1>1, <1>8, <2>1, <2>2 DEF Close, Sockets, server
<1> QED
  BY <1>4, <1>5, <1>6, <1>7, <1>8

\* The server's threads: what they read, and what they write when there is
\* room (dispatch_message, broadcast_message).
LEMMA ServerSockets ==
  ASSUME Sockets, Typed, NEW k \in Conns, ServerStep(k)
  PROVE  Sockets'
<1>1. UNCHANGED <<sending, asked, open, reading>>
  BY DEF ServerStep, First, ChooseId, ChooseIdReadingFreed, Choosing, Register, Receive, Answer, StartBroadcast, BroadcastNext,
         BroadcastToFreed, EndBroadcast, Leave, LeaveReadingFreed, Leaving, Reject, clients
<1>2. CASE First(k) \/ Receive(k)
  <2>1. UNCHANGED <<broadcast, alive, toClient>>
    BY <1>2 DEF First, Receive
  <2>2. toServer \in [Conns -> Seq(ToServer)] /\ \A j \in Conns : Len(toServer[j]) <= Capacity
    BY DEF Sockets
  <2>3. \/ toServer' = toServer
        \/ toServer[k] # <<>> /\ toServer' = [toServer EXCEPT ![k] = Tail(toServer[k])]
    BY <1>2, <2>2 DEF First, Receive
  <2>4. toServer' \in [Conns -> Seq(ToServer)] /\ \A j \in Conns : Len(toServer'[j]) <= Capacity
    <3> DEFINE q == Tail(toServer[k])
    <3>1. ASSUME toServer[k] # <<>>
          PROVE  q \in Seq(ToServer) /\ Len(q) <= Capacity
      <4>1. q \in Seq(ToServer) /\ Len(q) = Len(toServer[k]) - 1 /\ Len(toServer[k]) \in Nat
        BY <2>2, <3>1, TakenOff
      <4>2. Len(toServer[k]) <= Capacity /\ Capacity \in Nat
        BY <2>2, ConnectionsAssumption
      <4> QED
        BY <4>1, <4>2
    <3>2. toServer' = toServer \/ (toServer[k] # <<>> /\ toServer' = [toServer EXCEPT ![k] = q])
      BY <2>3
    <3> HIDE DEF q
    <3>3. CASE toServer[k] # <<>> /\ toServer' = [toServer EXCEPT ![k] = q]
      BY <2>2, <3>1, <3>3, Changed
    <3> QED
      BY <2>2, <3>2, <3>3
  <2> QED
    BY <1>1, <2>1, <2>4 DEF Sockets
<1>3. CASE \/ ChooseId(k) \/ ChooseIdReadingFreed(k) \/ Register(k)
           \/ Leave(k) \/ LeaveReadingFreed(k) \/ Reject(k)
  <2>1. UNCHANGED <<broadcast, toServer, toClient>> /\ (UNCHANGED alive \/ alive' \in BOOLEAN)
    BY <1>3 DEF ChooseId, ChooseIdReadingFreed, Choosing, Register, Leave, LeaveReadingFreed, Leaving, Reject
  <2> QED
    BY <1>1, <2>1 DEF Sockets
<1>4. CASE Answer(k)
  <2>1. Head(thread[k].out) \in Messages
    <3>1. thread[k].out \in Seq(Messages) /\ thread[k].out # <<>>
      BY <1>4 DEF Answer, Typed
    <3> QED
      BY <3>1, TakenOff
  <2>2. toClient' \in [Conns -> Seq(Messages)] /\ \A j \in Conns : Len(toClient'[j]) <= Capacity
    BY <1>4, <2>1, SentTo DEF Answer
  <2> QED
    BY <1>1, <1>4, <2>2 DEF Answer, Sockets
<1>5. CASE StartBroadcast(k)
  <2>1. broadcast' = [by |-> k, to |-> list] /\ list \in Seq(Conns) /\ UNCHANGED <<alive, toServer, toClient>>
    BY <1>5 DEF StartBroadcast, Typed
  <2> QED
    BY <1>1, <2>1 DEF Sockets
<1>6. CASE BroadcastNext(k) \/ BroadcastToFreed(k)
  <2> DEFINE next == Head(broadcast.to)
             q == Tail(broadcast.to)
  <2>1. /\ broadcast \in [by : Conns \cup {NoConn}, to : Seq(Conns)]
        /\ broadcast.to \in Seq(Conns) /\ broadcast.to # <<>>
    BY <1>6 DEF BroadcastNext, BroadcastToFreed, Sockets
  <2>2. next \in Conns /\ q \in Seq(Conns)
    BY <2>1, TakenOff
  <2>3. broadcast' = [broadcast EXCEPT !.to = q]
    BY <1>6 DEF BroadcastNext, BroadcastToFreed
  <2>4. alive' \in BOOLEAN /\ toServer' = toServer
    BY <1>6 DEF BroadcastNext, BroadcastToFreed, Sockets
  <2>5. \/ UNCHANGED toClient
        \/ CanSend(next) /\ Deliver(next, "REMOTE_OP")
    BY <1>6 DEF BroadcastNext, BroadcastToFreed
  <2> HIDE DEF next, q
  <2>6. broadcast' \in [by : Conns \cup {NoConn}, to : Seq(Conns)]
    BY <2>1, <2>2, <2>3
  <2>7. toClient' \in [Conns -> Seq(Messages)] /\ \A j \in Conns : Len(toClient'[j]) <= Capacity
    <3>1. "REMOTE_OP" \in Messages
      BY DEF Messages
    <3>2. CASE UNCHANGED toClient
      BY <3>2 DEF Sockets
    <3> QED
      BY <2>2, <2>5, <3>1, <3>2, SentTo
  <2> QED
    BY <1>1, <2>4, <2>6, <2>7 DEF Sockets
<1>7. CASE EndBroadcast(k)
  <2>1. broadcast' = [broadcast EXCEPT !.by = NoConn] /\ UNCHANGED <<alive, toServer, toClient>>
    BY <1>7 DEF EndBroadcast
  <2>2. broadcast' \in [by : Conns \cup {NoConn}, to : Seq(Conns)]
    BY <2>1 DEF Sockets
  <2> QED
    BY <1>1, <2>1, <2>2 DEF Sockets
<1> QED
  BY <1>2, <1>3, <1>4, <1>5, <1>6, <1>7 DEF ServerStep

\* Every step of a client or of the server's threads leaves the sockets within
\* their capacity.
LEMMA SocketsStep ==
  ASSUME Sockets, Typed, [Next]_vars
  PROVE  Sockets'
<1>1. CASE UNCHANGED vars
  BY <1>1 DEF vars, server, clients, Sockets
<1>2. CASE Next
  BY <1>2, ClientSockets, ServerSockets DEF Next
<1> QED
  BY <1>1, <1>2

\* For any number of connections and any capacity: a socket never holds more
\* than it can, a user asks for no more than Requests allows, and what is left
\* to send to goes through connections only (ts_transport_send,
\* broadcast_message).
THEOREM ConnectionsTypeCorrect == Spec => []TypeOK
<1>1. Init => Sockets
  <2> SUFFICES ASSUME Init PROVE Sockets
    OBVIOUS
  <2>1. /\ <<>> \in Seq(Conns) /\ <<>> \in Seq(ToServer) /\ <<>> \in Seq(Messages) /\ Len(<<>>) = 0
        /\ Capacity \in Nat /\ Requests \in [Conns -> Nat]
    BY EmptySeq, ConnectionsAssumption
  <2>2. broadcast \in [by : Conns \cup {NoConn}, to : Seq(Conns)] /\ alive \in BOOLEAN
    BY <2>1 DEF Init
  <2>3. /\ toServer = [k \in Conns |-> <<>>] /\ toClient = [k \in Conns |-> <<>>]
        /\ sending = [k \in Conns |-> <<>>] /\ asked = [k \in Conns |-> 0]
        /\ open = {} /\ reading = {}
    BY DEF Init
  <2> QED
    BY <2>1, <2>2, <2>3 DEF Sockets
<1>2. ListInv => Typed
  BY DEF ListInv
<1>3. Sockets /\ ListInv /\ [Next]_vars => Sockets'
  BY <1>2, SocketsStep
<1>4. Sockets /\ ListInv => TypeOK
  BY <1>2, ConnectionsAssumption DEF Sockets, Typed, TypeOK, ToServer
<1> QED
  BY <1>1, <1>3, <1>4, ListInvInit, ListInvStep, PTL DEF Spec
===============================================================================
