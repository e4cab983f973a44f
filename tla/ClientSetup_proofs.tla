------------------------- MODULE ClientSetup_proofs -------------------------
(***************************************************************************)
(* The clients of a DORA run, for every set of settings, number of MAC     *)
(* addresses and of VLAN IDs, and limit of tries: the type invariant and   *)
(* the four safety properties of ClientSetup, from one inductive           *)
(* invariant.                                                              *)
(***************************************************************************)
EXTENDS ClientSetup, FiniteSetTheorems, SequenceTheorems, WellFoundedInduction, TLAPS

USE ClientSetupAssumption

-----------------------------------------------------------------------------
(* Arithmetic.                                                             *)

\* A set of natural numbers has a least element.
LEMMA LeastElement ==
  ASSUME NEW S \in SUBSET Nat, S # {}
  PROVE  \E x \in S : \A y \in S : x <= y
<1> DEFINE R == OpToRel(<, Nat)
<1>1. IsWellFoundedOn(R, Nat)
  BY NatLessThanWellFounded
<1>2. PICK x \in S : \A y \in S : ~(<<y, x>> \in R)
  <2> HIDE DEF R
  <2> QED BY <1>1, WFMin
<1>3. \A y \in S : y < x => <<y, x>> \in R
  BY DEF OpToRel
<1>4. \A y \in S : ~(y < x)
  BY <1>2, <1>3
<1> QED BY <1>4

LEMMA Multiples ==
  ASSUME NEW a \in Int, NEW b \in Int, NEW s \in Nat
  PROVE  /\ (a + b) * s = a * s + b * s
         /\ a >= 0 => a * s \in Nat
         /\ a <= b => a * s <= b * s
         /\ a < b /\ s > 0 => a * s < b * s
OBVIOUS

LEMMA MultiplesGrow ==
  ASSUME NEW a \in Nat, NEW s \in Nat, s > 0
  PROVE  a <= a * s /\ a * s \in Nat
OBVIOUS

LEMMA Division ==
  ASSUME NEW n \in Nat \ {0}, NEW a \in 0..(n * n - 1)
  PROVE  /\ a \div n \in 0..(n - 1)
         /\ a % n \in 0..(n - 1)
         /\ (a \div n) * n + (a % n) = a
OBVIOUS

LEMMA Digits ==
  ASSUME NEW n \in Nat \ {0}, NEW a \in 0..(n - 1), NEW b \in 0..(n - 1)
  PROVE  /\ (a * n + b) \div n = a
         /\ (a * n + b) % n = b
         /\ a * n + b \in 0..(n * n - 1)
OBVIOUS

LEMMA AddressesAreNumbers ==
  MAC \subseteq Nat /\ VLAN \subseteq Nat
BY DEF MAC, VLAN, ClientSetupAssumption

LEMMA SetupFields ==
  ASSUME setup \in Setup
  PROVE  /\ setup.StartMAC \in Nat /\ setup.MacStep \in Nat
         /\ setup.StartVLANs \in VLANs /\ setup.VLANStep \in Nat
         /\ setup.NumOfClients \in Nat
<1>1. setup.StartMAC \in MAC
  BY DEF Setup
<1> QED BY <1>1, AddressesAreNumbers DEF Setup

-----------------------------------------------------------------------------
(* Lists of VLAN IDs as numbers.                                           *)

\* How many lists of a length there are.
Room(len) == CASE len = 0 -> 1
               [] len = 1 -> VLANSize
               [] OTHER   -> VLANSize * VLANSize

LEMMA RoomType ==
  ASSUME NEW len \in 0..2
  PROVE  Room(len) \in Nat /\ Room(len) <= VLANSize * VLANSize
<1>1. VLANSize * VLANSize \in Nat /\ VLANSize <= VLANSize * VLANSize /\ 1 <= VLANSize
  BY MultiplesGrow DEF ClientSetupAssumption
<1> QED BY <1>1 DEF Room

LEMMA VLANCases ==
  ASSUME NEW ids \in VLANs
  PROVE  \/ ids = <<>>
         \/ \E a \in VLAN : ids = <<a>>
         \/ \E a, b \in VLAN : ids = <<a, b>>
BY DEF VLANs

\* A list stands for a number below Room, and for that number alone.
LEMMA ValueOfIDs ==
  ASSUME NEW ids \in VLANs
  PROVE  /\ ids \in Seq(VLAN) /\ Len(ids) \in 0..2
         /\ Len(ids) = 0 <=> ids = <<>>
         /\ Value(ids) \in 0..(Room(Len(ids)) - 1)
         /\ IDs(Value(ids), Len(ids)) = ids
<1>1. CASE ids = <<>>
  BY <1>1 DEF Value, IDs, Room
<1>2. ASSUME NEW a \in VLAN, ids = <<a>>
      PROVE  /\ ids \in Seq(VLAN) /\ Len(ids) = 1 /\ ids # <<>>
             /\ Value(ids) = a /\ IDs(a, 1) = ids
             /\ a \in 0..(Room(1) - 1)
  BY <1>2 DEF Value, IDs, Room, VLAN, ClientSetupAssumption
<1>3. ASSUME NEW a \in VLAN, NEW b \in VLAN, ids = <<a, b>>
      PROVE  /\ ids \in Seq(VLAN) /\ Len(ids) = 2 /\ ids # <<>>
             /\ Value(ids) = a * VLANSize + b /\ IDs(a * VLANSize + b, 2) = ids
             /\ a * VLANSize + b \in 0..(Room(2) - 1)
  <2>1. a \in 0..(VLANSize - 1) /\ b \in 0..(VLANSize - 1) /\ VLANSize \in Nat \ {0}
    BY DEF VLAN, ClientSetupAssumption
  <2>2. /\ (a * VLANSize + b) \div VLANSize = a
        /\ (a * VLANSize + b) % VLANSize = b
        /\ a * VLANSize + b \in 0..(VLANSize * VLANSize - 1)
    BY <2>1, Digits
  <2>3. ids \in Seq(VLAN) /\ Len(ids) = 2 /\ ids[1] = a /\ ids[2] = b /\ ids # <<>>
    BY <1>3
  <2>4. Value(ids) = a * VLANSize + b
    BY <2>3 DEF Value
  <2>5. IDs(a * VLANSize + b, 2) = ids
    BY <2>2, <1>3 DEF IDs
  <2> QED BY <2>2, <2>3, <2>4, <2>5 DEF Room
<1>4. CASE \E a \in VLAN : ids = <<a>>
  BY <1>2, <1>4
<1>5. CASE \E a, b \in VLAN : ids = <<a, b>>
  BY <1>3, <1>5
<1> QED BY <1>1, <1>4, <1>5, VLANCases

\* A number below Room is that of a list.
LEMMA IDsOfValue ==
  ASSUME NEW len \in 0..2, NEW x \in 0..(Room(len) - 1)
  PROVE  IDs(x, len) \in VLANs /\ Len(IDs(x, len)) = len /\ Value(IDs(x, len)) = x
<1>1. CASE len = 0
  BY <1>1 DEF IDs, Room, Value, VLANs
<1>2. CASE len = 1
  BY <1>2 DEF IDs, Room, Value, VLANs, VLAN
<1>3. CASE len = 2
  <2>1. /\ x \div VLANSize \in VLAN
        /\ x % VLANSize \in VLAN
        /\ (x \div VLANSize) * VLANSize + (x % VLANSize) = x
    BY <1>3, Division DEF Room, VLAN, ClientSetupAssumption
  <2>2. IDs(x, len) = <<x \div VLANSize, x % VLANSize>>
    BY <1>3 DEF IDs
  <2> DEFINE q == x \div VLANSize
             r == x % VLANSize
  <2> HIDE DEF q, r
  <2>3. Len(<<q, r>>) = 2 /\ Value(<<q, r>>) = q * VLANSize + r
    BY DEF Value
  <2>4. <<q, r>> \in VLANs
    BY <2>1 DEF VLANs, q, r
  <2> QED BY <1>3, <2>1, <2>2, <2>3, <2>4 DEF q, r
<1> QED BY <1>1, <1>2, <1>3

LEMMA FitsRoom ==
  ASSUME NEW ids \in VLANs, NEW inc \in Int
  PROVE  IncreaseFits(ids, inc) <=> Value(ids) + inc < Room(Len(ids))
BY ValueOfIDs DEF IncreaseFits, Room

-----------------------------------------------------------------------------
(* The VLAN numbers clients may have, and the next one.                    *)

\* A member of Allowed is a number of steps from the start, in the room of a
\* list as long as the start, and nothing in it is excluded.
LEMMA AllowedMember ==
  ASSUME setup \in Setup, NEW y
  PROVE  y \in Allowed <=>
           /\ y \in 0..(Room(Len(setup.StartVLANs)) - 1)
           /\ \E i \in Nat : y = Value(setup.StartVLANs) + i * setup.VLANStep /\ i <= y
           /\ ~excluded(IDs(y, Len(setup.StartVLANs)))
<1> DEFINE v == Value(setup.StartVLANs)
           len == Len(setup.StartVLANs)
<1>1. setup.StartVLANs \in VLANs /\ v \in Nat /\ len \in 0..2
  BY ValueOfIDs, SetupFields
<1>2. Room(len) \in Nat /\ Room(len) <= VLANSize * VLANSize
  BY <1>1, RoomType
<1>3. VLANSize * VLANSize \in Nat
  BY DEF ClientSetupAssumption
<1>4. \A x \in Nat : IncreaseFits(setup.StartVLANs, x - v) <=> x < Room(len)
  <2> SUFFICES ASSUME NEW x \in Nat
               PROVE  IncreaseFits(setup.StartVLANs, x - v) <=> x < Room(len)
    OBVIOUS
  <2>1. x - v \in Int /\ v + (x - v) = x
    BY <1>1
  <2>2. IncreaseFits(setup.StartVLANs, x - v) <=> v + (x - v) < Room(len)
    BY <1>1, <2>1, FitsRoom
  <2> QED BY <2>1, <2>2
<1>5. y \in Allowed <=>
        /\ y \in 0..(VLANSize * VLANSize - 1)
        /\ \E k \in 0..y : y = v + k * setup.VLANStep
        /\ IncreaseFits(setup.StartVLANs, y - v)
        /\ ~excluded(IDs(y, len))
  BY DEF Allowed
<1> HIDE DEF v, len
<1>6. CASE y \in Nat
  <2>1. (\E k \in 0..y : y = v + k * setup.VLANStep)
          <=> \E i \in Nat : y = v + i * setup.VLANStep /\ i <= y
    BY <1>6
  <2>2. IncreaseFits(setup.StartVLANs, y - v) <=> y < Room(len)
    BY <1>4, <1>6
  <2>3. y < Room(len) => y \in 0..(VLANSize * VLANSize - 1)
    BY <1>2, <1>3, <1>6
  <2> QED BY <1>2, <1>5, <1>6, <2>1, <2>2, <2>3 DEF v, len
<1>7. CASE y \notin Nat
  BY <1>2, <1>3, <1>5, <1>7 DEF v, len
<1> QED BY <1>6, <1>7

LEMMA AllowedFinite ==
  IsFiniteSet(Allowed) /\ \A P \in SUBSET Allowed : IsFiniteSet(P)
<1>1. VLANSize * VLANSize - 1 \in Int
  BY DEF ClientSetupAssumption
<1>2. IsFiniteSet(0..(VLANSize * VLANSize - 1))
  BY <1>1, FS_Interval
<1>3. Allowed \subseteq 0..(VLANSize * VLANSize - 1)
  BY DEF Allowed
<1>4. IsFiniteSet(Allowed)
  BY <1>2, <1>3, FS_Subset
<1> QED BY <1>4, FS_Subset

\* A stop of incvidFunc: the number it comes to.
LEMMA StopMember ==
  ASSUME setup \in Setup, NEW ids \in VLANs, NEW k \in Nat
  PROVE  k \in Stops(ids) <=>
           /\ k \in 1..VLANTries
           /\ Value(ids) + k * setup.VLANStep \in 0..(Room(Len(ids)) - 1)
           /\ ~excluded(IDs(Value(ids) + k * setup.VLANStep, Len(ids)))
<1>1. k * setup.VLANStep \in Nat
  BY DEF Setup
<1>2. Value(ids) \in Nat /\ Len(ids) \in 0..2
  BY ValueOfIDs
<1>3. Room(Len(ids)) \in Nat
  BY <1>2, RoomType
<1>4. IncreaseFits(ids, k * setup.VLANStep)
        <=> Value(ids) + k * setup.VLANStep < Room(Len(ids))
  BY <1>1, FitsRoom
<1> DEFINE m == k * setup.VLANStep
<1>5. k \in Stops(ids) <=> /\ k \in 1..VLANTries
                           /\ IncreaseFits(ids, m)
                           /\ ~excluded(IDs(Value(ids) + m, Len(ids)))
  BY DEF Stops, IncreaseVLANIDs
<1> HIDE DEF m
<1> QED BY <1>1, <1>2, <1>3, <1>4, <1>5 DEF m

\* IncVid takes the first stop.
LEMMA IncVidStops ==
  ASSUME setup \in Setup, NEW ids \in VLANs, Stops(ids) # {}
  PROVE  \E k \in Stops(ids) :
           /\ \A j \in Stops(ids) : k <= j
           /\ IncVid(ids) = IDs(Value(ids) + k * setup.VLANStep, Len(ids))
           /\ IncVid(ids) \in VLANs
           /\ Len(IncVid(ids)) = Len(ids)
           /\ Value(IncVid(ids)) = Value(ids) + k * setup.VLANStep
<1> DEFINE k == CHOOSE i \in Stops(ids) : \A j \in Stops(ids) : i <= j
<1>1. Stops(ids) \in SUBSET Nat
  BY DEF Stops, ClientSetupAssumption
<1>2. \E i \in Stops(ids) : \A j \in Stops(ids) : i <= j
  BY <1>1, LeastElement
<1>3. k \in Stops(ids) /\ \A j \in Stops(ids) : k <= j
  BY <1>2
<1>4. IncVid(ids) = IDs(Value(ids) + k * setup.VLANStep, Len(ids))
  BY DEF IncVid, IncreaseVLANIDs
<1> HIDE DEF k
<1>5. Value(ids) + k * setup.VLANStep \in 0..(Room(Len(ids)) - 1)
  BY <1>1, <1>3, StopMember
<1> DEFINE x == Value(ids) + k * setup.VLANStep
<1>6. Len(ids) \in 0..2
  BY ValueOfIDs
<1>7. /\ IDs(x, Len(ids)) \in VLANs
      /\ Len(IDs(x, Len(ids))) = Len(ids)
      /\ Value(IDs(x, Len(ids))) = x
  <2> HIDE DEF x
  <2> QED BY <1>5, <1>6, IDsOfValue DEF x
<1> QED BY <1>3, <1>4, <1>7

\* No number is allowed between one that is a number of steps from the start
\* and the one IncVid makes of it, which is allowed.
LEMMA NextAllowed ==
  ASSUME setup \in Setup, setup.VLANStep > 0,
         NEW ids \in VLANs, Len(ids) = Len(setup.StartVLANs),
         NEW i \in Nat, Value(ids) = Value(setup.StartVLANs) + i * setup.VLANStep,
         Stops(ids) # {}
  PROVE  /\ Value(IncVid(ids)) \in Allowed
         /\ \A y \in Allowed : y < Value(IncVid(ids)) => y <= Value(ids)
<1> DEFINE s == setup.VLANStep
           v == Value(setup.StartVLANs)
           x == Value(ids)
           len == Len(ids)
<1>1. PICK k \in Stops(ids) : /\ \A j \in Stops(ids) : k <= j
                              /\ Value(IncVid(ids)) = x + k * s
  BY IncVidStops
<1>2. k \in Nat /\ k \in 1..VLANTries
  BY DEF Stops, ClientSetupAssumption
<1>3. s \in Nat /\ s > 0 /\ v \in Nat /\ x \in Nat
  BY ValueOfIDs, SetupFields
<1>4. x + k * s \in 0..(Room(len) - 1) /\ ~excluded(IDs(x + k * s, len))
  BY <1>2, StopMember
<1> HIDE DEF s, v, x, len
<1>5. x = v + i * s
  BY DEF s, v, x
<1>6. x + k * s = v + (i + k) * s
  BY <1>2, <1>3, <1>5, Multiples
<1>7. i + k <= x + k * s
  <2>1. i + k <= (i + k) * s /\ (i + k) * s \in Nat
    BY <1>2, <1>3, MultiplesGrow
  <2> QED BY <1>2, <1>3, <1>6, <2>1
<1>8. x + k * s \in Allowed
  BY <1>2, <1>4, <1>6, <1>7, AllowedMember DEF s, v, x, len
<1>9. ASSUME NEW y \in Allowed, y < x + k * s, ~(y <= x)
      PROVE  FALSE
  <2>1. PICK n \in Nat : y = v + n * s
    BY AllowedMember DEF s, v
  <2>2. y \in 0..(Room(len) - 1) /\ ~excluded(IDs(y, len))
    BY AllowedMember DEF len
  <2>3. y \in Nat /\ k * s \in Nat /\ n * s \in Nat /\ i * s \in Nat /\ (i + k) * s \in Nat
    BY <1>2, <1>3, <2>2, Multiples
  <2>4. i < n
    BY <1>3, <1>5, <1>9, <2>1, <2>3, Multiples
  <2>5. n < i + k
    <3> SUFFICES ASSUME i + k <= n PROVE FALSE
      BY <1>2
    <3>1. (i + k) * s <= n * s
      BY <1>2, <1>3, Multiples
    <3>2. v + (i + k) * s <= v + n * s
      BY <1>3, <2>3, <3>1
    <3>3. v + n * s < v + (i + k) * s
      BY <1>6, <1>9, <2>1
    <3> QED BY <1>3, <2>3, <3>2, <3>3
  <2> DEFINE m == n - i
  <2>6. m \in 1..VLANTries /\ m < k /\ m \in Nat
    BY <1>2, <2>4, <2>5 DEF ClientSetupAssumption
  <2>7. n = i + m
    BY <2>4
  <2> HIDE DEF m
  <2>8. y = x + m * s
    BY <1>3, <1>5, <2>1, <2>6, <2>7, Multiples
  <2>9. m \in Stops(ids)
    BY <2>2, <2>6, <2>8, StopMember DEF s, x, len
  <2> QED BY <1>1, <1>2, <2>6, <2>9
<1> QED BY <1>1, <1>8, <1>9 DEF x

\* IncVid has no stop: all it tries is excluded, or something does not fit.
LEMMA RowOrRoom ==
  ASSUME setup \in Setup, NEW ids \in VLANs, Len(ids) = Len(setup.StartVLANs),
         Stops(ids) = {}, ~RowExcluded(Value(ids))
  PROVE  \E j \in 1..VLANTries : Value(ids) + j * setup.VLANStep >= Room(Len(ids))
<1> DEFINE x == Value(ids)
           v == Value(setup.StartVLANs)
           len == Len(ids)
<1>1. /\ x \in Nat /\ v \in Nat /\ len \in 0..2 /\ Room(len) \in Nat
      /\ setup.StartVLANs \in VLANs /\ setup.VLANStep \in Nat
  <2>1. setup.StartVLANs \in VLANs /\ setup.VLANStep \in Nat
    BY SetupFields
  <2>2. v \in Nat /\ x \in Nat /\ len \in 0..2
    BY <2>1, ValueOfIDs
  <2> HIDE DEF v, x, len
  <2> QED BY <2>1, <2>2, RoomType
<1>2. PICK j \in 1..VLANTries : ~ExcludedNumber(x + j * setup.VLANStep)
  BY DEF RowExcluded
<1> DEFINE m == j * setup.VLANStep
<1>3. j \in Nat /\ m \in Nat
  BY <1>1 DEF ClientSetupAssumption
<1>4. x + m \in 0..(Room(len) - 1) => excluded(IDs(x + m, len))
  BY <1>3, StopMember
<1>5. IncreaseFits(setup.StartVLANs, (x + m) - v) <=> v + ((x + m) - v) < Room(len)
  <2>1. (x + m) - v \in Int
    BY <1>1, <1>3
  <2> HIDE DEF x, m, v
  <2> QED BY <1>1, <2>1, FitsRoom DEF v, len
<1> HIDE DEF x, m, v, len
<1>6. IncreaseFits(setup.StartVLANs, (x + m) - v) => ~excluded(IDs(x + m, len))
  <2>1. IDs(x + m, len) = IDs(x + m, Len(setup.StartVLANs))
    BY DEF len
  <2>2. ~ExcludedNumber(x + m)
    BY <1>2 DEF m
  <2> HIDE DEF len
  <2> QED BY <2>1, <2>2, Zenon DEF ExcludedNumber, v
<1>7. x + m >= Room(len)
  BY <1>1, <1>3, <1>4, <1>5, <1>6
<1> QED BY <1>7 DEF x, m, len

\* If something it tries does not fit, no number above is allowed.
LEMMA LastAllowed ==
  ASSUME setup \in Setup, NEW ids \in VLANs, Len(ids) = Len(setup.StartVLANs),
         NEW i \in Nat, Value(ids) = Value(setup.StartVLANs) + i * setup.VLANStep,
         Stops(ids) = {},
         NEW j \in 1..VLANTries, Value(ids) + j * setup.VLANStep >= Room(Len(ids)),
         NEW y \in Allowed
  PROVE  y <= Value(ids)
<1> DEFINE s == setup.VLANStep
           v == Value(setup.StartVLANs)
           x == Value(ids)
           len == Len(ids)
           room == Room(len)
<1>1. /\ s \in Nat /\ v \in Nat /\ x \in Nat /\ room \in Nat
      /\ j \in Nat /\ VLANTries \in Nat
  <2>1. setup.StartVLANs \in VLANs /\ s \in Nat
    BY DEF Setup
  <2>2. v \in Nat /\ x \in Nat /\ len \in 0..2
    BY <2>1, ValueOfIDs
  <2>3. room \in Nat
    BY <2>2, RoomType
  <2>4. VLANTries \in Nat /\ j \in Nat
    BY DEF ClientSetupAssumption
  <2> QED BY <2>1, <2>2, <2>3, <2>4
<1>2. x = v + i * s /\ x + j * s >= room
  OBVIOUS
<1>3. PICK n \in Nat : y = v + n * s
  BY AllowedMember
<1>4. y \in 0..(room - 1) /\ ~excluded(IDs(y, len))
  BY AllowedMember
<1>5. ASSUME NEW k \in 1..VLANTries
      PROVE  y # x + k * s
  <2>1. k \in Nat /\ k \notin Stops(ids)
    BY <1>1
  <2>2. ~ (x + k * s \in 0..(room - 1) /\ ~excluded(IDs(x + k * s, len)))
    BY <2>1, StopMember
  <2> HIDE DEF x, s, room, len
  <2> QED BY <1>4, <2>2
<1> HIDE DEF s, v, x, len, room
<1>6. /\ i * s \in Nat /\ n * s \in Nat /\ j * s \in Nat
      /\ (i + j) * s = i * s + j * s
  BY <1>1
<1>7. n < i + j
  <2> SUFFICES ASSUME i + j <= n PROVE FALSE
    BY <1>1
  <2>1. (i + j) * s <= n * s
    BY <1>1, Multiples
  <2>2. x + j * s <= y
    BY <1>1, <1>2, <1>3, <1>6, <2>1
  <2> QED BY <1>1, <1>2, <1>4, <1>6, <2>2
<1>8. n <= i
  <2> SUFFICES ASSUME i < n PROVE FALSE
    OBVIOUS
  <2> DEFINE m == n - i
  <2>1. m \in 1..VLANTries /\ m \in Nat /\ n = i + m
    BY <1>1, <1>7 DEF ClientSetupAssumption
  <2> HIDE DEF m
  <2>2. m * s \in Nat
    BY <1>1, <2>1
  <2>3. y = x + m * s
    <3>1. y = v + (i + m) * s
      BY <1>3, <2>1
    <3>2. (i + m) * s = i * s + m * s
      BY <1>1, <2>1, Multiples
    <3> QED BY <1>1, <1>2, <1>6, <2>2, <3>1, <3>2
  <2> QED BY <1>5, <2>1, <2>3
<1>9. n * s <= i * s
  BY <1>1, <1>8, Multiples
<1>10. y <= x
  BY <1>1, <1>2, <1>3, <1>6, <1>9
<1> QED BY <1>10 DEF x

\* The start is 0 steps from the start and nothing below it is allowed.
LEMMA FirstAllowed ==
  ASSUME setup \in Setup
  PROVE  /\ Value(setup.StartVLANs) = Value(setup.StartVLANs) + 0 * setup.VLANStep
         /\ \A y \in Allowed : Value(setup.StartVLANs) <= y
         /\ Value(setup.StartVLANs) \in Allowed <=> ~excluded(setup.StartVLANs)
<1> DEFINE v == Value(setup.StartVLANs)
           len == Len(setup.StartVLANs)
<1>1. v \in Nat /\ setup.VLANStep \in Nat /\ v \in 0..(Room(len) - 1)
      /\ IDs(v, len) = setup.StartVLANs
  BY ValueOfIDs, SetupFields
<1>2. 0 * setup.VLANStep = 0 /\ v = v + 0 * setup.VLANStep
  BY <1>1
<1>3. ASSUME NEW y \in Allowed
      PROVE  v <= y
  <2>1. PICK n \in Nat : y = v + n * setup.VLANStep
    BY AllowedMember
  <2>2. n * setup.VLANStep \in Nat
    BY <1>1
  <2> HIDE DEF v
  <2> QED BY <1>1, <2>1, <2>2
<1>4. v \in Allowed <=> ~excluded(setup.StartVLANs)
  <2>1. \E i \in Nat : v = v + i * setup.VLANStep /\ i <= v
    BY <1>1, <1>2
  <2> QED BY <1>1, <2>1, AllowedMember
<1> QED BY <1>2, <1>3, <1>4

\* Counting the allowed numbers below x, and x.
LEMMA CountNext ==
  ASSUME setup \in Setup, NEW x \in Allowed, NEW n \in Nat,
         Cardinality({y \in Allowed : y < x}) = n
  PROVE  Cardinality({y \in Allowed : y <= x}) = n + 1
<1>1. Allowed \subseteq Nat
  BY DEF Allowed
<1>2. {y \in Allowed : y <= x} = {y \in Allowed : y < x} \cup {x}
  <2>1. x \in Nat /\ \A y \in Allowed : y <= x <=> y < x \/ y = x
    BY <1>1
  <2> QED BY <2>1
<1>3. IsFiniteSet({y \in Allowed : y < x}) /\ x \notin {y \in Allowed : y < x}
  BY <1>1, AllowedFinite
<1> QED BY <1>2, <1>3, FS_AddElement

-----------------------------------------------------------------------------
(* The inductive invariant.                                                *)

\* Only init changes the settings, and it settles the message type.
SettingsInv ==
  /\ setup = [given EXCEPT !.ExcludedVLANs = setup.ExcludedVLANs,
                           !.V6MsgType = setup.V6MsgType]
  /\ pc = "init" => ~given.direct
  /\ ~given.direct /\ pc # "init" => setup.V6MsgType # "None"

\* The setup is in one phase at a time.
PhaseInv ==
  /\ pc = "failed" <=> failure # "none"
  /\ pc = "init" => confs = <<>>
  /\ pc \in {"init", "gen"} => done = 0
  /\ pc = "running" => done = Len(confs)
  /\ rsReads >= 0 => pc \in {"clients", "failed"} /\ done < Len(confs) /\ WaitsForRA

\* The clients generated have as many tags as the start.
TagsInv ==
  \A k \in DOMAIN confs : Len(confs[k].VLANs) = Len(setup.StartVLANs)

\* NthClient in terms of the settings in use, whatever init made of them.
NthOfSetup ==
  \A k \in DOMAIN confs :
    LET x == Value(confs[k].VLANs) IN
    /\ confs[k].Mac = setup.StartMAC + (k - 1) * setup.MacStep
    /\ setup.StartVLANs = <<>> => confs[k].VLANs = <<>>
    /\ setup.StartVLANs # <<>> /\ setup.VLANStep > 0 =>
         x \in Allowed /\ Cardinality({y \in Allowed : y < x}) = k - 1

SomethingDiffers ==
  setup.MacStep > 0 \/ (setup.StartVLANs # <<>> /\ setup.VLANStep > 0)

\* ClntList has every client made, under its own id.
ListInv ==
  SomethingDiffers =>
    \A k \in 1..done :
      LET id == ClientId(confs[k]) IN id \in DOMAIN ClntList /\ ClntList[id] = k

\* The proxy answers from its table, which tells clients apart by MAC address.
ProxyInv ==
  /\ pc # "running" => targets = <<>> /\ adverts = {}
  /\ \A a \in adverts : a.target \in DOMAIN targets /\ a.from = targets[a.target]
  /\ setup.MacStep > 0 =>
       \A k \in DOMAIN confs :
         LLA(confs[k].Mac) \in DOMAIN targets => targets[LLA(confs[k].Mac)] = confs[k]

ClientSetupInv ==
  /\ ClientSetupTypeOK
  /\ SettingsInv
  /\ PhaseInv
  /\ TagsInv
  /\ NthOfSetup
  /\ FailsForAReason
  /\ ListInv
  /\ ProxyInv

-----------------------------------------------------------------------------
(* The next client of genClientConfigurations.                             *)

VLANsStep == setup.StartVLANs # <<>> /\ setup.VLANStep > 0

\* The tags of the next client, as NthOfSetup has them.
NextTags(ids) ==
  /\ ids \in VLANs
  /\ Len(ids) = Len(setup.StartVLANs)
  /\ VLANsStep => /\ Value(ids) \in Allowed
                  /\ Cardinality({y \in Allowed : y < Value(ids)}) = Len(confs)

\* The tags of the last client, or the start, and how many steps they are from
\* the start.
LEMMA PreviousTags ==
  ASSUME ClientSetupTypeOK, TagsInv, NthOfSetup
  PROVE  /\ Previous.VLANs \in VLANs
         /\ Len(Previous.VLANs) = Len(setup.StartVLANs)
         /\ Previous.VLANs = <<>> <=> setup.StartVLANs = <<>>
         /\ VLANsStep =>
              /\ \E i \in Nat :
                   Value(Previous.VLANs) = Value(setup.StartVLANs) + i * setup.VLANStep
              /\ confs # <<>> =>
                   /\ Value(Previous.VLANs) \in Allowed
                   /\ Cardinality({y \in Allowed : y <= Value(Previous.VLANs)}) = Len(confs)
<1>1. setup \in Setup /\ confs \in Seq(ClientConfig)
  BY DEF ClientSetupTypeOK
<1>2. setup.StartVLANs \in VLANs
  BY <1>1 DEF Setup
<1>3. CASE confs = <<>>
  <2>1. Previous.VLANs = setup.StartVLANs
    BY <1>3 DEF Previous
  <2>2. Value(setup.StartVLANs) = Value(setup.StartVLANs) + 0 * setup.VLANStep
    BY <1>1, FirstAllowed
  <2> QED BY <1>2, <1>3, <2>1, <2>2
<1>4. CASE confs # <<>>
  <2> DEFINE n == Len(confs)
  <2>1. n \in Nat \ {0} /\ n \in DOMAIN confs /\ confs[n] \in ClientConfig
    BY <1>1, <1>4
  <2>2. Previous.VLANs = confs[n].VLANs
    BY <1>4 DEF Previous
  <2>3. Previous.VLANs \in VLANs /\ Len(Previous.VLANs) = Len(setup.StartVLANs)
    BY <2>1, <2>2 DEF ClientConfig, TagsInv
  <2>4. Previous.VLANs = <<>> <=> setup.StartVLANs = <<>>
    BY <1>2, <2>3, ValueOfIDs
  <2>5. ASSUME VLANsStep
        PROVE  /\ Value(Previous.VLANs) \in Allowed
               /\ Cardinality({y \in Allowed : y < Value(Previous.VLANs)}) = n - 1
    BY <2>1, <2>2, <2>5 DEF NthOfSetup, VLANsStep
  <2>6. ASSUME VLANsStep
        PROVE  \E i \in Nat :
                 Value(Previous.VLANs) = Value(setup.StartVLANs) + i * setup.VLANStep
    BY <1>1, <2>5, <2>6, AllowedMember
  <2>7. ASSUME VLANsStep
        PROVE  Cardinality({y \in Allowed : y <= Value(Previous.VLANs)}) = n
    <3>1. n - 1 \in Nat /\ (n - 1) + 1 = n
      BY <2>1
    <3> HIDE DEF n
    <3> QED BY <1>1, <2>5, <2>7, <3>1, CountNext
  <2> QED BY <2>3, <2>4, <2>5, <2>6, <2>7
<1> QED BY <1>3, <1>4

LEMMA KeptTags ==
  ASSUME ClientSetupTypeOK, TagsInv, NthOfSetup, ~NeedsIncrease
  PROVE  NextTags(Previous.VLANs)
<1>1. setup \in Setup
  BY DEF ClientSetupTypeOK
<1>2. CASE Previous.VLANs = <<>>
  BY <1>2, PreviousTags DEF NextTags, VLANsStep
<1>3. CASE Previous.VLANs # <<>>
  <2>1. confs = <<>> /\ ~excluded(Previous.VLANs)
    BY <1>3 DEF NeedsIncrease
  <2>2. Previous.VLANs = setup.StartVLANs /\ Len(confs) = 0
    BY <2>1 DEF Previous
  <2>3. Value(Previous.VLANs) \in Allowed
    BY <1>1, <2>1, <2>2, FirstAllowed
  <2>4. {y \in Allowed : y < Value(Previous.VLANs)} = {}
    <3>1. \A y \in Allowed : Value(Previous.VLANs) <= y
      BY <1>1, <2>2, FirstAllowed
    <3>2. Value(Previous.VLANs) \in Nat /\ \A y \in Allowed : y \in Nat
      BY <2>3 DEF Allowed
    <3> QED BY <3>1, <3>2
  <2> QED BY <2>2, <2>3, <2>4, PreviousTags, FS_EmptySet DEF NextTags
<1> QED BY <1>2, <1>3

LEMMA IncreasedTags ==
  ASSUME ClientSetupTypeOK, TagsInv, NthOfSetup,
         NeedsIncrease, Stops(Previous.VLANs) # {}
  PROVE  NextTags(IncVid(Previous.VLANs))
<1> DEFINE old == Previous.VLANs
           new == IncVid(old)
<1>1. setup \in Setup
  BY DEF ClientSetupTypeOK
<1>2. old \in VLANs /\ Len(old) = Len(setup.StartVLANs)
  BY PreviousTags
<1>3. PICK k \in Stops(old) : /\ new \in VLANs /\ Len(new) = Len(old)
                              /\ Value(new) = Value(old) + k * setup.VLANStep
  BY <1>1, <1>2, IncVidStops
<1>4. ASSUME VLANsStep
      PROVE  /\ Value(new) \in Allowed
             /\ Cardinality({y \in Allowed : y < Value(new)}) = Len(confs)
  <2>1. PICK i \in Nat : Value(old) = Value(setup.StartVLANs) + i * setup.VLANStep
    BY <1>4, PreviousTags
  <2>2. Value(new) \in Allowed /\ \A y \in Allowed : y < Value(new) => y <= Value(old)
    BY <1>1, <1>2, <1>4, <2>1, NextAllowed DEF VLANsStep
  <2>3. \A y \in Allowed : y \in Nat
    BY DEF Allowed
  <2>4. Value(old) \in Nat /\ Value(new) \in Nat /\ Value(old) < Value(new)
    <3>1. k \in Nat \ {0} /\ setup.VLANStep \in Nat \ {0}
      BY <1>1, <1>4 DEF Stops, ClientSetupAssumption, Setup, VLANsStep
    <3>2. k <= k * setup.VLANStep /\ k * setup.VLANStep \in Nat
      BY <3>1, MultiplesGrow
    <3>3. Value(old) \in Nat
      BY <1>2, ValueOfIDs
    <3> QED BY <1>3, <3>1, <3>2, <3>3
  <2>5. CASE confs # <<>>
    <3>1. {y \in Allowed : y < Value(new)} = {y \in Allowed : y <= Value(old)}
      BY <2>2, <2>3, <2>4
    <3> QED BY <1>4, <2>2, <2>5, <3>1, PreviousTags
  <2>6. CASE confs = <<>>
    <3>1. old = setup.StartVLANs /\ excluded(old) /\ Len(confs) = 0
      BY <2>6 DEF NeedsIncrease, Previous
    <3>2. Value(old) \notin Allowed /\ \A y \in Allowed : Value(old) <= y
      BY <1>1, <3>1, FirstAllowed
    <3>3. {y \in Allowed : y < Value(new)} = {}
      BY <2>2, <2>3, <2>4, <3>2
    <3> QED BY <2>2, <3>1, <3>3, FS_EmptySet
  <2> QED BY <2>5, <2>6
<1> QED BY <1>2, <1>3, <1>4 DEF NextTags

\* If there is no stop and no whole row is excluded, the VLAN IDs have run out.
LEMMA TagsRunOut ==
  ASSUME ClientSetupTypeOK, TagsInv, NthOfSetup,
         NeedsIncrease, Stops(Previous.VLANs) = {}, ~RowExcluded(Value(Previous.VLANs)),
         Len(confs) < setup.NumOfClients
  PROVE  Cardinality(Allowed) < setup.NumOfClients
<1> DEFINE ids == Previous.VLANs
<1>1. setup \in Setup /\ ids \in VLANs /\ Len(ids) = Len(setup.StartVLANs)
  BY PreviousTags DEF ClientSetupTypeOK
<1>2. ids # <<>>
  BY DEF NeedsIncrease, excluded
<1>3. PICK j \in 1..VLANTries : Value(ids) + j * setup.VLANStep >= Room(Len(ids))
  BY <1>1, RowOrRoom
<1>4. VLANsStep
  <2>1. setup.StartVLANs # <<>>
    BY <1>2, PreviousTags
  <2>2. setup.VLANStep # 0
    <3> SUFFICES ASSUME setup.VLANStep = 0 PROVE FALSE
      OBVIOUS
    <3>1. j * setup.VLANStep = 0
      BY DEF ClientSetupAssumption
    <3>2. Value(ids) \in 0..(Room(Len(ids)) - 1) /\ Room(Len(ids)) \in Nat
      BY <1>1, ValueOfIDs, RoomType
    <3> HIDE DEF ids
    <3> QED BY <1>3, <3>1, <3>2
  <2> QED BY <1>1, <2>1, <2>2 DEF VLANsStep, Setup
<1>5. PICK i \in Nat : Value(ids) = Value(setup.StartVLANs) + i * setup.VLANStep
  BY <1>4, PreviousTags
<1>6. \A y \in Allowed : y <= Value(ids)
  <2> HIDE DEF ids
  <2>1. Stops(ids) = {}
    BY DEF ids
  <2> QED BY <1>1, <1>3, <1>5, <2>1, LastAllowed
<1>7. CASE confs # <<>>
  <2>1. {y \in Allowed : y <= Value(ids)} = Allowed
    BY <1>6
  <2> QED BY <1>4, <1>7, <2>1, PreviousTags
<1>8. CASE confs = <<>>
  <2>1. ids = setup.StartVLANs /\ excluded(ids) /\ Len(confs) = 0
    BY <1>8 DEF NeedsIncrease, Previous
  <2>2. Value(ids) \notin Allowed /\ \A y \in Allowed : Value(ids) <= y
    BY <1>1, <2>1, FirstAllowed
  <2>3. Value(ids) \in Nat /\ \A y \in Allowed : y \in Nat
    BY <1>1, ValueOfIDs DEF Allowed
  <2>4. Allowed = {}
    BY <1>6, <2>2, <2>3
  <2> QED BY <2>1, <2>4, FS_EmptySet
<1> QED BY <1>7, <1>8

\* The MAC address of the next client.
LEMMA NextMacIs ==
  ASSUME ClientSetupTypeOK, NthOfSetup
  PROVE  NextMac = setup.StartMAC + Len(confs) * setup.MacStep /\ NextMac \in Nat
<1>1. setup.StartMAC \in Nat /\ setup.MacStep \in Nat /\ confs \in Seq(ClientConfig)
  <2>1. setup \in Setup /\ confs \in Seq(ClientConfig)
    BY DEF ClientSetupTypeOK
  <2> QED BY <2>1, SetupFields
<1>2. CASE confs = <<>>
  <2>1. Len(confs) * setup.MacStep = 0
    BY <1>1, <1>2
  <2> QED BY <1>1, <1>2, <2>1 DEF NextMac
<1>3. CASE confs # <<>>
  <2> DEFINE n == Len(confs)
             s == setup.MacStep
  <2>1. n \in Nat \ {0} /\ n \in DOMAIN confs
    BY <1>1, <1>3
  <2>2. NextMac = (setup.StartMAC + (n - 1) * s) + s
    BY <1>3, <2>1 DEF NextMac, Previous, NthOfSetup
  <2> HIDE DEF n, s
  <2>3. s \in Nat
    BY <1>1 DEF s
  <2>4. (n - 1) * s + s = n * s /\ (n - 1) * s \in Nat
    BY <2>1, <2>3
  <2>5. NextMac = setup.StartMAC + n * s /\ NextMac \in Nat
    BY <1>1, <2>2, <2>3, <2>4
  <2> QED BY <2>5 DEF n, s
<1> QED BY <1>2, <1>3

-----------------------------------------------------------------------------
(* Clients are told apart, and found in the table of the proxy.            *)

LEMMA MacsDiffer ==
  ASSUME ClientSetupTypeOK, NthOfSetup, setup.MacStep > 0,
         NEW j \in DOMAIN confs, NEW k \in DOMAIN confs, confs[j].Mac = confs[k].Mac
  PROVE  j = k
<1> DEFINE s == setup.MacStep
           m == setup.StartMAC
<1>1. setup \in Setup /\ confs \in Seq(ClientConfig)
  BY DEF ClientSetupTypeOK
<1>2. j \in Nat /\ k \in Nat
  BY <1>1
<1>3. s \in Nat /\ s > 0 /\ m \in Int
  BY <1>1, SetupFields
<1>4. m + (j - 1) * s = m + (k - 1) * s
  BY DEF NthOfSetup
<1> HIDE DEF s, m
<1>5. (j - 1) * s = (k - 1) * s
  <2>1. (j - 1) * s \in Int /\ (k - 1) * s \in Int
    BY <1>2, <1>3
  <2> QED BY <1>3, <1>4, <2>1
<1>6. ~(j - 1 < k - 1) /\ ~(k - 1 < j - 1)
  BY <1>2, <1>3, <1>5, Multiples
<1> QED BY <1>2, <1>6

\* An id has the MAC address and the tags of its client.
LEMMA IdParts ==
  ASSUME NEW c \in ClientConfig, NEW d \in ClientConfig, ClientId(c) = ClientId(d)
  PROVE  c.Mac = d.Mac /\ c.VLANs = d.VLANs
<1>1. ASSUME NEW e \in ClientConfig
      PROVE  /\ <<e.Mac>> \in Seq(Nat) /\ e.VLANs \in Seq(Nat)
             /\ Len(ClientId(e)) = Len(e.VLANs) + 1
             /\ ClientId(e)[1] = e.Mac
             /\ \A n \in 1..Len(e.VLANs) : ClientId(e)[n + 1] = e.VLANs[n]
  <2>1. e.Mac \in Nat /\ e.VLANs \in VLANs
    BY AddressesAreNumbers DEF ClientConfig
  <2>2. <<e.Mac>> \in Seq(Nat)
    BY <2>1
  <2>3. e.VLANs \in Seq(Nat)
    BY <2>1, ValueOfIDs, SeqMonotonic, AddressesAreNumbers
  <2> QED BY <2>2, <2>3 DEF ClientId
<1>2. c.Mac = d.Mac
  BY <1>1
<1>3. Len(c.VLANs) = Len(d.VLANs)
  BY <1>1
<1>4. ASSUME NEW n \in 1..Len(c.VLANs)
      PROVE  c.VLANs[n] = d.VLANs[n]
  <2>1. ClientId(c)[n + 1] = c.VLANs[n]
    BY <1>1
  <2>2. ClientId(d)[n + 1] = d.VLANs[n]
    BY <1>1, <1>3
  <2> QED BY <2>1, <2>2
<1>5. c.VLANs = d.VLANs
  BY <1>1, <1>3, <1>4, SeqEqual
<1> QED BY <1>2, <1>5

LEMMA IdsDiffer ==
  ASSUME ClientSetupTypeOK, NthOfSetup, SomethingDiffers,
         NEW j \in DOMAIN confs, NEW k \in DOMAIN confs,
         ClientId(confs[j]) = ClientId(confs[k])
  PROVE  j = k
<1>1. confs \in Seq(ClientConfig)
  BY DEF ClientSetupTypeOK
<1>2. confs[j] \in ClientConfig /\ confs[k] \in ClientConfig /\ j \in Nat /\ k \in Nat
  BY <1>1
<1>3. confs[j].Mac = confs[k].Mac /\ confs[j].VLANs = confs[k].VLANs
  BY <1>2, IdParts
<1>4. CASE setup.MacStep > 0
  BY <1>3, <1>4, MacsDiffer
<1>5. CASE setup.StartVLANs # <<>> /\ setup.VLANStep > 0
  <2>1. j - 1 = k - 1
    BY <1>3, <1>5 DEF NthOfSetup
  <2> QED BY <1>2, <2>1
<1> QED BY <1>4, <1>5 DEF SomethingDiffers

LEMMA TargetsAre ==
  ASSUME ClientSetupTypeOK, NthOfSetup
  PROVE  /\ \A lla \in DOMAIN Targets : Targets[lla] \in ClientConfig
         /\ setup.MacStep > 0 =>
              \A k \in DOMAIN confs : Targets[LLA(confs[k].Mac)] = confs[k]
<1> DEFINE Last(lla, k) ==
             /\ LLA(confs[k].Mac) = lla
             /\ \A j \in DOMAIN confs : LLA(confs[j].Mac) = lla => j <= k
<1>1. confs \in Seq(ClientConfig) /\ \A k \in DOMAIN confs : k \in Nat /\ k <= Len(confs)
  <2>1. confs \in Seq(ClientConfig)
    BY DEF ClientSetupTypeOK
  <2> QED BY <2>1
<1>2. \A j, k \in DOMAIN confs :
        LLA(confs[j].Mac) = LLA(confs[k].Mac) => confs[j].Mac = confs[k].Mac
  BY DEF LLA
<1>3. \A k \in DOMAIN confs :
        Targets[LLA(confs[k].Mac)]
          = confs[CHOOSE i \in DOMAIN confs : Last(LLA(confs[k].Mac), i)]
  BY DEF Targets
<1> HIDE DEF Last
<1>4. CASE setup.MacStep > 0
  <2>1. \A i, k \in DOMAIN confs : Last(LLA(confs[k].Mac), i) <=> i = k
    BY <1>1, <1>2, <1>4, MacsDiffer DEF Last
  <2>2. \A k \in DOMAIN confs : Targets[LLA(confs[k].Mac)] = confs[k]
    BY <1>3, <2>1
  <2>3. \A lla \in DOMAIN Targets : \E k \in DOMAIN confs : lla = LLA(confs[k].Mac)
    BY DEF Targets
  <2> QED BY <1>1, <2>2, <2>3
<1>5. CASE setup.MacStep = 0
  <2>1. ASSUME NEW lla \in DOMAIN Targets
        PROVE  Targets[lla] \in ClientConfig
    <3>1. PICK k \in DOMAIN confs : lla = LLA(confs[k].Mac)
      BY DEF Targets
    <3>2. \A j \in DOMAIN confs : confs[j].Mac = setup.StartMAC
      <4>1. setup.StartMAC \in Nat
        <5>1. setup \in Setup
          BY DEF ClientSetupTypeOK
        <5> QED BY <5>1, SetupFields
      <4>2. \A j \in DOMAIN confs : confs[j].Mac = setup.StartMAC + (j - 1) * 0
        BY <1>5 DEF NthOfSetup
      <4>3. \A j \in DOMAIN confs : setup.StartMAC + (j - 1) * 0 = setup.StartMAC
        BY <1>1, <4>1
      <4> QED BY <4>2, <4>3
    <3>3. Len(confs) \in DOMAIN confs
      BY <1>1
    <3>4. Last(lla, Len(confs))
      BY <1>1, <3>1, <3>2, <3>3 DEF Last
    <3>5. (CHOOSE i \in DOMAIN confs : Last(lla, i)) \in DOMAIN confs
      BY <3>3, <3>4
    <3> QED BY <1>1, <1>3, <3>1, <3>5
  <2> QED BY <1>5, <2>1
<1>6. setup.MacStep \in Nat
  BY DEF ClientSetupTypeOK, Setup
<1> QED BY <1>4, <1>5, <1>6

-----------------------------------------------------------------------------
(* What a step of the generator does.                                      *)

LEMMA SameSetup ==
  ASSUME setup' = setup
  PROVE  Allowed' = Allowed
BY DEF Allowed, excluded

\* A client more, or no more address, or no more tags.
LEMMA GenClientDoes ==
  ASSUME ClientSetupTypeOK, TagsInv, NthOfSetup, GenClient
  PROVE  /\ UNCHANGED <<given, setup, done, rsReads, gotRA, ClntList, targets, adverts>>
         /\ pc = "gen" /\ Len(confs) < setup.NumOfClients
         /\ \/ \E ids \in VLANs :
                 /\ NextMac \in MAC /\ NextTags(ids)
                 /\ confs' = Append(confs, [Mac |-> NextMac, VLANs |-> ids])
                 /\ UNCHANGED <<pc, failure>>
            \/ /\ NextMac >= MacSize
               /\ UNCHANGED confs /\ pc' = "failed" /\ failure' = "mac"
            \/ /\ NeedsIncrease /\ Stops(Previous.VLANs) = {}
               /\ UNCHANGED confs /\ pc' = "failed" /\ failure' = "vlan"
<1>1. NextMac \in Nat
  BY NextMacIs
<1>2. NextMac >= MacSize \/ NextMac \in MAC
  BY <1>1 DEF MAC, ClientSetupAssumption
<1>3. ~NeedsIncrease => NextTags(Previous.VLANs) /\ Previous.VLANs \in VLANs
  BY KeptTags DEF NextTags
<1>4. NeedsIncrease /\ Stops(Previous.VLANs) # {} =>
        NextTags(IncVid(Previous.VLANs)) /\ IncVid(Previous.VLANs) \in VLANs
  BY IncreasedTags DEF NextTags
<1> QED BY <1>2, <1>3, <1>4 DEF GenClient, Add, Fail

-----------------------------------------------------------------------------
(* The invariant holds initially and every step keeps it.                  *)

LEMMA ClientSetupInit == Init => ClientSetupInv
<1> SUFFICES ASSUME Init PROVE ClientSetupInv
  OBVIOUS
<1>1. given \in Setup /\ setup = given
  BY DEF Init, ClientSetupAssumption
<1>2. /\ pc \in {"init", "gen"} /\ failure = "none" /\ confs = <<>> /\ done = 0
      /\ rsReads = -1 /\ gotRA = {} /\ ClntList = <<>> /\ targets = <<>> /\ adverts = {}
  BY DEF Init
<1>3. ClientSetupTypeOK
  <2>1. RATries \in Nat /\ setup.NumOfClients \in Nat
    BY <1>1, SetupFields DEF ClientSetupAssumption
  <2>2. confs \in Seq(ClientConfig) /\ Len(confs) = 0 /\ DOMAIN confs = {}
    BY <1>2
  <2> QED BY <1>1, <1>2, <2>1, <2>2 DEF ClientSetupTypeOK
<1>4. SettingsInv
  <2>1. setup = [given EXCEPT !.ExcludedVLANs = setup.ExcludedVLANs,
                              !.V6MsgType = setup.V6MsgType]
    BY <1>1 DEF Setup
  <2>2. pc = IF given.direct THEN "gen" ELSE "init"
    BY DEF Init
  <2> QED BY <2>1, <2>2 DEF SettingsInv
<1>5. PhaseInv
  BY <1>2 DEF PhaseInv
<1>6. TagsInv /\ NthOfSetup
  BY <1>2 DEF TagsInv, NthOfSetup
<1>7. FailsForAReason
  BY <1>2 DEF FailsForAReason
<1>8. ListInv
  <2>1. 1..done = {}
    BY <1>2
  <2> QED BY <2>1 DEF ListInv
<1>9. ProxyInv
  <2>1. DOMAIN confs = {}
    BY <1>2
  <2> QED BY <1>2, <2>1 DEF ProxyInv
<1> QED BY <1>3, <1>4, <1>5, <1>6, <1>7, <1>8, <1>9 DEF ClientSetupInv

\* init changes nothing but the settings, the phase and the failure.
LEMMA InitSetupDoes ==
  ASSUME ClientSetupTypeOK, SettingsInv, PhaseInv, InitSetup
  PROVE  /\ setup' \in Setup
         /\ SettingsInv'
         /\ \/ pc' = "gen" /\ failure' = "none"
            \/ pc' = "failed" /\ failure' = "setup"
         /\ UNCHANGED <<given, confs, done, rsReads, gotRA, ClntList, targets, adverts>>
         /\ pc = "init" /\ confs = <<>> /\ done = 0
<1>1. /\ setup \in Setup /\ given \in Setup /\ pc = "init"
      /\ failure = "none" /\ confs = <<>> /\ done = 0
  BY DEF ClientSetupTypeOK, PhaseInv, InitSetup
<1>2. /\ SettleMsgType(setup) \in {"Solicit", "RelayForward"}
      /\ setup' = [setup EXCEPT !.ExcludedVLANs = {}, !.V6MsgType = SettleMsgType(setup)]
  BY <1>1 DEF InitSetup, SettleMsgType, Setup
<1>3. setup' \in Setup /\ setup'.V6MsgType = SettleMsgType(setup) /\ setup'.ExcludedVLANs = {}
  BY <1>1, <1>2 DEF Setup
<1>4. setup' = [given EXCEPT !.ExcludedVLANs = setup'.ExcludedVLANs,
                             !.V6MsgType = setup'.V6MsgType]
  BY <1>1, <1>2, <1>3 DEF SettingsInv, Setup
<1>5. UNCHANGED <<given, confs, done, rsReads, gotRA, ClntList, targets, adverts>>
  BY DEF InitSetup
<1>6. \/ pc' = "gen" /\ failure' = "none"
      \/ pc' = "failed" /\ failure' = "setup"
  BY <1>1 DEF InitSetup, Fail
<1>7. SettingsInv'
  BY <1>1, <1>2, <1>3, <1>4, <1>5, <1>6 DEF SettingsInv
<1> QED BY <1>1, <1>3, <1>5, <1>6, <1>7

\* A step after init leaves the settings, and one after the generator the
\* clients.
LEMMA SettingsStay ==
  ASSUME [Next]_vars, ~InitSetup
  PROVE  given' = given /\ setup' = setup
BY DEF Next, GenClient, Generated, SendRS, ReadRA, NewClient, NewClientFails, StartProxy,
       ProcessReq, vars

LEMMA ClientsStay ==
  ASSUME [Next]_vars, ~GenClient
  PROVE  confs' = confs
BY DEF Next, InitSetup, Generated, SendRS, ReadRA, NewClient, NewClientFails, StartProxy,
       ProcessReq, vars

LEMMA TypeKept ==
  ASSUME ClientSetupInv, [Next]_vars
  PROVE  ClientSetupTypeOK'
<1> USE DEF ClientSetupInv
<1>1. /\ setup \in Setup /\ given \in Setup /\ confs \in Seq(ClientConfig)
      /\ Len(confs) <= setup.NumOfClients /\ done \in 0..Len(confs)
  BY DEF ClientSetupTypeOK
<1>2. CASE InitSetup
  <2>1. setup' \in Setup /\ done' = 0 /\ confs' = <<>> /\ ClntList' = ClntList
        /\ given' = given /\ done = 0 /\ confs = <<>>
        /\ rsReads' = rsReads /\ gotRA' = gotRA /\ targets' = targets
        /\ pc' \in {"gen", "failed"} /\ failure' \in {"none", "setup"}
    BY <1>2, InitSetupDoes
  <2>2. setup'.NumOfClients \in Nat
    BY <2>1 DEF Setup
  <2> QED BY <1>1, <2>1, <2>2 DEF ClientSetupTypeOK
<1>3. CASE GenClient
  <2>1. /\ UNCHANGED <<given, setup, done, rsReads, gotRA, ClntList, targets>>
        /\ Len(confs) < setup.NumOfClients
    BY <1>3, GenClientDoes
  <2>2. setup.NumOfClients \in Nat /\ Len(confs) \in Nat
    BY <1>1, SetupFields
  <2>3. /\ pc' \in {"gen", "failed"} /\ failure' \in {failure, "mac", "vlan"}
        /\ \/ confs' = confs
           \/ \E ids \in VLANs : /\ NextMac \in MAC
                                 /\ confs' = Append(confs, [Mac |-> NextMac, VLANs |-> ids])
    BY <1>3, GenClientDoes
  <2>4. /\ confs' \in Seq(ClientConfig)
        /\ Len(confs') <= setup.NumOfClients /\ Len(confs) <= Len(confs')
        /\ DOMAIN confs \subseteq DOMAIN confs'
    <3>1. CASE confs' = confs
      BY <1>1, <2>2, <3>1
    <3>2. ASSUME NEW ids \in VLANs, NextMac \in MAC,
                 confs' = Append(confs, [Mac |-> NextMac, VLANs |-> ids])
          PROVE  /\ confs' \in Seq(ClientConfig)
                 /\ Len(confs') = Len(confs) + 1
                 /\ DOMAIN confs \subseteq DOMAIN confs'
      <4>1. [Mac |-> NextMac, VLANs |-> ids] \in ClientConfig
        BY <3>2 DEF ClientConfig
      <4> QED BY <1>1, <3>2, <4>1
    <3>3. CASE confs' # confs
      <4>1. PICK ids \in VLANs : /\ NextMac \in MAC
                                 /\ confs' = Append(confs, [Mac |-> NextMac, VLANs |-> ids])
        BY <2>3, <3>3
      <4>2. confs' \in Seq(ClientConfig) /\ Len(confs') = Len(confs) + 1
            /\ DOMAIN confs \subseteq DOMAIN confs'
        BY <3>2, <4>1
      <4> QED BY <2>1, <2>2, <4>2
    <3> QED BY <3>1, <3>3
  <2>5. done' \in 0..Len(confs')
    BY <1>1, <2>1, <2>2, <2>4
  <2> QED BY <1>1, <2>1, <2>3, <2>4, <2>5 DEF ClientSetupTypeOK
<1>4. CASE Generated
  BY <1>4 DEF Generated, ClientSetupTypeOK
<1>5. CASE SendRS
  BY <1>5 DEF SendRS, Fail, ClientSetupTypeOK, ClientSetupAssumption
<1>6. ASSUME NEW what \in {"managed", "unmanaged", "other", "error"}, ReadRA(what)
      PROVE  ClientSetupTypeOK'
  <2>1. /\ UNCHANGED <<given, setup, confs, done, ClntList, targets>>
        /\ rsReads \in 0..(RATries - 1)
    BY <1>6 DEF ReadRA
  <2>2. RATries \in Nat /\ rsReads' \in -1..RATries
    BY <1>6, <2>1 DEF ReadRA, ClientSetupAssumption
  <2>3. Current \in DOMAIN confs
    BY <1>1, <2>1 DEF PhaseInv, Current
  <2>4. /\ pc' \in {"init", "gen", "clients", "running", "failed"}
        /\ failure' \in {failure, "ra"} /\ gotRA' \subseteq DOMAIN confs
    BY <1>6, <2>3 DEF ReadRA, Fail, ClientSetupTypeOK
  <2> QED BY <2>1, <2>2, <2>4 DEF ClientSetupTypeOK
<1>7. CASE NewClient
  <2>1. /\ UNCHANGED <<given, setup, confs, rsReads, gotRA, targets>>
        /\ pc' \in {"clients", "failed"} /\ failure' \in {failure, "msgtype"}
    BY <1>7 DEF NewClient, Fail
  <2>2. done' \in 0..Len(confs) /\ \A id \in DOMAIN ClntList' : ClntList'[id] \in 1..done'
    BY <1>1, <1>7 DEF NewClient, Current, ClientSetupTypeOK
  <2> QED BY <2>1, <2>2 DEF ClientSetupTypeOK
<1>8. CASE NewClientFails
  BY <1>8 DEF NewClientFails, Fail, ClientSetupTypeOK
<1>9. CASE StartProxy
  <2>1. \A lla \in DOMAIN targets' : targets'[lla] \in ClientConfig
    BY <1>9, TargetsAre DEF StartProxy, ClientSetupTypeOK
  <2>2. /\ UNCHANGED <<given, setup, failure, confs, done, rsReads, gotRA, ClntList>>
        /\ pc' = "running"
    BY <1>9 DEF StartProxy
  <2> QED BY <2>1, <2>2 DEF ClientSetupTypeOK
<1>10. ASSUME NEW mac \in MAC, ProcessReq(LLA(mac))
       PROVE  ClientSetupTypeOK'
  BY <1>10 DEF ProcessReq, ClientSetupTypeOK
<1>11. CASE UNCHANGED vars
  BY <1>11 DEF vars, ClientSetupTypeOK
<1> QED
  BY <1>2, <1>3, <1>4, <1>5, <1>6, <1>7, <1>8, <1>9, <1>10, <1>11 DEF Next

LEMMA SettingsKept ==
  ASSUME ClientSetupInv, [Next]_vars
  PROVE  SettingsInv'
<1>1. CASE InitSetup
  BY <1>1, InitSetupDoes DEF ClientSetupInv
<1>2. CASE ~InitSetup
  <2>1. given' = given /\ setup' = setup
    BY <1>2, SettingsStay
  <2>2. pc' # "init" \/ pc' = pc
    BY <1>2 DEF Next, GenClient, Add, Generated, SendRS, ReadRA, NewClient, NewClientFails,
                StartProxy, ProcessReq, Fail, vars
  <2>3. pc = "init" => pc' = "init"
    BY <1>2 DEF Next, GenClient, Add, Generated, SendRS, ReadRA, NewClient, NewClientFails,
                StartProxy, ProcessReq, Fail, vars, ClientSetupInv, PhaseInv
  <2> QED BY <2>1, <2>2, <2>3 DEF ClientSetupInv, SettingsInv
<1> QED BY <1>1, <1>2

LEMMA PhaseKept ==
  ASSUME ClientSetupInv, [Next]_vars
  PROVE  PhaseInv'
<1> USE DEF ClientSetupInv
<1>1. /\ confs \in Seq(ClientConfig) /\ done \in 0..Len(confs) /\ rsReads \in Int
  BY DEF ClientSetupTypeOK, ClientSetupAssumption
<1>2. CASE InitSetup
  <2>1. ~(rsReads >= 0)
    BY <1>2, InitSetupDoes DEF PhaseInv
  <2> QED BY <1>2, <2>1, InitSetupDoes DEF PhaseInv
<1>3. CASE GenClient
  <2>1. /\ UNCHANGED <<done, rsReads>> /\ pc = "gen" /\ failure = "none"
        /\ \/ pc' = "gen" /\ failure' = "none"
           \/ pc' = "failed" /\ failure' \in {"mac", "vlan"}
    BY <1>3, GenClientDoes DEF PhaseInv
  <2> QED BY <2>1 DEF PhaseInv
<1>4. CASE Generated
  BY <1>4 DEF Generated, PhaseInv
<1>5. CASE SendRS
  BY <1>1, <1>5 DEF SendRS, Fail, PhaseInv, WaitsForRA, Current
<1>6. ASSUME NEW what \in {"managed", "unmanaged", "other", "error"}, ReadRA(what)
      PROVE  PhaseInv'
  <2>1. /\ UNCHANGED <<setup, confs, done>> /\ pc = "clients" /\ failure = "none"
        /\ done < Len(confs) /\ WaitsForRA /\ rsReads \in Nat
    BY <1>6 DEF ReadRA, PhaseInv
  <2>2. \/ pc' = "clients" /\ failure' = "none" /\ rsReads' = -1
        \/ pc' = "clients" /\ failure' = "none" /\ gotRA' = gotRA
        \/ pc' = "failed" /\ failure' = "ra" /\ gotRA' = gotRA
    BY <1>6, <2>1 DEF ReadRA, Fail
  <2>3. gotRA' = gotRA => WaitsForRA'
    BY <2>1 DEF WaitsForRA, Current
  <2> QED BY <2>1, <2>2, <2>3 DEF PhaseInv
<1>7. CASE NewClient
  <2>1. ~(rsReads >= 0) /\ rsReads' = rsReads
    BY <1>7 DEF NewClient, PhaseInv
  <2> QED BY <1>7, <2>1 DEF NewClient, Fail, PhaseInv
<1>8. CASE NewClientFails
  <2>1. ~(rsReads >= 0) /\ rsReads' = rsReads
    BY <1>8 DEF NewClientFails, PhaseInv
  <2> QED BY <1>8, <2>1 DEF NewClientFails, Fail, PhaseInv
<1>9. CASE StartProxy
  <2>1. ~(rsReads >= 0) /\ rsReads' = rsReads
    BY <1>1, <1>9 DEF StartProxy, PhaseInv
  <2> QED BY <1>9, <2>1 DEF StartProxy, PhaseInv
<1>10. ASSUME NEW mac \in MAC, ProcessReq(LLA(mac))
       PROVE  PhaseInv'
  BY <1>10 DEF ProcessReq, PhaseInv, WaitsForRA, Current
<1>11. CASE UNCHANGED vars
  BY <1>11 DEF vars, PhaseInv, WaitsForRA, Current
<1> QED
  BY <1>2, <1>3, <1>4, <1>5, <1>6, <1>7, <1>8, <1>9, <1>10, <1>11 DEF Next

LEMMA ClientsKept ==
  ASSUME ClientSetupInv, [Next]_vars
  PROVE  TagsInv' /\ NthOfSetup'
<1> USE DEF ClientSetupInv
<1>1. CASE InitSetup
  <2>1. DOMAIN confs' = {}
    BY <1>1, InitSetupDoes
  <2> QED BY <2>1 DEF TagsInv, NthOfSetup
<1>2. CASE GenClient /\ confs' # confs
  <2>1. PICK ids \in VLANs : /\ NextMac \in MAC /\ NextTags(ids)
                             /\ confs' = Append(confs, [Mac |-> NextMac, VLANs |-> ids])
    BY <1>2, GenClientDoes
  <2>2. setup' = setup /\ Allowed' = Allowed
    BY <1>2, GenClientDoes, SameSetup
  <2>3. /\ confs \in Seq(ClientConfig) /\ Len(confs) \in Nat
        /\ DOMAIN confs' = DOMAIN confs \cup {Len(confs) + 1}
        /\ \A k \in DOMAIN confs : confs'[k] = confs[k]
        /\ confs'[Len(confs) + 1] = [Mac |-> NextMac, VLANs |-> ids]
    BY <2>1 DEF ClientSetupTypeOK
  <2>4. Len(ids) = Len(setup.StartVLANs) /\ ids \in VLANs /\ setup.StartVLANs \in VLANs
    BY <2>1, SetupFields DEF NextTags, ClientSetupTypeOK
  <2>5. NextMac = setup.StartMAC + ((Len(confs) + 1) - 1) * setup.MacStep
        /\ (Len(confs) + 1) - 1 = Len(confs)
    BY <2>3, NextMacIs
  <2>6. setup.StartVLANs = <<>> => ids = <<>>
    BY <2>4, ValueOfIDs
  <2>7. VLANsStep => /\ Value(ids) \in Allowed
                     /\ Cardinality({y \in Allowed : y < Value(ids)}) = (Len(confs) + 1) - 1
    BY <2>1, <2>5 DEF NextTags
  <2>8. TagsInv'
    BY <2>2, <2>3, <2>4 DEF TagsInv
  <2> DEFINE Nth(c, k) ==
               /\ c.Mac = setup.StartMAC + (k - 1) * setup.MacStep
               /\ setup.StartVLANs = <<>> => c.VLANs = <<>>
               /\ VLANsStep => /\ Value(c.VLANs) \in Allowed
                               /\ Cardinality({y \in Allowed : y < Value(c.VLANs)}) = k - 1
  <2>9. \A k \in DOMAIN confs : Nth(confs[k], k)
    BY DEF NthOfSetup, VLANsStep
  <2>10. Nth([Mac |-> NextMac, VLANs |-> ids], Len(confs) + 1)
    BY <2>5, <2>6, <2>7
  <2>11. NthOfSetup' <=> \A k \in DOMAIN confs' : Nth(confs'[k], k)
    BY <2>2 DEF NthOfSetup, VLANsStep
  <2> HIDE DEF Nth
  <2>12. NthOfSetup'
    BY <2>3, <2>9, <2>10, <2>11
  <2> QED BY <2>8, <2>12
<1>3. CASE ~InitSetup /\ confs' = confs
  <2>1. setup' = setup /\ Allowed' = Allowed
    BY <1>3, SettingsStay, SameSetup
  <2> QED BY <1>3, <2>1 DEF TagsInv, NthOfSetup
<1> QED BY <1>1, <1>2, <1>3, ClientsStay

LEMMA FailuresKept ==
  ASSUME ClientSetupInv, [Next]_vars
  PROVE  FailsForAReason'
<1> USE DEF ClientSetupInv
<1>1. CASE failure' \in {"none", "setup", "ra", "conn"}
  BY <1>1 DEF FailsForAReason
<1>2. CASE UNCHANGED vars
  <2>1. setup' = setup /\ Allowed' = Allowed /\ given' = given /\ failure' = failure
    BY <1>2, SameSetup DEF vars
  <2>2. \A x : RowExcluded(x)' = RowExcluded(x)
    BY <2>1 DEF RowExcluded, ExcludedNumber, IncreaseFits, excluded, IDs, Value
  <2> QED BY <2>1, <2>2 DEF FailsForAReason
<1>3. CASE GenClient /\ failure' = "mac"
  <2>1. NextMac >= MacSize /\ Len(confs) < setup.NumOfClients /\ given' = given
    BY <1>3, GenClientDoes DEF PhaseInv
  <2>2. /\ given.StartMAC = setup.StartMAC /\ given.MacStep = setup.MacStep
        /\ given.NumOfClients = setup.NumOfClients
    BY DEF SettingsInv, ClientSetupTypeOK, Setup
  <2> DEFINE m == setup.StartMAC
             s == setup.MacStep
             n == Len(confs)
             N == setup.NumOfClients
  <2>3. m \in Nat /\ s \in Nat /\ n \in Nat /\ N \in Nat /\ NextMac = m + n * s
    <3>1. setup \in Setup /\ confs \in Seq(ClientConfig)
      BY DEF ClientSetupTypeOK
    <3> QED BY <3>1, SetupFields, NextMacIs
  <2>4. n < N
    BY <2>1
  <2> HIDE DEF m, s, n, N
  <2>5. n * s <= (N - 1) * s
    BY <2>3, <2>4, Multiples
  <2>6. n * s \in Nat /\ (N - 1) * s \in Nat
    BY <2>3, <2>4, Multiples
  <2>7. m + (N - 1) * s >= MacSize
    BY <2>1, <2>3, <2>5, <2>6 DEF ClientSetupAssumption
  <2> QED BY <1>3, <2>1, <2>2, <2>7 DEF FailsForAReason, m, s, N
<1>4. CASE GenClient /\ failure' = "vlan"
  <2>1. /\ NeedsIncrease /\ Stops(Previous.VLANs) = {}
        /\ Len(confs) < setup.NumOfClients /\ given' = given /\ setup' = setup
    BY <1>4, GenClientDoes DEF PhaseInv
  <2>2. given.NumOfClients = setup.NumOfClients
    BY DEF SettingsInv, ClientSetupTypeOK, Setup
  <2>3. Cardinality(Allowed) < setup.NumOfClients \/ RowExcluded(Value(Previous.VLANs))
    BY <2>1, TagsRunOut
  <2>4. Value(Previous.VLANs) \in 0..(VLANSize * VLANSize - 1)
    <3>1. setup \in Setup /\ Previous.VLANs \in VLANs
      BY PreviousTags DEF ClientSetupTypeOK
    <3>2. /\ Value(Previous.VLANs) \in 0..(Room(Len(Previous.VLANs)) - 1)
          /\ Room(Len(Previous.VLANs)) <= VLANSize * VLANSize
          /\ Room(Len(Previous.VLANs)) \in Nat /\ VLANSize * VLANSize \in Nat
      <4>1. /\ Value(Previous.VLANs) \in 0..(Room(Len(Previous.VLANs)) - 1)
            /\ Len(Previous.VLANs) \in 0..2
        BY <3>1, ValueOfIDs
      <4>2. VLANSize * VLANSize \in Nat
        BY DEF ClientSetupAssumption
      <4> QED BY <4>1, <4>2, RoomType
    <3> QED BY <3>2
  <2>5. \A x : RowExcluded(x)' = RowExcluded(x)
    BY <2>1, SameSetup DEF RowExcluded, ExcludedNumber, IncreaseFits, excluded, IDs, Value
  <2> QED BY <1>4, <2>1, <2>2, <2>3, <2>4, <2>5, SameSetup DEF FailsForAReason
<1>5. CASE NewClient /\ failure' = "msgtype"
  <2>1. setup.V6MsgType = "None" /\ given' = given /\ pc # "init"
    BY <1>5 DEF NewClient, PhaseInv
  <2> QED BY <1>5, <2>1 DEF SettingsInv, FailsForAReason
<1>6. CASE GenClient
  BY <1>1, <1>3, <1>4, <1>6, GenClientDoes DEF PhaseInv
<1>7. CASE NewClient
  BY <1>1, <1>5, <1>7 DEF NewClient, Fail, PhaseInv
<1>8. CASE InitSetup
  BY <1>1, <1>8, InitSetupDoes
<1>9. CASE Generated \/ SendRS \/ NewClientFails \/ StartProxy
  BY <1>1, <1>9 DEF Generated, SendRS, NewClientFails, StartProxy, Fail, PhaseInv
<1>10. ASSUME NEW what \in {"managed", "unmanaged", "other", "error"}, ReadRA(what)
       PROVE  FailsForAReason'
  BY <1>1, <1>10 DEF ReadRA, Fail, PhaseInv
<1>11. ASSUME NEW mac \in MAC, ProcessReq(LLA(mac))
       PROVE  FailsForAReason'
  BY <1>1, <1>11 DEF ProcessReq, PhaseInv
<1> QED
  BY <1>2, <1>6, <1>7, <1>8, <1>9, <1>10, <1>11 DEF Next

LEMMA ListKept ==
  ASSUME ClientSetupInv, [Next]_vars
  PROVE  ListInv'
<1> USE DEF ClientSetupInv
<1>1. confs \in Seq(ClientConfig) /\ done \in 0..Len(confs)
  BY DEF ClientSetupTypeOK
<1>2. CASE InitSetup \/ GenClient
  <2>1. done' = 0
    BY <1>2, InitSetupDoes, GenClientDoes DEF PhaseInv
  <2>2. 1..done' = {}
    BY <2>1
  <2> QED BY <2>2 DEF ListInv
<1>3. CASE NewClient /\ done' # done
  <2> DEFINE id == ClientId(confs[Current])
  <2>1. /\ done < Len(confs) /\ Current = done + 1 /\ done' = Current
        /\ confs' = confs /\ setup' = setup
        /\ ClntList' = [i \in DOMAIN ClntList \cup {id} |->
                          IF i = id THEN Current ELSE ClntList[i]]
    BY <1>3 DEF NewClient, Current
  <2>2. SUFFICES ASSUME SomethingDiffers, NEW k \in 1..done'
                 PROVE  /\ ClientId(confs[k]) \in DOMAIN ClntList'
                        /\ ClntList'[ClientId(confs[k])] = k
    BY <2>1 DEF ListInv, SomethingDiffers
  <2>3. k \in DOMAIN confs /\ Current \in DOMAIN confs /\ (k = Current \/ k \in 1..done)
    BY <1>1, <2>1
  <2>4. CASE k = Current
    BY <2>1, <2>4
  <2>5. CASE k # Current
    <3>1. ClientId(confs[k]) # id
      BY <2>2, <2>3, <2>5, IdsDiffer
    <3>2. ClientId(confs[k]) \in DOMAIN ClntList /\ ClntList[ClientId(confs[k])] = k
      BY <2>2, <2>3, <2>5 DEF ListInv
    <3> HIDE DEF id
    <3> QED BY <2>1, <3>1, <3>2
  <2> QED BY <2>4, <2>5
<1>4. CASE UNCHANGED <<setup, confs, done, ClntList>>
  BY <1>4 DEF ListInv, SomethingDiffers
<1>5. CASE NewClient
  BY <1>3, <1>4, <1>5 DEF NewClient, Current, ClientSetupTypeOK
<1>6. CASE ~InitSetup /\ ~GenClient /\ ~NewClient
  BY <1>4, <1>6 DEF Next, Generated, SendRS, ReadRA, NewClientFails, StartProxy, ProcessReq, vars
<1> QED BY <1>2, <1>5, <1>6

LEMMA ProxyKept ==
  ASSUME ClientSetupInv, [Next]_vars
  PROVE  ProxyInv'
<1> USE DEF ClientSetupInv
<1>1. CASE InitSetup \/ GenClient
  <2>1. pc' # "running" /\ targets' = <<>> /\ adverts' = {}
    BY <1>1, InitSetupDoes, GenClientDoes DEF ProxyInv
  <2> QED BY <2>1 DEF ProxyInv
<1>2. CASE StartProxy
  <2>1. /\ UNCHANGED <<setup, confs>> /\ pc' = "running" /\ adverts' = {}
        /\ targets' = Targets \/ targets' = <<>>
    BY <1>2 DEF StartProxy, ProxyInv
  <2> QED BY <2>1, TargetsAre DEF ProxyInv
<1>3. ASSUME NEW mac \in MAC, ProcessReq(LLA(mac))
      PROVE  ProxyInv'
  BY <1>3 DEF ProcessReq, ProxyInv
<1>4. CASE UNCHANGED vars
  BY <1>4 DEF vars, ProxyInv
<1>5. CASE Generated \/ SendRS \/ NewClient \/ NewClientFails
  BY <1>5 DEF Generated, SendRS, NewClient, NewClientFails, Fail, ProxyInv
<1>6. ASSUME NEW what \in {"managed", "unmanaged", "other", "error"}, ReadRA(what)
      PROVE  ProxyInv'
  BY <1>6 DEF ReadRA, Fail, ProxyInv
<1> QED BY <1>1, <1>2, <1>3, <1>4, <1>5, <1>6 DEF Next

\* The setup keeps the invariant, whatever the settings are.
THEOREM ClientSetupInvariance == Spec => []ClientSetupInv
<1>1. ClientSetupInv /\ [Next]_vars => ClientSetupInv'
  BY TypeKept, SettingsKept, PhaseKept, ClientsKept, FailuresKept, ListKept, ProxyKept
     DEF ClientSetupInv
<1> QED BY <1>1, ClientSetupInit, PTL DEF Spec

-----------------------------------------------------------------------------
(* The properties.                                                         *)

\* Settings, phases, clients and tables have their types.
THEOREM ClientSetupTypeCorrect == Spec => []ClientSetupTypeOK
BY ClientSetupInvariance, PTL DEF ClientSetupInv

\* The n-th client has the n-th MAC address the user asked for and, unless VLANs
\* the user excluded were forgotten by init, the n-th VLAN number allowed.
THEOREM NthClientGenerated == Spec => []NthClient
<1>1. ClientSetupInv => NthClient
  <2> SUFFICES ASSUME ClientSetupInv PROVE NthClient
    OBVIOUS
  <2>1. given \in Setup /\ setup \in Setup
    BY DEF ClientSetupInv, ClientSetupTypeOK
  <2>2. /\ setup.StartMAC = given.StartMAC /\ setup.MacStep = given.MacStep
        /\ setup.StartVLANs = given.StartVLANs /\ setup.VLANStep = given.VLANStep
    BY <2>1 DEF ClientSetupInv, SettingsInv, Setup
  <2> QED BY <2>2 DEF ClientSetupInv, NthOfSetup, NthClient
<1> QED BY <1>1, ClientSetupInvariance, PTL

\* The setup fails for the reasons FailsForAReason lists and no other.
THEOREM FailuresExplained == Spec => []FailsForAReason
BY ClientSetupInvariance, PTL DEF ClientSetupInv

\* No client takes the place of another in ClntList.
THEOREM ClientsKeptApart == Spec => []ClientsDistinct
<1>1. ClientSetupInv => ClientsDistinct
  <2> SUFFICES ASSUME ClientSetupInv, pc = "running", SomethingDiffers,
                      NEW k \in DOMAIN confs
               PROVE  \E id \in DOMAIN ClntList : ClntList[id] = k
    BY DEF ClientsDistinct, SomethingDiffers
  <2>1. done = Len(confs) /\ confs \in Seq(ClientConfig)
    BY DEF ClientSetupInv, PhaseInv, ClientSetupTypeOK
  <2>2. k \in 1..done
    BY <2>1
  <2> QED BY <2>2 DEF ClientSetupInv, ListInv
<1> QED BY <1>1, ClientSetupInvariance, PTL

\* The proxy answers for the address of a client as that client.
THEOREM ProxyAnswersFit == Spec => []AnswersFit
<1>1. ClientSetupInv => AnswersFit
  BY DEF ClientSetupInv, ProxyInv, AnswersFit
<1> QED BY <1>1, ClientSetupInvariance, PTL

=============================================================================
