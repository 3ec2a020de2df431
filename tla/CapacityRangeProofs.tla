------------------------- MODULE CapacityRangeProofs -------------------------
(***************************************************************************)
(* Theorems about CapacityRange, for every size of a gibibyte and every    *)
(* pair of bounds.                                                         *)
(***************************************************************************)
EXTENDS CapacityRange, TLAPS

\* What extractStorage answers in each of its cases.
LEMMA ExtractCases ==
  ASSUME NEW r \in Int, NEW l \in Int
  PROVE  LET s == extractStorage(r, l)
         IN \/ ~(0 < r) /\ ~(0 < l) /\ s = defaultVolumeSizeInBytes
            \/ s = Invalid
            \/ 0 < r /\ s = r /\ ~Rejected(r, l)
            \/ ~(0 < r) /\ 0 < l /\ s = l /\ ~Rejected(r, l)
<1>1. CASE ~(0 < r) /\ ~(0 < l)
  BY <1>1 DEF extractStorage
<1>2. CASE (0 < r \/ 0 < l) /\ Rejected(r, l)
  BY <1>2 DEF extractStorage
<1>3. CASE 0 < r /\ ~Rejected(r, l)
  BY <1>3 DEF extractStorage
<1>4. CASE ~(0 < r) /\ 0 < l /\ ~Rejected(r, l)
  BY <1>4 DEF extractStorage
<1> QED
  BY <1>1, <1>2, <1>3, <1>4

\* The range is a pair of integers, and the answer is extractStorage's.
Inv ==
  /\ capRange.required \in Int /\ capRange.limit \in Int
  /\ size = Pending \/ size = extractStorage(capRange.required, capRange.limit)

LEMMA InvInvariant == Spec => []Inv
<1>1. Init => Inv
  <2> SUFFICES ASSUME Init PROVE Inv
    OBVIOUS
  <2>1. CASE capRange = NoRange
    BY <2>1 DEF Init, Inv, NoRange
  <2>2. CASE capRange \in [required : Sizes, limit : Sizes]
    BY <2>2, SizesAssumption DEF Init, Inv
  <2> QED
    BY <2>1, <2>2 DEF Init
<1>2. Inv /\ [Next]_vars => Inv'
  BY DEF Inv, Next, Extract, vars
<1> QED
  BY <1>1, <1>2, PTL DEF Spec

(***************************************************************************)
(* Every accepted size lies in the requested range and above the minimum.  *)
(***************************************************************************)
THEOREM AcceptedInRange == Spec => []SizeInRange
<1>1. Inv => SizeInRange
  <2> SUFFICES ASSUME Inv, Accepted PROVE Satisfies(size) /\ size >= minimumVolumeSizeInBytes
    BY DEF SizeInRange
  <2> DEFINE r == capRange.required
             l == capRange.limit
  <2>1. r \in Int /\ l \in Int /\ size # Invalid /\ size = extractStorage(r, l)
    BY DEF Inv, Accepted, Answered
  <2>2. GiB \in Int /\ 0 < GiB /\ minimumVolumeSizeInBytes = GiB /\ defaultVolumeSizeInBytes = 16 * GiB
    BY GiBAssumption DEF minimumVolumeSizeInBytes, defaultVolumeSizeInBytes
  <2>3. CASE ~(0 < r) /\ ~(0 < l) /\ size = defaultVolumeSizeInBytes
    BY <2>2, <2>3 DEF Satisfies
  <2>4. CASE 0 < r /\ size = r /\ ~Rejected(r, l)
    BY <2>1, <2>2, <2>4 DEF Satisfies, Rejected
  <2>5. CASE ~(0 < r) /\ 0 < l /\ size = l /\ ~Rejected(r, l)
    BY <2>1, <2>2, <2>5 DEF Satisfies, Rejected
  <2> QED
    BY <2>1, <2>3, <2>4, <2>5, ExtractCases
<1> QED
  BY <1>1, InvInvariant, PTL

(***************************************************************************)
(* With a lower bound, no smaller whole number of gibibytes would have     *)
(* satisfied the request.                                                  *)
(***************************************************************************)
THEOREM AcceptedIsSmallest == Spec => []SmallestSize
<1>1. Inv => SmallestSize
  <2> SUFFICES ASSUME Inv, Accepted, 0 < capRange.required,
                      NEW n \in minimumVolumeSizeInBytes..size, Satisfies(n)
               PROVE  n = size
    BY DEF SmallestSize
  <2>1. size = capRange.required
    BY ExtractCases DEF Inv, Accepted, Answered
  <2>2. capRange.required <= n /\ n <= size /\ n \in Int /\ size \in Int
    BY <2>1 DEF Satisfies, Inv
  <2> QED
    BY <2>1, <2>2
<1> QED
  BY <1>1, InvInvariant, PTL

(***************************************************************************)
(* So an accepted size is right from both sides.                           *)
(***************************************************************************)
THEOREM AcceptedIsRight == Spec => []SizeIsRight
BY AcceptedInRange, AcceptedIsSmallest, PTL DEF SizeIsRight
=============================================================================
