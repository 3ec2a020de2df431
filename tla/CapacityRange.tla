---------------------------- MODULE CapacityRange ----------------------------
(***************************************************************************)
(* extractStorage (pkg/driver/utils.go): the size of a new volume from the *)
(* CSI CapacityRange of the request, whose fields are signed and mean      *)
(* "unset" when they are not positive.  Sizes are counted in units of      *)
(* which GiB make a gibibyte.                                              *)
(***************************************************************************)
EXTENDS Integers

CONSTANTS
  GiB,
  Sizes       \* the values of required_bytes and limit_bytes that are tried

ASSUME GiBAssumption   == GiB \in Nat \ {0}
ASSUME SizesAssumption == Sizes \subseteq Int

VARIABLES
  capRange,   \* the request's range, NoRange when it has none
  size        \* the size extracted from it, 0 for an error, -1 before

vars == <<capRange, size>>

NoRange == [required |-> 0, limit |-> 0]
Invalid == 0
Pending == -1

minimumVolumeSizeInBytes == 1 * GiB
defaultVolumeSizeInBytes == 16 * GiB

\* Variant: the bounds are not compared with each other.
RejectedUnordered(required, limit) ==
  \/ 0 < required /\ ~(0 < limit) /\ required < minimumVolumeSizeInBytes
  \/ 0 < limit /\ limit < minimumVolumeSizeInBytes
  \/ 0 < limit /\ limit % GiB # 0
  \/ 0 < required /\ required % GiB # 0

\* The errors of extractStorage, in its order.
Rejected(required, limit) ==
  \/ 0 < required /\ 0 < limit /\ limit < required
  \/ 0 < required /\ ~(0 < limit) /\ required < minimumVolumeSizeInBytes
  \/ 0 < limit /\ limit < minimumVolumeSizeInBytes
  \/ 0 < limit /\ limit % GiB # 0
  \/ 0 < required /\ required % GiB # 0

\* Variant: the larger bound wins.
ExtractLimit(required, limit) ==
  CASE ~(0 < required) /\ ~(0 < limit) -> defaultVolumeSizeInBytes
    [] (0 < required \/ 0 < limit) /\ Rejected(required, limit) -> Invalid
    [] 0 < limit /\ ~Rejected(required, limit) -> limit
    [] 0 < required /\ ~(0 < limit) /\ ~Rejected(required, limit) -> required

\* A nil CapacityRange and one without bounds yield the default.
extractStorage(required, limit) ==
  CASE ~(0 < required) /\ ~(0 < limit) -> defaultVolumeSizeInBytes
    [] (0 < required \/ 0 < limit) /\ Rejected(required, limit) -> Invalid
    [] 0 < required /\ ~Rejected(required, limit) -> required
    [] ~(0 < required) /\ 0 < limit /\ ~Rejected(required, limit) -> limit

Init ==
  /\ capRange \in {NoRange} \cup [required : Sizes, limit : Sizes]
  /\ size = Pending

Extract ==
  /\ size = Pending
  /\ size' = extractStorage(capRange.required, capRange.limit)
  /\ UNCHANGED capRange

Next == Extract
Spec == Init /\ [][Next]_vars

-----------------------------------------------------------------------------
Answered == size # Pending
Accepted == Answered /\ size # Invalid

\* What CSI asks of a size: at least required_bytes, at most limit_bytes.
Satisfies(n) ==
  /\ 0 < capRange.required => capRange.required <= n
  /\ 0 < capRange.limit => n <= capRange.limit

(***************************************************************************)
(* A size that is accepted lies within the requested range and is at least *)
(* the minimum, although the minimum is compared with required_bytes only  *)
(* when there is no limit_bytes (utils.go:28-34).                          *)
(***************************************************************************)
SizeInRange == Accepted => Satisfies(size) /\ size >= minimumVolumeSizeInBytes

(***************************************************************************)
(* An accepted size is the smallest one in the range that TrueNAS can make *)
(* (a zvol of whole gibibytes), unless the request leaves it to the driver *)
(* or gives an upper bound only (utils.go:48-58).                          *)
(***************************************************************************)
SmallestSize ==
  Accepted /\ 0 < capRange.required
    => \A n \in minimumVolumeSizeInBytes..size :
         n % GiB = 0 /\ Satisfies(n) => n = size

(***************************************************************************)
(* Both together: no size that the request rules out is accepted, and no   *)
(* larger one than it asks for (utils.go:12-59).                           *)
(***************************************************************************)
SizeIsRight == SizeInRange /\ SmallestSize
=============================================================================
