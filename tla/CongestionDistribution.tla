------------------------- MODULE CongestionDistribution -------------------------
(***************************************************************************)
(* The congestion of a relay (CongestionDistribution in safest_ext.cc).  A *)
(* profile counts how often the congestion fell into each of its bins.     *)
(* The constructor shares 1000 buckets out among the bins, in order;       *)
(* sample() picks a bucket and then a value within its bin.  The counts    *)
(* are divided exactly here, as floating-point numbers in the code.        *)
(***************************************************************************)
EXTENDS Integers, Sequences
LOCAL INSTANCE Functions

CONSTANT
  Grain   \* parts of a millisecond that sample() tells apart, 1000 in the code

ASSUME GrainAssumption == Grain \in Nat \ {0}

Buckets == 1000

\* The bins are counted from 0.
Bin(profile) == 0..Len(profile.bins) - 1

TotalCount(profile) == SumFunction(profile.bins)

\* The buckets of a bin.
num_assigned_buckets(profile, i) ==
  (Buckets * profile.bins[i + 1]) \div TotalCount(profile)

\* The first bucket of a bin: those before it belong to the bins before it.
bin_start(profile, i) ==
  SumFunctionOnSet([k \in Bin(profile) |-> num_assigned_buckets(profile, k)], 0..i - 1)

bucket_selector(profile, bucket) ==
  {i \in Bin(profile) :
     bin_start(profile, i) <= bucket /\ bucket < bin_start(profile, i + 1)}

\* A profile has a bin, a sample in it, and not so many bins that sample() might draw a
\* bucket nobody filled; with 500 bins at least 500 buckets are filled.
IsProfile(profile) ==
  /\ profile.binsize \in Nat \ {0}
  /\ profile.bins \in Seq(Nat) /\ TotalCount(profile) > 0
  /\ Len(profile.bins) <= bin_start(profile, Len(profile.bins))

\* The buckets are full before the last bin: the constructor's assertion fails.
FullEarly(profile) ==
  \E i \in Bin(profile) :
    i < Len(profile.bins) - 1 /\ bin_start(profile, i + 1) = Buckets

\* The bins that sample() may pick: it draws one of the first bucket_count buckets, and
\* bucket_count is the number of bins.
Drawn(profile) == UNION {bucket_selector(profile, b) : b \in Bin(profile)}

\* What sample() may return, in grains.
sample(profile) ==
  LET width == Grain * profile.binsize
  IN  {width * bin + offset : bin \in Drawn(profile), offset \in 0..width - 1}
=============================================================================
