---------------------------- MODULE AnchorSpec ----------------------------
(***************************************************************************)
(* Pointer-anchor records and the decision a reader takes on two copies    *)
(* (crate otp-anchor-spec).                                                *)
(*                                                                         *)
(* Abstractions: a 104-byte record is the tuple of the fields it encodes;  *)
(* a copy whose bytes fail the length, magic or SHA-256 check is Torn.     *)
(* The body hash of segment i is SegHash[i], an arbitrary function of the  *)
(* segment index (the book file is immutable).                             *)
(***************************************************************************)
EXTENDS Integers

CONSTANTS
    BookIds,        \* identifiers a record may carry
    SegmentCount,   \* segments of the book
    SegHash,        \* SegHash[i]: digest of the body of segment i
    Torn            \* contents of a copy that do not decode

\* The record types, with the tag values of the wire format.
Init_ == 0
Intent_ == 1
Commit_ == 2

\* arg is 0 for Init, the reserved segment for Intent, the hash for Commit.
Record == [book : BookIds, gen : Nat, tag : {Init_, Intent_, Commit_},
           next : Nat, arg : Nat]

Contents == Record \cup {Torn}

Copies == {"A", "B"}

ASSUME AnchorAssumption ==
    /\ SegmentCount \in Nat
    /\ SegHash \in [0 .. SegmentCount - 1 -> Nat]
    /\ Torn \notin Record

InitRecord(b) == [book |-> b, gen |-> 0, tag |-> Init_, next |-> 0, arg |-> 0]

IntentRecord(b, g, reserved) ==
    [book |-> b, gen |-> g, tag |-> Intent_, next |-> reserved + 1,
     arg |-> reserved]

CommitRecord(b, g, next, hash) ==
    [book |-> b, gen |-> g, tag |-> Commit_, next |-> next, arg |-> hash]

\* decode_and_verify accepts only canonical records.
Canonical(r) ==
    CASE r.tag = Init_   -> r.gen = 0 /\ r.next = 0
      [] r.tag = Intent_ -> r.next # 0 /\ r.arg + 1 = r.next
      [] r.tag = Commit_ -> r.next # 0

Decodes(x) == x # Torn /\ Canonical(x)

\* state_cmp: lexicographic on (generation, record type).
Before(r, s) == r.gen < s.gen \/ (r.gen = s.gen /\ r.tag < s.tag)

(***************************************************************************)
(* decide(a, b) on two copies that decode: both agree (Consistent), one is *)
(* newer and its pointer is not lower (AdoptHigher), or nothing can be     *)
(* proved about them.                                                      *)
(***************************************************************************)
Consistent(a, b) == a.book = b.book /\ ~Before(a, b) /\ ~Before(b, a) /\ a = b

AdoptsOver(hi, lo) == hi.book = lo.book /\ Before(lo, hi) /\ hi.next >= lo.next

Decidable(a, b) == Consistent(a, b) \/ AdoptsOver(a, b) \/ AdoptsOver(b, a)

\* Mutant of Adopted: the older of two decidable records wins.
AdoptedLower(a, b) == IF AdoptsOver(b, a) THEN a ELSE b

Adopted(a, b) == IF AdoptsOver(b, a) THEN b ELSE a

\* A COMMIT is believed only if it carries the hash of segment next - 1.
CommitVerified(r) ==
    r.tag = Commit_ => r.next - 1 \in DOMAIN SegHash /\ SegHash[r.next - 1] = r.arg
===========================================================================
