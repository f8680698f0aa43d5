------------------------------- MODULE TaskIds -------------------------------
(***************************************************************************)
(* Task identifiers: the text forms the handlers exchange and the          *)
(* allocation of the next sequential id.                                   *)
(*                                                                         *)
(* An id is a text.  The code tells apart only                             *)
(*   - how many `task:` kind prefixes the text starts with,                *)
(*   - the family, the letters before the digits ("TASK-", "REQ-"),        *)
(*   - the number the digits spell and how many digits spell it            *)
(*     ("TASK-7" and "TASK-007" are two ids, two rows, and one number).    *)
(* A text without digits ("garbage") is a family with no digits.           *)
(***************************************************************************)
EXTENDS Integers, FiniteSets, FiniteSetsExt

CONSTANTS
    Families,   \* what ids may have before their digits
    IdPrefix,   \* the family this store allocates from
    Pad,        \* digits a fresh id is zero-padded to
    U32Max      \* the largest number a u32 holds

ASSUME TaskIdsAssumption ==
    /\ IdPrefix \in Families
    /\ Pad \in Nat
    /\ U32Max \in Nat \ {0}

Id == [prefixes : Nat, family : Families, num : Nat, width : Nat]

-----------------------------------------------------------------------------
(* The two forms of an id.  Storage keeps whatever text it is given; the    *)
(* handlers strip one kind prefix off what a caller sends and add one to    *)
(* what they answer when there is none.                                     *)

StripKindPrefix(wire) ==
    [wire EXCEPT !.prefixes = IF @ = 0 THEN 0 ELSE @ - 1]

AddKindPrefix(bare) ==
    [bare EXCEPT !.prefixes = IF @ = 0 THEN 1 ELSE @]

-----------------------------------------------------------------------------
(* Allocation.                                                              *)

\* A u32 has at most ten digits.
Digits(n) == 1 + Cardinality({k \in 1 .. 9 : 10 ^ k <= n})

ZeroPadded(n) == [prefixes |-> 0, family |-> IdPrefix, num |-> n,
                  width |-> IF Pad > Digits(n) THEN Pad ELSE Digits(n)]

\* An id whose text is the prefix and then digits, of any size.
IsSequential(id) == id.prefixes = 0 /\ id.family = IdPrefix /\ id.width > 0

\* The numbers the allocator sees: those that parse as a u32.
ParsedSeqs(existing) ==
    {id.num : id \in {x \in existing : IsSequential(x) /\ x.num <= U32Max}}

\* Mistakes: counting rows instead of taking the largest; not stepping past it.
NextSeq_Count(seqs) == Cardinality(seqs) + 1
NextSeq_NoIncrement(seqs) == IF seqs = {} THEN 1 ELSE Max(seqs)

NextSeq(seqs) ==
    IF seqs = {} THEN 1
    ELSE IF Max(seqs) = U32Max THEN U32Max     \* saturating_add
    ELSE Max(seqs) + 1

NextSequentialId(existing) == ZeroPadded(NextSeq(ParsedSeqs(existing)))

\* The allocator has run out: the largest number is already taken.
Saturated(existing) == U32Max \in ParsedSeqs(existing)
=============================================================================
