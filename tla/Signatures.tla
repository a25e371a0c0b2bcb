----------------------------- MODULE Signatures -----------------------------
(***************************************************************************)
(* Signatures as vectors of words (archetype/signature.rs), used as the     *)
(* operations on archetypes use them: the signature of a bundle is set bit *)
(* by bit, joined with or removed from that of a table, and looked up among *)
(* the tables there are.  A word is the set of its bits that are 1; the     *)
(* bitwise operations act on it as the operations on sets.                 *)
(***************************************************************************)
EXTENDS Integers, Sequences

CONSTANTS
  Width,         \* bits of a word: 64 in the code
  ComponentIds,  \* the IDs of component types
  MaxTables      \* bound on the tables

ASSUME SignatureAssumption ==
  Width \in Nat \ {0} /\ ComponentIds \subseteq Nat /\ MaxTables \in Nat

VARIABLES
  tables,  \* lookup_array: the signature of each table, and the keys of lookup
  bundle,  \* the signature of the bundle of the next operation
  removed  \* history: a signature has been removed from another

vars == <<tables, bundle, removed>>

Bits == 0 .. Width - 1
AllSignatures == Seq(SUBSET Bits)

Positions(sig) == {p \in (DOMAIN sig) \X Bits : p[2] \in sig[p[1]]}

\* Mutant: the bit is shifted by the whole ID.
PositionWide(id) == <<id \div Width + 1, id>>

Position(id) == <<id \div Width + 1, id % Width>>

-----------------------------------------------------------------------------
(* The operations.                                                          *)

\* SmallVec::resize with zeroes, to a length that is not shorter.
Resized(sig, n) == [i \in 1 .. n |-> IF i \in DOMAIN sig THEN sig[i] ELSE {}]

LongerLen(a, b) == IF Len(a) < Len(b) THEN Len(b) ELSE Len(a)

\* Signature::set.
SetBit(sig, id) ==
  LET at    == Position(id)
      grown == IF at[1] > Len(sig) THEN Resized(sig, at[1]) ELSE sig
  IN  [grown EXCEPT ![at[1]] = grown[at[1]] \union {at[2]}]

\* Mutant: the vector does not grow.
UnionZipped(a, b) == [i \in 1 .. Len(a) |-> IF i \in DOMAIN b THEN a[i] \union b[i] ELSE a[i]]

\* Signature::union.
UnionOf(a, b) ==
  LET grown == Resized(a, LongerLen(a, b))
  IN  [i \in DOMAIN grown |-> IF i \in DOMAIN b THEN grown[i] \union b[i] ELSE grown[i]]

\* Signature::remove.
Without(a, b) == [i \in DOMAIN a |-> IF i \in DOMAIN b THEN a[i] \ b[i] ELSE a[i]]

\* Mutant: one common bit in a word is enough.
ContainsSome(a, b) ==
  \A i \in DOMAIN a \intersect DOMAIN b : b[i] # {} => a[i] \intersect b[i] # {}

\* Signature::contains looks at the words that both have.
Contains(a, b) == \A i \in DOMAIN a \intersect DOMAIN b : b[i] \subseteq a[i]

\* Signature::is_disjoint.
IsDisjoint(a, b) == \A i \in DOMAIN a \intersect DOMAIN b : a[i] \intersect b[i] = {}

-----------------------------------------------------------------------------
(* The machine.                                                             *)

Init == tables = <<>> /\ bundle = <<>> /\ removed = FALSE

\* One round of get_or_assign_signature.
AddType(id) == bundle' = SetBit(bundle, id) /\ UNCHANGED <<tables, removed>>

Keys == {tables[k] : k \in DOMAIN tables}

\* Mutant: the table is added without being looked up.
UseNew(sig) ==
  /\ Len(tables) < MaxTables
  /\ tables' = Append(tables, sig)
  /\ bundle' = <<>>

\* The table with that signature is found, by comparing words, or added.
Use(sig) ==
  /\ tables' = IF sig \in Keys THEN tables ELSE Append(tables, sig)
  /\ Len(tables') <= MaxTables
  /\ bundle' = <<>>

Spawn == bundle # <<>> /\ Use(bundle) /\ UNCHANGED removed

\* A bundle that overlaps with the table is a todo! (new_joined_table), unless there is
\* a table for both.
Insert(sig) ==
  /\ bundle # <<>>
  /\ IsDisjoint(sig, bundle) \/ UnionOf(bundle, sig) \in Keys
  /\ Use(UnionOf(bundle, sig))
  /\ UNCHANGED removed

Remove(sig) ==
  /\ bundle # <<>>
  /\ \/ Contains(sig, bundle) /\ Use(Without(sig, bundle)) /\ removed' = TRUE
     \/ ~Contains(sig, bundle) /\ bundle' = <<>> /\ UNCHANGED <<tables, removed>>

Next ==
  \/ \E id \in ComponentIds : AddType(id)
  \/ Spawn
  \/ \E sig \in Keys : Insert(sig) \/ Remove(sig)

Spec == Init /\ [][Next]_vars

-----------------------------------------------------------------------------
TypeOK ==
  /\ tables \in Seq(AllSignatures)
  /\ bundle \in AllSignatures
  /\ removed \in BOOLEAN

\* What contains says of a table and a bundle is right, unless the bundle has more
\* words than the table: then the rest of the bundle is not looked at.
ContainsErrsBeyondWords ==
  \A sig \in Keys :
    Contains(sig, bundle) # (Positions(bundle) \subseteq Positions(sig)) =>
      Len(bundle) > Len(sig) /\ Contains(sig, bundle)

\* is_disjoint is right about any two signatures.
DisjointExact ==
  \A sig \in Keys :
    IsDisjoint(sig, bundle) <=> Positions(sig) \intersect Positions(bundle) = {}

\* Two tables have the same component types only after a removal, which leaves words
\* without bits that set and union would not have made.
OneTableUntilRemoval ==
  (\E i, j \in DOMAIN tables : i # j /\ Positions(tables[i]) = Positions(tables[j])) => removed

Promise == INSTANCE ComponentSets
  WITH ComponentIds <- {Position(id) : id \in ComponentIds},
       archetypes <- {Positions(sig) : sig \in Keys},
       bundle <- Positions(bundle)

\* contains says of the table that it has the bundle, and it has not.
Misjudged(sig) == Contains(sig, bundle) /\ ~(Positions(bundle) \subseteq Positions(sig))

\* A removal that contains misjudges: it should be refused, and takes away what the
\* table has of the bundle.
RemovesPart(sig) ==
  Misjudged(sig) /\ Remove(sig) /\ Promise!Use(Positions(sig) \ Positions(bundle))

\* The operations act on signatures as on sets, also with a bundle of more words than a
\* table has.  Only the removal of a bundle from a table that contains misjudges is not
\* the one on sets, and it does no more than RemovesPart.
ActsOnSets ==
  Promise!Init /\ [][(\E sig \in Keys : RemovesPart(sig)) \/ Promise!Next]_<<Promise!vars, vars>>

=============================================================================
