------------------------- MODULE ServiceImagesProofs -------------------------
(***************************************************************************)
(* The gallery of a service implements Gallery.tla and agrees with the     *)
(* object store, for any number of images and concurrent requests, with    *)
(* any statement or storage call failing.                                  *)
(***************************************************************************)
EXTENDS ServiceImages, FiniteSetTheorems, TLAPS

-----------------------------------------------------------------------------
(***************************************************************************)
(* Numbers and finite sets.                                                *)
(***************************************************************************)
LEMMA Smallest ==
    ASSUME NEW S \in SUBSET Nat, S # {}
    PROVE  \E m \in S : \A k \in S : m <= k
<1> DEFINE R == { ss \in Nat \X Nat : ss[1] < ss[2] }
<1>1. IsWellFoundedOn(R, Nat)
  BY NatLessThanWellFounded DEF OpToRel
<1> HIDE DEF R
<1>2. PICK m \in S : \A k \in S : ~ (<<k, m>> \in R)
  BY <1>1, WFMin
<1>3. \A k \in S : ~ (k < m)
  BY <1>2 DEF R
<1> QED
  BY <1>3

LEMMA AtMostOne ==
    ASSUME NEW S, IsFiniteSet(S)
    PROVE  Cardinality(S) <= 1 <=> \A i, j \in S : i = j
<1>1. CASE S = {}
  BY <1>1, FS_EmptySet
<1>2. CASE S # {}
  <2>1. PICK x : x \in S
    BY <1>2
  <2>2. IsFiniteSet({x}) /\ Cardinality({x}) = 1 /\ Cardinality(S) \in Nat
    BY FS_Singleton, FS_CardinalityType
  <2>3. ASSUME Cardinality(S) <= 1
        PROVE  S = {x}
    <3>1. Cardinality({x}) <= Cardinality(S) /\ (Cardinality(S) = Cardinality({x}) => S = {x})
      BY <2>1, FS_Subset
    <3> QED
      BY <2>2, <2>3, <3>1
  <2>4. ASSUME \A i, j \in S : i = j
        PROVE  Cardinality(S) <= 1
    <3>1. S = {x}
      BY <2>1, <2>4
    <3> QED
      BY <2>2, <3>1
  <2> QED
    BY <2>3, <2>4
<1> QED
  BY <1>1, <1>2

LEMMA ExactlyOne ==
    ASSUME NEW x
    PROVE  Cardinality({x}) = 1
BY FS_Singleton

\* A subset with one element fewer is smaller.
LEMMA Smaller ==
    ASSUME NEW S, IsFiniteSet(S), NEW T \in SUBSET S, NEW x \in S, x \notin T
    PROVE  Cardinality(T) \in Nat /\ Cardinality(S) \in Nat /\ Cardinality(T) < Cardinality(S)
<1>1. IsFiniteSet(T) /\ Cardinality(T) <= Cardinality(S) /\ Cardinality(S) # Cardinality(T)
  BY FS_Subset
<1>2. Cardinality(S) \in Nat /\ Cardinality(T) \in Nat
  BY <1>1, FS_CardinalityType
<1> QED
  BY <1>1, <1>2

-----------------------------------------------------------------------------
(***************************************************************************)
(* What the invariant says of the table and of one call.                   *)
(***************************************************************************)
LEMMA TableFacts ==
    ASSUME IInv
    PROVE  /\ rows \in [Images -> Row \cup {Absent}]
           /\ \A i \in Present(rows) : i \in Images /\ rows[i] \in Row /\ rows[i] # Absent
           /\ \A i \in Images \ Present(rows) : rows[i] = Absent
           /\ Primaries(rows) \subseteq Present(rows) /\ IsFiniteSet(Primaries(rows))
           /\ \A i, j \in Primaries(rows) : i = j
           /\ IsFiniteSet(Present(rows)) /\ Cardinality(Present(rows)) \in Nat
           /\ Present(rows) \subseteq used /\ objects \subseteq used /\ used \subseteq Images
           /\ stock \subseteq used
<1>1. TypeOK /\ IsFiniteSet(Present(rows)) /\ stock \subseteq used
  BY DEF IInv, GalleryKeepsShape
<1>2. Primaries(rows) \subseteq Present(rows)
  BY DEF Primaries
<1>3. IsFiniteSet(Primaries(rows)) /\ Cardinality(Present(rows)) \in Nat
  BY <1>1, <1>2, FS_Subset, FS_CardinalityType
<1>4. \A i, j \in Primaries(rows) : i = j
  BY <1>1, <1>3, AtMostOne DEF TypeOK
<1>5. \A i \in Present(rows) : i \in Images /\ rows[i] \in Row /\ rows[i] # Absent
  BY <1>1 DEF TypeOK, Present
<1>6. \A i \in Images \ Present(rows) : rows[i] = Absent
  BY DEF Present
<1> QED
  BY <1>1, <1>2, <1>3, <1>4, <1>5, <1>6 DEF TypeOK

LEMMA CallFacts ==
    ASSUME IInv, NEW r \in Calls
    PROVE  /\ calls = [q \in Calls |-> calls[q]]
           /\ CallOK(r) /\ UploadOK(r) /\ UnlinkOK(r) /\ LocksOK(r) /\ TransactionOK(r)
           /\ \/ calls[r].pc \in {"idle", "done", "describe", "unlink"}
              \/ calls[r].pc \in Uploading \/ calls[r].pc \in Transacting
           /\ calls[r].pc \in Uploading =>
                calls[r] \in [pc : Uploading, keys : Seq(Images), sort : Nat, primary : BOOLEAN]
           /\ calls[r].pc \in {"describe", "unlink"} =>
                calls[r] \in [pc : {"describe", "unlink"}, image : Images]
           /\ calls[r].pc \in Transacting =>
                DOMAIN calls[r].writes \subseteq Images /\ calls[r] \in Transaction(DOMAIN calls[r].writes)
<1>1. /\ calls = [q \in Calls |-> calls[q]]
      /\ CallOK(r) /\ UploadOK(r) /\ UnlinkOK(r) /\ LocksOK(r) /\ TransactionOK(r)
  BY DEF IInv
<1>2. CASE calls[r] \in Call
  BY <1>1, <1>2 DEF Call, Uploading, Transacting
<1>3. CASE \E written \in SUBSET Images : calls[r] \in Transaction(written)
  <2>1. PICK written \in SUBSET Images : calls[r] \in Transaction(written)
    BY <1>3
  <2>2. calls[r].pc \in Transacting /\ DOMAIN calls[r].writes = written
    BY <2>1 DEF Transaction
  <2> QED
    BY <1>1, <2>1, <2>2 DEF Uploading, Transacting
<1> QED
  BY <1>1, <1>2, <1>3 DEF CallOK

LEMMA WritesFacts ==
    ASSUME IInv, NEW r \in Calls
    PROVE  /\ DOMAIN Writes(r) \subseteq Present(rows)
           /\ calls[r].pc \in Transacting => Writes(r) = calls[r].writes
           /\ calls[r].pc \notin Transacting => DOMAIN Writes(r) = {}
           /\ \A i \in DOMAIN Writes(r) : Writes(r)[i] \in Row \cup {Absent}
           /\ \A i \in Images : /\ i \in DOMAIN Writes(r) => View(r)[i] = Writes(r)[i]
                                /\ i \notin DOMAIN Writes(r) => View(r)[i] = rows[i]
           /\ View(r) \in [Images -> Row \cup {Absent}]
<1>1. /\ calls[r].pc \in Transacting => Writes(r) = calls[r].writes
      /\ calls[r].pc \notin Transacting => DOMAIN Writes(r) = {}
  BY DEF Writes, NoWrites
<1>2. DOMAIN Writes(r) \subseteq Present(rows)
  BY CallFacts DEF LocksOK
<1>3. \A i \in DOMAIN Writes(r) : Writes(r)[i] \in Row \cup {Absent}
  <2>1. CASE calls[r].pc \in Transacting
    <3>1. calls[r].writes \in [DOMAIN calls[r].writes -> Row \cup {Absent}]
      BY <2>1, CallFacts DEF Transaction
    <3> QED
      BY <1>1, <2>1, <3>1
  <2>2. CASE calls[r].pc \notin Transacting
    BY <1>1, <2>2
  <2> QED
    BY <2>1, <2>2
<1>4. \A i \in Images : /\ i \in DOMAIN Writes(r) => View(r)[i] = Writes(r)[i]
                        /\ i \notin DOMAIN Writes(r) => View(r)[i] = rows[i]
  BY DEF View
<1>5. View(r) \in [Images -> Row \cup {Absent}]
  BY <1>3, TableFacts DEF View
<1> QED
  BY <1>1, <1>2, <1>3, <1>4, <1>5

\* Whoever gets its locks is alone with its rows.
LEMMA Uncontended ==
    ASSUME NEW r \in Calls, Granted(r), NEW i \in Needs(r), NEW q \in Calls \ {r}
    PROVE  i \notin DOMAIN Writes(q)
BY DEF Granted, Blocks

LEMMA NeedsFacts ==
    ASSUME NEW r \in Calls
    PROVE  /\ calls[r].pc = "clear" => Needs(r) = calls[r].targets
           /\ calls[r].pc = "set" => Needs(r) = {calls[r].next} \cup PrimaryEntries
           /\ calls[r].pc = "insert" /\ calls[r].primary => Needs(r) = PrimaryEntries
           /\ calls[r].pc = "sort" => Needs(r) = {Head(calls[r].order)}
           /\ calls[r].pc \in {"delete", "tx_delete"} => Needs(r) = {calls[r].image}
BY DEF Needs, At

\* The unique index makes whoever would add a primary row wait for whoever has
\* one pending.
LEMMA PendingIsAnEntry ==
    ASSUME IInv, NEW r \in Calls, Granted(r), PrimaryEntries \subseteq Needs(r),
           NEW q \in Calls \ {r}
    PROVE  Pending(q) = {}
<1> SUFFICES ASSUME NEW i \in Pending(q)
             PROVE  FALSE
  OBVIOUS
<1>1. i \in DOMAIN Writes(q) /\ Writes(q)[i] # Absent /\ Writes(q)[i].primary
  BY DEF Pending
<1>2. i \in Images
  BY <1>1, WritesFacts, TableFacts
<1>3. i \in PrimaryEntries
  BY <1>1, <1>2 DEF PrimaryEntries
<1> QED
  BY <1>1, <1>3, Uncontended

-----------------------------------------------------------------------------
(***************************************************************************)
(* What a step of one call leaves to the others.  l are the locals of the  *)
(* call after its step.                                                    *)
(***************************************************************************)
Undisturbed(r, l) ==
    /\ calls' = [calls EXCEPT ![r] = l]
    /\ stock' = stock /\ used \subseteq used' /\ doubted \subseteq doubted'
    /\ used' = stock => Present(rows') \subseteq Present(rows)
    /\ \A q \in Calls \ {r} :
         /\ \A i \in DOMAIN Writes(q) : rows'[i] = rows[i]
         /\ calls[q].pc \in Uploading =>
              \A i \in ToSet(calls[q].keys) :
                /\ rows[i] = Absent => rows'[i] = Absent
                /\ i \in objects /\ calls[q].pc # "compensate" => i \in objects'
                /\ l.pc = "unlink" /\ calls[q].pc # "compensate" => l.image # i
                /\ l.pc \in Uploading => i \notin ToSet(l.keys)
         /\ calls[q].pc = "unlink" => rows'[calls[q].image] = Absent

LEMMA OthersStep ==
    ASSUME IInv, NEW r \in Calls, NEW l, Undisturbed(r, l), NEW q \in Calls \ {r}
    PROVE  /\ calls' = [p \in Calls |-> calls'[p]] /\ calls'[r] = l /\ calls'[q] = calls[q]
           /\ CallOK(q)' /\ UploadOK(q)' /\ UnlinkOK(q)' /\ TransactionOK(q)'
<1>1. /\ calls' = [p \in Calls |-> calls'[p]] /\ calls'[r] = l
      /\ \A p \in Calls \ {r} : calls'[p] = calls[p]
  BY CallFacts DEF Undisturbed
<1>2. CallOK(q)'
  BY <1>1, CallFacts DEF CallOK
<1>3. UnlinkOK(q)'
  BY <1>1, CallFacts DEF UnlinkOK, At, Undisturbed
<1>4. UploadOK(q)'
  <2> SUFFICES ASSUME calls[q].pc \in Uploading
               PROVE  UploadOK(q)'
    BY <1>1 DEF UploadOK
  <2>1. /\ calls[q].keys \in Seq(Images) /\ calls[q].keys # << >> /\ IsInjective(calls[q].keys)
        /\ ToSet(calls[q].keys) \subseteq used \ stock
        /\ \A p \in Calls : p # q /\ calls[p].pc \in Uploading =>
              ToSet(calls[q].keys) \cap ToSet(calls[p].keys) = {}
        /\ calls[q].pc # "compensate" =>
              \A i \in ToSet(calls[q].keys) : rows[i] = Absent /\ ~Unlinking(i)
        /\ calls[q].pc = "insert" => Head(calls[q].keys) \in objects
        /\ calls[q].pc = "compensate" =>
              rows[Head(calls[q].keys)] = Absent \/ Head(calls[q].keys) \in doubted
    BY CallFacts DEF UploadOK
  <2>2. \A i \in ToSet(calls[q].keys) :
          /\ rows[i] = Absent => rows'[i] = Absent
          /\ i \in objects /\ calls[q].pc # "compensate" => i \in objects'
          /\ l.pc = "unlink" /\ calls[q].pc # "compensate" => l.image # i
          /\ l.pc \in Uploading => i \notin ToSet(l.keys)
    BY DEF Undisturbed
  <2>3. Head(calls[q].keys) \in ToSet(calls[q].keys)
    BY <2>1 DEF ToSet
  <2>4. \A p \in Calls : p # q /\ calls'[p].pc \in Uploading =>
              ToSet(calls[q].keys) \cap ToSet(calls'[p].keys) = {}
    BY <1>1, <2>1, <2>2
  <2>5. calls[q].pc # "compensate" => \A i \in ToSet(calls[q].keys) : ~Unlinking(i)'
    BY <1>1, <2>1, <2>2 DEF Unlinking, At
  <2> QED
    BY <1>1, <2>1, <2>2, <2>3, <2>4, <2>5 DEF UploadOK, Undisturbed
<1>5. TransactionOK(q)'
  <2>1. TransactionOK(q)
    BY CallFacts
  <2>2. CASE calls[q].pc \notin Transacting
    BY <1>1, <2>2 DEF TransactionOK, Transacting
  <2>3. CASE calls[q].pc \in Transacting
    <3>1. \A i \in DOMAIN calls[q].writes : rows'[i] = rows[i]
      BY <2>3, WritesFacts DEF Undisturbed
    <3>2. Flags(q, {}) => Flags(q, {})'
      BY <1>1, <3>1 DEF Flags
    <3>3. Places(q) => Places(q)'
      BY <1>1, <3>1 DEF Places
    <3>4. Promotes(q) => Promotes(q)'
      BY <1>1, <3>1 DEF Promotes, Flags
    <3>5. used' = stock' => used = stock /\ Present(rows)' \subseteq Present(rows)
      BY TableFacts DEF Undisturbed
    <3>6. Arranges(q) => Arranges(q)'
      BY <1>1, <3>3, <3>5 DEF Arranges
    <3>7. Removes(q) => Removes(q)'
      BY <1>1, <3>1 DEF Removes
    <3> QED
      BY <1>1, <2>1, <3>2, <3>3, <3>4, <3>5, <3>6, <3>7 DEF TransactionOK
  <2> QED
    BY <2>2, <2>3
<1> QED
  BY <1>1, <1>2, <1>3, <1>4, <1>5

\* w are the call's uncommitted writes after its step.
PendingIn(w) == { i \in DOMAIN w : w[i] # Absent /\ w[i].primary }

Locked(r, l, w) ==
    /\ l.pc \in Transacting => l.writes = w
    /\ l.pc \notin Transacting => w = NoWrites
    /\ DOMAIN w \subseteq Present(rows')
    /\ \A q \in Calls \ {r} :
         /\ DOMAIN Writes(q) \cap DOMAIN w = {}
         /\ DOMAIN Writes(q) \subseteq Present(rows')
         /\ Pending(q) # {} => Primaries(rows') \subseteq DOMAIN Writes(q)
    /\ PendingIn(w) # {} => /\ Primaries(rows') \subseteq DOMAIN w
                            /\ \A q \in Calls \ {r} : Pending(q) = {}
                            /\ \A i, j \in PendingIn(w) : i = j

LEMMA LocksStep ==
    ASSUME IInv, NEW r \in Calls, NEW l, Undisturbed(r, l), NEW w, Locked(r, l, w)
    PROVE  \A q \in Calls : LocksOK(q)'
<1>1. calls'[r] = l /\ \A q \in Calls \ {r} : calls'[q] = calls[q]
  BY CallFacts DEF Undisturbed
<1>2. Writes(r)' = w
  BY <1>1 DEF Locked, Writes, NoWrites
<1>3. \A q \in Calls \ {r} : Writes(q)' = Writes(q)
  BY <1>1 DEF Writes
<1>4. Pending(r)' = PendingIn(w) /\ \A q \in Calls \ {r} : Pending(q)' = Pending(q)
  BY <1>2, <1>3 DEF Pending, PendingIn
<1>5. LocksOK(r)'
  BY <1>2, <1>3, <1>4 DEF LocksOK, Locked
<1>6. ASSUME NEW q \in Calls \ {r}
      PROVE  LocksOK(q)'
  <2>1. LocksOK(q)
    BY CallFacts
  <2>2. Pending(q)' # {} => Pending(r)' = {}
    BY <1>4 DEF Locked
  <2>3. Pending(q)' # {} => /\ Primaries(rows)' \subseteq DOMAIN Writes(q)'
                            /\ \A p \in Calls : p # q => Pending(p)' = {}
                            /\ \A i, j \in Pending(q)' : i = j
    BY <1>3, <1>4, <2>1, <2>2 DEF LocksOK, Locked
  <2>4. /\ DOMAIN Writes(q)' \subseteq Present(rows)'
        /\ \A p \in Calls : p # q => DOMAIN Writes(p)' \cap DOMAIN Writes(q)' = {}
    BY <1>2, <1>3, <2>1 DEF LocksOK, Locked
  <2> QED
    BY <2>3, <2>4 DEF LocksOK
<1> QED
  BY <1>5, <1>6

\* A step preserves the invariant.
LEMMA AnyStep ==
    ASSUME IInv, NEW r \in Calls, NEW l, Undisturbed(r, l), NEW w, Locked(r, l, w),
           CallOK(r)', UploadOK(r)', UnlinkOK(r)', TransactionOK(r)',
           GalleryKeepsShape', RowHasObject', NoOrphan',
           IsFiniteSet(Present(rows'))
    PROVE  IInv'
<1>1. \A q \in Calls : CallOK(q)' /\ UploadOK(q)' /\ UnlinkOK(q)' /\ TransactionOK(q)'
  BY OthersStep
<1>2. \A q \in Calls : LocksOK(q)'
  BY LocksStep
<1>3. (calls = [q \in Calls |-> calls[q]])'
  BY CallFacts DEF Undisturbed
<1>4. (stock \subseteq used)'
  BY TableFacts DEF Undisturbed
<1> QED
  BY <1>1, <1>2, <1>3, <1>4 DEF IInv

-----------------------------------------------------------------------------
(***************************************************************************)
(* Steps that change neither table nor store.                              *)
(***************************************************************************)
LEMMA SameTable ==
    ASSUME IInv, UNCHANGED <<rows, objects, used, history>>, NEW r \in Calls, NEW l,
           calls' = [calls EXCEPT ![r] = l]
    PROVE  /\ calls'[r] = l /\ \A q \in Calls \ {r} : calls'[q] = calls[q]
           /\ Present(rows') = Present(rows) /\ Primaries(rows') = Primaries(rows)
           /\ GalleryKeepsShape' /\ RowHasObject' /\ IsFiniteSet(Present(rows'))
<1>1. rows' = rows /\ objects' = objects /\ used' = used /\ stock' = stock /\ doubted' = doubted
  BY DEF history
<1>2. GalleryKeepsShape /\ RowHasObject /\ IsFiniteSet(Present(rows))
  BY DEF IInv
<1>3. calls'[r] = l /\ \A q \in Calls \ {r} : calls'[q] = calls[q]
  BY CallFacts
<1> QED
  BY <1>1, <1>2, <1>3 DEF GalleryKeepsShape, TypeOK, OnePrimary, OrderIsTotal, RowHasObject

\* What a transaction may have written once r holds l.
OwnWrites(r, l, w) ==
    /\ l.pc \in Transacting => l.writes = w
    /\ l.pc \notin Transacting => w = NoWrites
    /\ DOMAIN w \subseteq Present(rows)
    /\ \A q \in Calls \ {r} : DOMAIN Writes(q) \cap DOMAIN w = {}
    /\ PendingIn(w) # {} => /\ Primaries(rows) \subseteq DOMAIN w
                            /\ \A q \in Calls \ {r} : Pending(q) = {}
                            /\ \A i, j \in PendingIn(w) : i = j

LEMMA ReadStep ==
    ASSUME IInv, UNCHANGED <<rows, objects, used, history>>, NEW r \in Calls, NEW l,
           calls' = [calls EXCEPT ![r] = l],
           calls[r].pc \notin {"insert", "compensate", "unlink"},
           l.pc \notin Uploading \cup {"unlink"},
           NEW w, OwnWrites(r, l, w), CallOK(r)', TransactionOK(r)'
    PROVE  IInv'
<1>1. /\ calls'[r] = l /\ \A q \in Calls \ {r} : calls'[q] = calls[q]
      /\ Present(rows') = Present(rows) /\ Primaries(rows') = Primaries(rows)
      /\ GalleryKeepsShape' /\ RowHasObject' /\ IsFiniteSet(Present(rows'))
  BY SameTable
<1>2. rows' = rows /\ objects' = objects /\ used' = used /\ stock' = stock /\ leaked' = leaked
      /\ doubted' = doubted
  BY DEF history
<1>3. Undisturbed(r, l)
  <2>1. \A q \in Calls : calls[q].pc = "unlink" => rows[calls[q].image] = Absent
    BY CallFacts DEF UnlinkOK, At
  <2> QED
    BY <1>1, <1>2, <2>1 DEF Undisturbed
<1>4. Locked(r, l, w)
  <2>1. \A q \in Calls \ {r} : LocksOK(q)
    BY CallFacts
  <2> QED
    BY <1>1, <2>1 DEF Locked, OwnWrites, LocksOK
<1>5. NoOrphan'
  <2>1. NoOrphan
    BY DEF IInv
  <2>2. \A i \in objects' \ (Present(rows') \cup leaked') :
          \E q \in Calls :
             \/ calls[q].pc \in {"insert", "compensate"} /\ Head(calls[q].keys) = i
             \/ calls[q].pc = "unlink" /\ calls[q].image = i
    BY <1>1, <1>2, <2>1 DEF NoOrphan, At
  <2>3. \A i \in objects' \ (Present(rows') \cup leaked') :
          \E q \in Calls :
             \/ calls'[q].pc \in {"insert", "compensate"} /\ Head(calls'[q].keys) = i
             \/ calls'[q].pc = "unlink" /\ calls'[q].image = i
    BY <1>1, <2>2
  <2> QED
    BY <2>3 DEF NoOrphan, At
<1>6. UploadOK(r)' /\ UnlinkOK(r)'
  BY <1>1 DEF UploadOK, UnlinkOK, At
<1> QED
  BY <1>1, <1>3, <1>4, <1>5, <1>6, AnyStep

\* A call begins, goes on or ends, and its transaction has written nothing.
LEMMA NothingWritten ==
    ASSUME NEW r, NEW l, l.pc \in Transacting => l.writes = NoWrites
    PROVE  OwnWrites(r, l, NoWrites)
BY DEF OwnWrites, NoWrites, PendingIn

LEMMA AnswerStep ==
    ASSUME IInv, UNCHANGED <<rows, objects, used, history>>, NEW r \in Calls,
           calls[r].pc \notin {"insert", "compensate", "unlink"},
           NEW code \in Codes, Answer(r, code)
    PROVE  IInv'
<1> DEFINE l == [pc |-> "done", code |-> code]
<1>1. calls' = [calls EXCEPT ![r] = l] /\ l.pc = "done" /\ l \in Call
  BY DEF Answer, Goto, Call
<1> HIDE DEF l
<1>2. calls'[r] = l
  BY <1>1, SameTable
<1>3. CallOK(r)' /\ TransactionOK(r)'
  BY <1>1, <1>2 DEF CallOK, TransactionOK, Call
<1>4. OwnWrites(r, l, NoWrites) /\ l.pc \notin Uploading \cup {"unlink"}
  BY <1>1, NothingWritten DEF Transacting, Uploading
<1> QED
  BY <1>1, <1>3, <1>4, ReadStep

\* A call that describes, or has no transaction yet, or one that has not
\* written.
LEMMA StartStep ==
    ASSUME IInv, UNCHANGED <<rows, objects, used, history>>, NEW r \in Calls,
           calls[r].pc \notin {"insert", "compensate", "unlink"}, NEW l,
           calls' = [calls EXCEPT ![r] = l],
           l \in Transaction({}), l.writes = NoWrites, l.pc \notin {"list", "commit", "set"},
           l.pc \in {"begin", "clear", "sort"} => l.then = "done",
           l.pc = "tx_delete" => l.then = "unlink",
           l.pc = "sort" => /\ l.order # << >> /\ IsInjective(l.order)
                            /\ used = stock => Present(rows) \subseteq ToSet(l.order)
    PROVE  IInv'
<1>1. l.pc \in Transacting /\ l.pc \notin Uploading \cup {"unlink"}
  BY DEF Transaction, Transacting, Uploading
<1>2. calls'[r] = l
  BY SameTable
<1>3. CallOK(r)'
  BY <1>2 DEF CallOK, Transaction
<1>4. TransactionOK(r)'
  <2>1. DOMAIN l.writes = {} /\ Cardinality({}) = 0
    BY FS_EmptySet DEF NoWrites
  <2>2. Places(r)'
    <3>1. { l.writes[i].sort : i \in DOMAIN l.writes } = 0 .. Cardinality(DOMAIN l.writes) - 1
      BY <2>1
    <3> QED
      BY <1>2, <2>1, <3>1 DEF Places
  <2> QED
    BY <1>2, <2>1, <2>2 DEF TransactionOK, history
<1>5. OwnWrites(r, l, NoWrites)
  BY NothingWritten
<1> QED
  BY <1>1, <1>3, <1>4, <1>5, ReadStep

-----------------------------------------------------------------------------
(***************************************************************************)
(* Requests that begin, and answers.                                       *)
(***************************************************************************)
LEMMA DeliverStep ==
    ASSUME IInv, NEW r \in Calls, Deliver(r)
    PROVE  IInv'
<1>1. /\ calls[r].pc = "done" /\ calls' = [calls EXCEPT ![r] = Idle]
      /\ UNCHANGED <<rows, objects, used, history>>
  BY DEF Deliver, At, Goto
<1>2. calls'[r] = Idle /\ Idle.pc = "idle" /\ Idle \in Call
  BY <1>1, SameTable DEF Idle, Call
<1>3. CallOK(r)' /\ TransactionOK(r)' /\ OwnWrites(r, Idle, NoWrites)
  BY <1>2, NothingWritten DEF CallOK, TransactionOK, Call, Transacting
<1> QED
  BY <1>1, <1>2, <1>3, ReadStep DEF Uploading

LEMMA CallDescribeStep ==
    ASSUME IInv, NEW r \in Calls, NEW i \in Images, CallDescribe(r, i)
    PROVE  IInv'
<1> DEFINE l == [pc |-> "describe", image |-> i]
<1>1. /\ calls[r].pc = "idle" /\ calls' = [calls EXCEPT ![r] = l]
      /\ UNCHANGED <<rows, objects, used, history>>
  BY DEF CallDescribe, At, Goto
<1>2. l.pc = "describe" /\ l \in Call
  BY DEF Call
<1> HIDE DEF l
<1>3. calls'[r] = l
  BY <1>1, SameTable
<1>4. CallOK(r)' /\ TransactionOK(r)' /\ OwnWrites(r, l, NoWrites)
  BY <1>2, <1>3, NothingWritten DEF CallOK, TransactionOK, Call, Transacting
<1> QED
  BY <1>1, <1>2, <1>4, ReadStep DEF Uploading

LEMMA UpdateAltTextStep ==
    ASSUME IInv, NEW r \in Calls, UpdateAltText(r)
    PROVE  IInv'
<1>1. /\ calls[r].pc \notin {"insert", "compensate", "unlink"}
      /\ UNCHANGED <<rows, objects, used, history>>
  BY DEF UpdateAltText, At
<1>2. Answer(r, "IMAGE_NOT_FOUND") \/ Answer(r, "OK")
  BY DEF UpdateAltText
<1>3. "IMAGE_NOT_FOUND" \in Codes /\ "OK" \in Codes
  BY DEF Codes
<1> QED
  BY <1>1, <1>2, <1>3, AnswerStep

LEMMA CallPromoteStep ==
    ASSUME IInv, NEW r \in Calls, NEW i \in Images, CallPromote(r, i)
    PROVE  IInv'
<1> DEFINE l == [pc |-> "begin", image |-> i, next |-> i, then |-> "done",
                 targets |-> {}, order |-> << >>, writes |-> NoWrites]
<1>1. calls[r].pc = "idle" /\ UNCHANGED <<rows, objects, used, history>>
  BY DEF CallPromote, At
<1>2. Refuse(r, "IMAGE_NOT_FOUND") \/ calls' = [calls EXCEPT ![r] = l]
  BY DEF CallPromote, Goto
<1>3. /\ l \in Transaction({}) /\ l.writes = NoWrites /\ l.pc = "begin" /\ l.then = "done"
  BY DEF Transaction, Transacting, NoWrites
<1> HIDE DEF l
<1>4. CASE calls' = [calls EXCEPT ![r] = l]
  BY <1>1, <1>3, <1>4, StartStep
<1>5. CASE Refuse(r, "IMAGE_NOT_FOUND")
  <2>1. calls[r].pc \notin {"insert", "compensate", "unlink"} /\ "IMAGE_NOT_FOUND" \in Codes
    BY <1>1 DEF Codes
  <2> QED
    BY <1>1, <1>5, <2>1, AnswerStep DEF Refuse
<1> QED
  BY <1>2, <1>4, <1>5

LEMMA CallDeleteStep ==
    ASSUME IInv, NEW r \in Calls, NEW i \in Images, CallDelete(r, i)
    PROVE  IInv'
<1> DEFINE at == IF rows[i].primary THEN "tx_delete" ELSE "delete"
           l == [pc |-> at, image |-> i, next |-> i, then |-> "unlink",
                 targets |-> {}, order |-> << >>, writes |-> NoWrites]
<1>1. calls[r].pc = "idle" /\ UNCHANGED <<rows, objects, used, history>>
  BY DEF CallDelete, At
<1>2. Refuse(r, "IMAGE_NOT_FOUND") \/ calls' = [calls EXCEPT ![r] = l]
  BY DEF CallDelete, Goto
<1>3. at = "tx_delete" \/ at = "delete"
  OBVIOUS
<1> HIDE DEF at
<1>4. /\ l \in Transaction({}) /\ l.writes = NoWrites /\ l.pc = at /\ l.then = "unlink"
  BY <1>3 DEF Transaction, Transacting, NoWrites
<1> HIDE DEF l
<1>5. CASE calls' = [calls EXCEPT ![r] = l]
  BY <1>1, <1>3, <1>4, <1>5, StartStep
<1>6. CASE Refuse(r, "IMAGE_NOT_FOUND")
  <2>1. calls[r].pc \notin {"insert", "compensate", "unlink"} /\ "IMAGE_NOT_FOUND" \in Codes
    BY <1>1 DEF Codes
  <2> QED
    BY <1>1, <1>6, <2>1, AnswerStep DEF Refuse
<1> QED
  BY <1>2, <1>5, <1>6

LEMMA ChooseTargetsStep ==
    ASSUME IInv, NEW r \in Calls, ChooseTargets(r)
    PROVE  IInv'
<1> DEFINE l == [calls[r] EXCEPT !.pc = "clear", !.targets = Primaries(rows)]
<1>1. /\ calls[r].pc = "begin" /\ calls' = [calls EXCEPT ![r] = l]
      /\ UNCHANGED <<rows, objects, used, history>>
  BY DEF ChooseTargets, At, Goto
<1>2. calls[r].writes = NoWrites /\ calls[r].then = "done" /\ calls[r] \in Transaction({})
  BY <1>1, CallFacts DEF TransactionOK, Transacting, NoWrites
<1>3. Primaries(rows) \subseteq Images
  BY TableFacts
<1>4. l \in Transaction({}) /\ l.writes = NoWrites /\ l.pc = "clear" /\ l.then = "done"
  BY <1>2, <1>3 DEF Transaction, Transacting
<1> HIDE DEF l
<1> QED
  BY <1>1, <1>4, StartStep

\* The listing of a reorder names every image once.
LEMMA CallReorderStep ==
    ASSUME IInv, NEW r \in Calls, CallReorder(r)
    PROVE  IInv'
<1>1. PICK order \in SetToSeqs(Present(rows)) :
        Goto(r, [pc |-> "sort", image |-> order[1], next |-> order[1], then |-> "done",
                 targets |-> {}, order |-> order, writes |-> NoWrites])
  BY DEF CallReorder
<1> DEFINE S == Present(rows)
           n == Cardinality(S)
           l == [pc |-> "sort", image |-> order[1], next |-> order[1], then |-> "done",
                 targets |-> {}, order |-> order, writes |-> NoWrites]
<1>2. /\ calls[r].pc = "idle" /\ S # {} /\ calls' = [calls EXCEPT ![r] = l]
      /\ UNCHANGED <<rows, objects, used, history>>
  BY <1>1 DEF CallReorder, At, Goto
<1>3. IsFiniteSet(S) /\ n \in Nat /\ n # 0 /\ S \subseteq Images
  BY <1>2, TableFacts, FS_EmptySet
<1>4. order \in [1 .. n -> S] /\ IsInjective(order) /\ DOMAIN order = 1 .. n
  BY DEF SetToSeqs, IsInjective
<1>5. S \subseteq ToSet(order)
  <2>1. order \in Injection(1 .. n, S)
    BY <1>4 DEF Injection
  <2>2. Cardinality(1 .. n) = n
    BY <1>3, FS_Interval
  <2>3. order \in Surjection(1 .. n, S)
    BY <1>3, <2>1, <2>2, FS_Injection
  <2> QED
    BY <1>4, <2>3 DEF Surjection, ToSet
<1>6. order \in Seq(Images) /\ order # << >> /\ order[1] \in Images
  <2>1. order \in Seq(S)
    BY <1>3, <1>4
  <2>2. Len(order) = n
    BY <1>3, <1>4, <2>1
  <2> QED
    BY <1>3, <1>4, <2>1, <2>2
<1>7. /\ l \in Transaction({}) /\ l.writes = NoWrites /\ l.pc = "sort" /\ l.then = "done"
      /\ l.order = order
  BY <1>6 DEF Transaction, Transacting, NoWrites
<1> HIDE DEF l
<1> QED
  BY <1>2, <1>4, <1>5, <1>6, <1>7, StartStep

-----------------------------------------------------------------------------
(***************************************************************************)
(* Failures.                                                               *)
(***************************************************************************)
\* The INSERT has failed: the object it stored is still the call's to remove.
LEMMA InsertFailed ==
    ASSUME IInv, UNCHANGED <<rows, objects, used, history>>, NEW r \in Calls,
           calls[r].pc = "insert", Goto(r, [calls[r] EXCEPT !.pc = "compensate"])
    PROVE  IInv'
<1> DEFINE l == [calls[r] EXCEPT !.pc = "compensate"]
<1>1. calls' = [calls EXCEPT ![r] = l]
  BY DEF Goto
<1>2. calls[r] \in [pc : Uploading, keys : Seq(Images), sort : Nat, primary : BOOLEAN]
  BY CallFacts DEF Uploading
<1>3. /\ l \in [pc : Uploading, keys : Seq(Images), sort : Nat, primary : BOOLEAN]
      /\ l.pc = "compensate" /\ l.keys = calls[r].keys
  BY <1>2 DEF Uploading
<1> HIDE DEF l
<1>4. /\ calls'[r] = l /\ \A q \in Calls \ {r} : calls'[q] = calls[q]
      /\ Present(rows') = Present(rows) /\ Primaries(rows') = Primaries(rows)
      /\ GalleryKeepsShape' /\ RowHasObject' /\ IsFiniteSet(Present(rows'))
  BY <1>1, SameTable
<1>5. rows' = rows /\ objects' = objects /\ used' = used /\ stock' = stock /\ leaked' = leaked
      /\ doubted' = doubted
  BY DEF history
<1>6. /\ l.keys # << >> /\ IsInjective(l.keys) /\ ToSet(l.keys) \subseteq used \ stock
      /\ \A q \in Calls : q # r /\ calls[q].pc \in Uploading =>
            ToSet(l.keys) \cap ToSet(calls[q].keys) = {}
      /\ rows[Head(l.keys)] = Absent
  <2>1. UploadOK(r)
    BY CallFacts
  <2>2. Head(l.keys) \in ToSet(l.keys)
    <3>1. l.keys # << >> /\ l.keys \in Seq(Images)
      BY <1>3, <2>1 DEF UploadOK, Uploading
    <3> QED
      BY <3>1 DEF ToSet
  <2> QED
    BY <1>3, <2>1, <2>2 DEF UploadOK, Uploading
<1>7. Undisturbed(r, l)
  <2>1. \A q \in Calls : calls[q].pc = "unlink" => rows[calls[q].image] = Absent
    BY CallFacts DEF UnlinkOK, At
  <2> QED
    BY <1>1, <1>3, <1>4, <1>5, <1>6, <2>1 DEF Undisturbed
<1>8. Locked(r, l, NoWrites)
  <2>1. \A q \in Calls \ {r} : LocksOK(q)
    BY CallFacts
  <2>2. l.pc \notin Transacting
    BY <1>3 DEF Transacting
  <2> QED
    BY <1>4, <2>1, <2>2 DEF Locked, LocksOK, NoWrites, PendingIn
<1>9. NoOrphan'
  <2>1. NoOrphan
    BY DEF IInv
  <2> QED
    BY <1>3, <1>4, <1>5, <2>1 DEF NoOrphan, At
<1>10. CallOK(r)' /\ UnlinkOK(r)' /\ TransactionOK(r)'
  BY <1>3, <1>4 DEF CallOK, Call, UnlinkOK, At, TransactionOK
<1>11. UploadOK(r)'
  BY <1>3, <1>4, <1>5, <1>6 DEF UploadOK
<1> QED
  BY <1>4, <1>7, <1>8, <1>9, <1>10, <1>11, AnyStep

LEMMA FailStep ==
    ASSUME IInv, NEW r \in Calls, Fail(r)
    PROVE  IInv'
<1>1. UNCHANGED <<rows, objects, used, history>>
  BY DEF Fail
<1>2. CASE calls[r].pc = "insert"
  BY <1>1, <1>2, InsertFailed DEF Fail, At
<1>3. CASE calls[r].pc # "insert"
  <2>1. calls[r].pc \notin {"insert", "compensate", "unlink"} /\ "INTERNAL_ERROR" \in Codes
    BY <1>3 DEF Fail, Codes
  <2>2. Answer(r, "INTERNAL_ERROR")
    BY <1>3 DEF Fail, At
  <2> QED
    BY <1>1, <2>1, <2>2, AnswerStep
<1> QED
  BY <1>2, <1>3

-----------------------------------------------------------------------------
(***************************************************************************)
(* Statements of a transaction.                                            *)
(***************************************************************************)
LEMMA WithFacts ==
    ASSUME NEW w, NEW i, NEW row
    PROVE  /\ DOMAIN With(w, i, row) = DOMAIN w \cup {i}
           /\ With(w, i, row)[i] = row
           /\ \A j \in DOMAIN w : j # i => With(w, i, row)[j] = w[j]
BY DEF With

LEMMA TailFacts ==
    ASSUME NEW S, NEW s \in Seq(S), s # << >>, IsInjective(s)
    PROVE  /\ Head(s) \in ToSet(s) /\ Head(s) \in S /\ ToSet(s) \subseteq S
           /\ Tail(s) \in Seq(S) /\ IsInjective(Tail(s))
           /\ ToSet(s) = {Head(s)} \cup ToSet(Tail(s)) /\ Head(s) \notin ToSet(Tail(s))
           /\ Len(s) = 1 <=> Tail(s) = << >>
<1>1. Head(s) = s[1] /\ Len(s) \in Nat /\ Len(s) >= 1 /\ DOMAIN s = 1 .. Len(s)
  OBVIOUS
<1>2. /\ Tail(s) \in Seq(S) /\ Len(Tail(s)) = Len(s) - 1 /\ DOMAIN Tail(s) = 1 .. Len(s) - 1
      /\ \A n \in 1 .. Len(s) - 1 : Tail(s)[n] = s[n + 1]
  OBVIOUS
<1>3. \A a, b \in 1 .. Len(s) : s[a] = s[b] => a = b
  BY <1>1 DEF IsInjective
<1>4. \A a, b \in 1 .. Len(s) - 1 : Tail(s)[a] = Tail(s)[b] => a = b
  <2> SUFFICES ASSUME NEW a \in 1 .. Len(s) - 1, NEW b \in 1 .. Len(s) - 1, Tail(s)[a] = Tail(s)[b]
               PROVE  a = b
    OBVIOUS
  <2>1. a + 1 \in 1 .. Len(s) /\ b + 1 \in 1 .. Len(s) /\ s[a + 1] = s[b + 1]
    BY <1>1, <1>2
  <2> QED
    BY <1>3, <2>1
<1>5. IsInjective(Tail(s))
  BY <1>2, <1>4 DEF IsInjective
<1>6. ASSUME NEW x \in ToSet(s)
      PROVE  x \in S /\ (x = Head(s) \/ x \in ToSet(Tail(s)))
  <2>1. PICK n \in 1 .. Len(s) : x = s[n]
    BY <1>1 DEF ToSet
  <2>2. x \in S
    BY <1>1, <2>1
  <2>3. CASE n = 1
    BY <1>1, <2>1, <2>2, <2>3
  <2>4. CASE n # 1
    <3>1. n - 1 \in 1 .. Len(s) - 1 /\ n - 1 + 1 = n
      BY <1>1, <2>1, <2>4
    <3>2. Tail(s)[n - 1] = x /\ n - 1 \in DOMAIN Tail(s)
      BY <1>2, <2>1, <3>1
    <3>3. x \in ToSet(Tail(s))
      BY <3>2 DEF ToSet
    <3> QED
      BY <2>2, <3>3
  <2> QED
    BY <2>3, <2>4
<1>7. ASSUME NEW x \in ToSet(Tail(s))
      PROVE  x \in ToSet(s) /\ x # Head(s)
  <2>1. PICK n \in 1 .. Len(s) - 1 : x = Tail(s)[n]
    BY <1>2 DEF ToSet
  <2>2. n + 1 \in 1 .. Len(s) /\ x = s[n + 1] /\ n + 1 # 1
    BY <1>1, <1>2, <2>1
  <2> QED
    BY <1>1, <1>3, <2>2 DEF ToSet
<1>8. Head(s) \in ToSet(s)
  BY <1>1 DEF ToSet
<1>9. Len(s) = 1 <=> Tail(s) = << >>
  BY <1>1, <1>2
<1>10. Head(s) \in S /\ ToSet(s) \subseteq S
  BY <1>6, <1>8
<1>11. ToSet(s) = {Head(s)} \cup ToSet(Tail(s)) /\ Head(s) \notin ToSet(Tail(s))
  BY <1>6, <1>7, <1>8
<1> QED
  BY <1>2, <1>5, <1>8, <1>9, <1>10, <1>11

LEMMA FirstIsPresent ==
    ASSUME NEW table \in [Images -> Row \cup {Absent}], Present(table) # {}
    PROVE  First(table) \in Present(table)
<1> DEFINE S == Present(table)
           sorts == { table[i].sort : i \in S }
<1>1. \A i \in S : i \in Nat /\ table[i].sort \in Nat
  BY ImagesAreOrdered DEF Present, Row
<1>2. sorts \in SUBSET Nat /\ sorts # {}
  BY <1>1
<1>3. PICK m \in sorts : \A k \in sorts : m <= k
  BY <1>2, Smallest
<1>4. { i \in S : table[i].sort = m } \in SUBSET Nat /\ { i \in S : table[i].sort = m } # {}
  BY <1>1, <1>3
<1>5. PICK i \in { i \in S : table[i].sort = m } : \A j \in { j \in S : table[j].sort = m } : i <= j
  BY <1>4, Smallest
<1>6. ASSUME NEW j \in S
      PROVE  \/ table[i].sort < table[j].sort
             \/ table[i].sort = table[j].sort /\ i <= j
  <2>1. table[i].sort = m /\ m <= table[j].sort /\ table[j].sort \in Nat /\ m \in Nat
    BY <1>1, <1>2, <1>3, <1>5
  <2> QED
    BY <1>5, <2>1
<1> QED
  BY <1>5, <1>6 DEF First

\* A transaction's statement has written w.
LEMMA StatementStep ==
    ASSUME IInv, UNCHANGED <<rows, objects, used, history>>, NEW r \in Calls,
           calls[r].pc \in Transacting, NEW l, calls' = [calls EXCEPT ![r] = l],
           NEW w, l \in Transaction(DOMAIN w), l.writes = w, OwnWrites(r, l, w),
           TransactionOK(r)'
    PROVE  IInv'
<1>1. calls'[r] = l /\ DOMAIN w \subseteq Images
  BY SameTable, TableFacts DEF OwnWrites
<1>2. l.pc \in Transacting
  BY DEF Transaction
<1>3. CallOK(r)'
  BY <1>1 DEF CallOK
<1>4. /\ calls[r].pc \notin {"insert", "compensate", "unlink"}
      /\ l.pc \notin Uploading \cup {"unlink"}
  BY <1>2 DEF Transacting, Uploading
<1> QED
  BY <1>3, <1>4, ReadStep

LEMMA ClearPrimaryStep ==
    ASSUME IInv, NEW r \in Calls, ClearPrimary(r)
    PROVE  IInv'
<1> DEFINE hit == calls[r].targets \cap Primaries(rows)
           w == [i \in hit |-> [rows[i] EXCEPT !.primary = FALSE]]
           l == [calls[r] EXCEPT !.pc = "set", !.writes = w]
<1>1. /\ calls[r].pc = "clear" /\ Granted(r) /\ calls' = [calls EXCEPT ![r] = l]
      /\ UNCHANGED <<rows, objects, used, history>>
  BY DEF ClearPrimary, At, Goto
<1>2. calls[r].pc \in Transacting
  BY <1>1 DEF Transacting
<1>3. calls[r] \in Transaction(DOMAIN calls[r].writes) /\ calls[r].then = "done"
  BY <1>1, <1>2, CallFacts DEF TransactionOK
<1>4. hit \subseteq Present(rows) /\ \A i \in hit : rows[i] \in Row
  BY TableFacts
<1>5. /\ DOMAIN w = hit /\ w \in [hit -> Row \cup {Absent}] /\ PendingIn(w) = {}
      /\ \A i \in hit : w[i] = [rows[i] EXCEPT !.primary = FALSE]
  BY <1>4 DEF PendingIn, Row
<1> HIDE DEF w
<1>6. /\ l.pc = "set" /\ l.writes = w /\ l.then = "done" /\ l \in Transaction(hit)
  BY <1>3, <1>5 DEF Transaction, Transacting
<1> HIDE DEF l
<1>7. OwnWrites(r, l, w)
  <2>1. \A q \in Calls \ {r} : DOMAIN Writes(q) \cap hit = {}
    BY <1>1, NeedsFacts, Uncontended
  <2> QED
    BY <1>4, <1>5, <1>6, <2>1 DEF OwnWrites, Transacting
<1>8. TransactionOK(r)'
  <2>1. calls'[r] = l /\ rows' = rows
    BY <1>1, SameTable
  <2>2. Flags(r, {})'
    <3>1. ASSUME NEW i \in hit
          PROVE  w[i] = [rows[i] EXCEPT !.primary = (i \in {})]
      <4>1. (i \in {}) = FALSE
        OBVIOUS
      <4> QED
        BY <1>5, <4>1
    <3> QED
      BY <1>5, <1>6, <2>1, <3>1 DEF Flags
  <2> QED
    BY <1>6, <2>1, <2>2 DEF TransactionOK
<1> QED
  BY <1>1, <1>2, <1>5, <1>6, <1>7, <1>8, StatementStep

\* SetPrimary makes the row primary, as the only one it can see.
LEMMA SetPrimaryWrites ==
    ASSUME IInv, NEW r \in Calls, UNCHANGED <<rows, objects, used, history>>,
           calls[r].pc = "set", Granted(r), View(r)[calls[r].next] # Absent,
           ~Conflicts(calls[r].next, View(r)),
           Goto(r, [calls[r] EXCEPT !.pc = "commit",
                      !.writes = With(@, calls[r].next,
                                      [View(r)[calls[r].next] EXCEPT !.primary = TRUE])])
    PROVE  IInv'
<1> DEFINE i == calls[r].next
           D == DOMAIN calls[r].writes
           row == [View(r)[i] EXCEPT !.primary = TRUE]
           w == With(calls[r].writes, i, row)
           l == [calls[r] EXCEPT !.pc = "commit", !.writes = w]
<1>1. calls' = [calls EXCEPT ![r] = l]
  BY DEF Goto
<1>2. /\ calls[r].pc \in Transacting /\ calls[r] \in Transaction(D) /\ Writes(r) = calls[r].writes
      /\ D \subseteq Present(rows) /\ i \in Images
  BY CallFacts, WritesFacts DEF Transacting, Transaction
<1>3. /\ \A j \in Images : j \in D => View(r)[j] = calls[r].writes[j]
      /\ \A j \in Images : j \notin D => View(r)[j] = rows[j]
      /\ View(r) \in [Images -> Row \cup {Absent}]
  BY <1>2, WritesFacts
<1>4. /\ View(r)[i] \in Row /\ row \in Row /\ row.primary = TRUE /\ row # Absent
      /\ i \in Present(rows)
  <2>1. View(r)[i] \in Row
    BY <1>2, <1>3
  <2>2. row \in Row /\ row.primary = TRUE
    BY <2>1 DEF Row
  <2> QED
    BY <1>2, <1>3, <2>1, <2>2, AbsentIsNoRow DEF Present
<1>5. /\ DOMAIN w = D \cup {i} /\ w[i] = row
      /\ \A j \in D : j # i => w[j] = calls[r].writes[j]
  BY DEF With
<1>6. w \in [D \cup {i} -> Row \cup {Absent}]
  BY <1>2, <1>4 DEF With, Transaction
<1> HIDE DEF w, row
<1>7. /\ l.pc = "commit" /\ l.writes = w /\ l.then = calls[r].then /\ l.image = calls[r].image
      /\ l.next = i /\ l \in Transaction(D \cup {i})
  BY <1>2, <1>6 DEF Transaction, Transacting
<1> HIDE DEF l
<1>8. \A j \in Images : View(r)[j] # Absent /\ View(r)[j].primary => j = i
  BY DEF Conflicts, Primaries, Present
<1>9. OwnWrites(r, l, w)
  <2>1. D \cup {i} \subseteq Present(rows) /\ Present(rows) \subseteq Images
    BY <1>2, <1>4, TableFacts
  <2>2. \A q \in Calls \ {r} : DOMAIN Writes(q) \cap (D \cup {i}) = {}
    <3>1. \A q \in Calls \ {r} : i \notin DOMAIN Writes(q)
      BY NeedsFacts, Uncontended
    <3>2. LocksOK(r)
      BY CallFacts
    <3> QED
      BY <1>2, <3>1, <3>2 DEF LocksOK
  <2>3. Primaries(rows) \subseteq D \cup {i}
    <3> SUFFICES ASSUME NEW j \in Primaries(rows), j \notin D
                 PROVE  j = i
      OBVIOUS
    <3>1. j \in Images /\ rows[j] # Absent /\ rows[j].primary
      BY TableFacts DEF Primaries
    <3> QED
      BY <1>3, <1>8, <3>1
  <2>4. \A q \in Calls \ {r} : Pending(q) = {}
    BY NeedsFacts, PendingIsAnEntry
  <2>5. \A j \in PendingIn(w) : j = i
    BY <1>3, <1>5, <1>8, <2>1 DEF PendingIn
  <2>6. l.pc \in Transacting
    BY <1>7 DEF Transacting
  <2> QED
    BY <1>5, <1>7, <2>1, <2>2, <2>3, <2>4, <2>5, <2>6 DEF OwnWrites
<1>10. TransactionOK(r)'
  <2>1. calls'[r] = l /\ rows' = rows
    BY <1>1, SameTable
  <2>2. TransactionOK(r)
    BY CallFacts
  <2>3. rows[i] \in Row
    BY <1>4, TableFacts
  <2>4. CASE calls[r].then = "done"
    <3>1. \A j \in D : calls[r].writes[j] = [rows[j] EXCEPT !.primary = (j \in {})]
      BY <2>2, <2>4 DEF TransactionOK, Flags
    <3>2. View(r)[i] = rows[i] \/ View(r)[i] = [rows[i] EXCEPT !.primary = FALSE]
      <4>1. (i \in {}) = FALSE
        OBVIOUS
      <4> QED
        BY <1>2, <1>3, <3>1, <4>1
    <3>3. row = [rows[i] EXCEPT !.primary = TRUE]
      BY <2>3, <3>2 DEF Row, row
    <3>4. \A j \in D \cup {i} : w[j] = [rows[j] EXCEPT !.primary = (j \in {i})]
      <4>1. w[i] = [rows[i] EXCEPT !.primary = (i \in {i})]
        BY <1>5, <3>3
      <4>2. \A j \in D : j # i => w[j] = [rows[j] EXCEPT !.primary = (j \in {i})]
        BY <1>5, <3>1
      <4> QED
        BY <4>1, <4>2
    <3>5. Promotes(r)'
      BY <1>5, <1>7, <2>1, <2>4, <3>4 DEF Promotes, Flags
    <3> QED
      BY <1>7, <2>1, <3>5 DEF TransactionOK
  <2>5. CASE calls[r].then = "unlink"
    <3>1. D = {calls[r].image} /\ calls[r].writes[calls[r].image] = Absent
      BY <2>2, <2>5 DEF TransactionOK
    <3>2. i # calls[r].image /\ i \notin D /\ View(r)[i] = rows[i]
      BY <1>2, <1>3, <3>1
    <3>3. w[calls[r].image] = Absent /\ w[i] = [rows[i] EXCEPT !.primary = TRUE]
      BY <1>5, <3>1, <3>2 DEF row
    <3>4. /\ l.then = "unlink" /\ DOMAIN w = {l.image, i} /\ w[l.image] = Absent
          /\ w[i] = [rows[i] EXCEPT !.primary = TRUE]
      BY <1>5, <1>7, <2>5, <3>1, <3>3
    <3>5. Removes(r)'
      <4>1. calls'[r].writes = w /\ calls'[r].then = "unlink" /\ calls'[r].image = l.image
        BY <1>7, <2>1, <3>4
      <4>2. \A j \in DOMAIN w \ {l.image} :
              DOMAIN w = {l.image, j} /\ w[j] = [rows'[j] EXCEPT !.primary = TRUE]
        BY <2>1, <3>4
      <4>3. l.image \in DOMAIN w
        BY <3>4
      <4> QED
        BY <3>4, <4>1, <4>2, <4>3 DEF Removes
    <3> QED
      BY <1>7, <2>1, <3>5 DEF TransactionOK
  <2> QED
    BY <1>2, <2>4, <2>5 DEF Transaction
<1> QED
  BY <1>1, <1>2, <1>5, <1>7, <1>9, <1>10, StatementStep

LEMMA SetPrimaryStep ==
    ASSUME IInv, NEW r \in Calls, SetPrimary(r)
    PROVE  IInv'
<1>1. /\ calls[r].pc = "set" /\ Granted(r) /\ UNCHANGED <<rows, objects, used, history>>
      /\ calls[r].pc \notin {"insert", "compensate", "unlink"}
  BY DEF SetPrimary, At
<1>2. CASE Answer(r, "IMAGE_NOT_FOUND") \/ Answer(r, "INTERNAL_ERROR")
  BY <1>1, <1>2, AnswerStep DEF Codes
<1>3. CASE ~(Answer(r, "IMAGE_NOT_FOUND") \/ Answer(r, "INTERNAL_ERROR"))
  BY <1>1, <1>3, SetPrimaryWrites DEF SetPrimary, Refuse
<1> QED
  BY <1>2, <1>3

LEMMA TxDeleteStep ==
    ASSUME IInv, NEW r \in Calls, TxDelete(r)
    PROVE  IInv'
<1> DEFINE i == calls[r].image
           w == With(calls[r].writes, i, Absent)
           l == [calls[r] EXCEPT !.pc = "list", !.writes = w]
<1>1. /\ calls[r].pc = "tx_delete" /\ Granted(r) /\ UNCHANGED <<rows, objects, used, history>>
      /\ calls[r].pc \notin {"insert", "compensate", "unlink"}
  BY DEF TxDelete, At
<1>2. \/ Answer(r, "IMAGE_NOT_FOUND")
      \/ rows[i] # Absent /\ calls' = [calls EXCEPT ![r] = l]
  BY DEF TxDelete, Refuse, Goto
<1>3. CASE Answer(r, "IMAGE_NOT_FOUND")
  BY <1>1, <1>3, AnswerStep DEF Codes
<1>4. CASE rows[i] # Absent /\ calls' = [calls EXCEPT ![r] = l]
  <2>1. /\ calls[r].pc \in Transacting /\ calls[r] \in Transaction({}) /\ calls[r].then = "unlink"
        /\ calls[r].writes = NoWrites
    BY <1>1, CallFacts DEF Transacting, TransactionOK, NoWrites
  <2>2. i \in Images /\ i \in Present(rows)
    BY <1>4, <2>1 DEF Transaction, Present
  <2>3. DOMAIN w = {i} /\ w[i] = Absent /\ w \in [{i} -> Row \cup {Absent}]
    BY <2>1 DEF With, NoWrites
  <2> HIDE DEF w
  <2>4. /\ l.pc = "list" /\ l.writes = w /\ l.then = "unlink" /\ l.image = i
        /\ l \in Transaction({i})
    BY <2>1, <2>3 DEF Transaction, Transacting
  <2> HIDE DEF l
  <2>5. OwnWrites(r, l, w)
    <3>1. \A q \in Calls \ {r} : DOMAIN Writes(q) \cap {i} = {}
      BY <1>1, NeedsFacts, Uncontended
    <3>2. PendingIn(w) = {} /\ l.pc \in Transacting
      BY <2>3, <2>4 DEF PendingIn, Transacting
    <3> QED
      BY <2>2, <2>3, <2>4, <3>1, <3>2 DEF OwnWrites
  <2>6. TransactionOK(r)'
    <3>1. calls'[r] = l
      BY <1>1, <1>4, SameTable
    <3> QED
      BY <2>3, <2>4, <3>1 DEF TransactionOK
  <2> QED
    BY <1>1, <1>4, <2>1, <2>3, <2>4, <2>5, <2>6, StatementStep
<1> QED
  BY <1>2, <1>3, <1>4

\* A transaction goes on without writing.
LEMMA WritesKept ==
    ASSUME IInv, NEW r \in Calls, calls[r].pc \in Transacting, NEW l,
           l.pc \in Transacting, l.writes = calls[r].writes
    PROVE  OwnWrites(r, l, calls[r].writes)
<1>1. LocksOK(r) /\ Writes(r) = calls[r].writes
  BY CallFacts, WritesFacts
<1>2. PendingIn(calls[r].writes) = Pending(r)
  BY <1>1 DEF PendingIn, Pending
<1> QED
  BY <1>1, <1>2 DEF OwnWrites, LocksOK

LEMMA ListRemainingStep ==
    ASSUME IInv, NEW r \in Calls, ListRemaining(r)
    PROVE  IInv'
<1>1. calls[r].pc = "list" /\ UNCHANGED <<rows, objects, used, history>>
  BY DEF ListRemaining, At
<1> DEFINE w == calls[r].writes
<1>2. /\ calls[r].pc \in Transacting /\ calls[r] \in Transaction(DOMAIN w)
      /\ calls[r].then = "unlink" /\ DOMAIN w = {calls[r].image} /\ w[calls[r].image] = Absent
  BY <1>1, CallFacts DEF Transacting, TransactionOK
<1>3. CASE Present(View(r)) = {}
  <2> DEFINE l == [calls[r] EXCEPT !.pc = "commit"]
  <2>1. calls' = [calls EXCEPT ![r] = l]
    BY <1>3 DEF ListRemaining, Goto
  <2>2. /\ l.pc = "commit" /\ l.writes = w /\ l.then = "unlink" /\ l.image = calls[r].image
        /\ l \in Transaction(DOMAIN w) /\ l.pc \in Transacting
    BY <1>2 DEF Transaction, Transacting
  <2> HIDE DEF l
  <2>3. calls'[r] = l /\ rows' = rows
    BY <1>1, <2>1, SameTable
  <2>4. Removes(r)'
    BY <1>2, <2>2, <2>3 DEF Removes
  <2>5. TransactionOK(r)'
    BY <2>2, <2>3, <2>4 DEF TransactionOK
  <2>6. OwnWrites(r, l, w)
    BY <1>2, <2>2, WritesKept
  <2> QED
    BY <1>1, <1>2, <2>1, <2>2, <2>5, <2>6, StatementStep
<1>4. CASE Present(View(r)) # {}
  <2> DEFINE l == [calls[r] EXCEPT !.pc = "set", !.next = First(View(r))]
  <2>1. calls' = [calls EXCEPT ![r] = l]
    BY <1>4 DEF ListRemaining, Goto
  <2>2. First(View(r)) \in Images
    BY <1>4, WritesFacts, FirstIsPresent DEF Present
  <2>3. /\ l.pc = "set" /\ l.writes = w /\ l.then = "unlink" /\ l.image = calls[r].image
        /\ l \in Transaction(DOMAIN w) /\ l.pc \in Transacting
    BY <1>2, <2>2 DEF Transaction, Transacting
  <2> HIDE DEF l
  <2>4. calls'[r] = l
    BY <1>1, <2>1, SameTable
  <2>5. TransactionOK(r)'
    BY <1>2, <2>3, <2>4 DEF TransactionOK
  <2>6. OwnWrites(r, l, w)
    BY <1>2, <2>3, WritesKept
  <2> QED
    BY <1>1, <1>2, <2>1, <2>3, <2>5, <2>6, StatementStep
<1> QED
  BY <1>3, <1>4

\* One more image has its place.
LEMMA SetSortOrderWrites ==
    ASSUME IInv, NEW r \in Calls, UNCHANGED <<rows, objects, used, history>>,
           calls[r].pc = "sort", Granted(r), View(r)[Head(calls[r].order)] # Absent,
           Goto(r, [calls[r] EXCEPT
                      !.pc = IF Len(calls[r].order) = 1 THEN "commit" ELSE "sort",
                      !.order = Tail(@),
                      !.writes = With(@, Head(calls[r].order),
                                      [View(r)[Head(calls[r].order)] EXCEPT
                                         !.sort = Cardinality(DOMAIN calls[r].writes)])])
    PROVE  IInv'
<1> DEFINE order == calls[r].order
           i == Head(order)
           D == DOMAIN calls[r].writes
           n == Cardinality(D)
           row == [View(r)[i] EXCEPT !.sort = n]
           w == With(calls[r].writes, i, row)
           at == IF Len(order) = 1 THEN "commit" ELSE "sort"
           l == [calls[r] EXCEPT !.pc = at, !.order = Tail(order), !.writes = w]
<1>1. calls' = [calls EXCEPT ![r] = l]
  BY DEF Goto
<1>2. /\ calls[r].pc \in Transacting /\ calls[r] \in Transaction(D) /\ Writes(r) = calls[r].writes
      /\ D \subseteq Present(rows) /\ order \in Seq(Images)
  BY CallFacts, WritesFacts DEF Transacting, Transaction
<1>3. /\ calls[r].then = "done" /\ order # << >> /\ IsInjective(order) /\ Places(r)
      /\ D \cap ToSet(order) = {}
      /\ used = stock => Present(rows) \subseteq D \cup ToSet(order)
  BY CallFacts DEF TransactionOK
<1>4. /\ i \in ToSet(order) /\ i \in Images /\ Tail(order) \in Seq(Images)
      /\ IsInjective(Tail(order)) /\ ToSet(order) = {i} \cup ToSet(Tail(order))
      /\ i \notin ToSet(Tail(order)) /\ (Len(order) = 1 <=> Tail(order) = << >>)
  BY <1>2, <1>3, TailFacts
<1>5. i \notin D /\ View(r)[i] = rows[i] /\ i \in Present(rows) /\ rows[i] \in Row
  BY <1>2, <1>3, <1>4, WritesFacts, TableFacts DEF Present
<1>6. IsFiniteSet(D) /\ n \in Nat /\ Cardinality(D \cup {i}) = n + 1
  BY <1>2, <1>5, TableFacts, FS_Subset, FS_CardinalityType, FS_AddElement
<1>7. row \in Row /\ row = [rows[i] EXCEPT !.sort = row.sort] /\ row.sort = n
      /\ row.primary = rows[i].primary /\ row # Absent
  <2>1. row \in Row /\ row = [rows[i] EXCEPT !.sort = row.sort] /\ row.sort = n
        /\ row.primary = rows[i].primary
    BY <1>5, <1>6 DEF Row
  <2> QED
    BY <2>1, AbsentIsNoRow
<1>8. /\ DOMAIN w = D \cup {i} /\ w[i] = row
      /\ \A j \in D : w[j] = calls[r].writes[j]
  BY <1>5 DEF With
<1>9. w \in [D \cup {i} -> Row \cup {Absent}]
  BY <1>2, <1>7 DEF With, Transaction
<1> HIDE DEF w, row
<1>10. (at = "commit" /\ Len(order) = 1) \/ (at = "sort" /\ Len(order) # 1)
  OBVIOUS
<1> HIDE DEF at
<1>11. /\ l.pc = at /\ l.writes = w /\ l.then = "done" /\ l.order = Tail(order)
       /\ l \in Transaction(D \cup {i})
  BY <1>2, <1>3, <1>4, <1>9, <1>10 DEF Transaction, Transacting
<1> HIDE DEF l
<1>12. \A j \in D : calls[r].writes[j] = [rows[j] EXCEPT !.sort = calls[r].writes[j].sort]
  BY <1>3 DEF Places
<1>13. \A j \in D \cup {i} : w[j] = [rows[j] EXCEPT !.sort = w[j].sort] /\ rows[j] \in Row
  BY <1>2, <1>5, <1>7, <1>8, <1>12, TableFacts
<1>14. \A j \in D : w[j].sort \in 0 .. n - 1
  <2>1. { calls[r].writes[j].sort : j \in D } = 0 .. n - 1
    BY <1>3 DEF Places
  <2> QED
    BY <1>8, <2>1
<1>15. OwnWrites(r, l, w)
  <2>1. D \cup {i} \subseteq Present(rows)
    BY <1>2, <1>5
  <2>2. \A q \in Calls \ {r} : DOMAIN Writes(q) \cap (D \cup {i}) = {}
    <3>1. \A q \in Calls \ {r} : i \notin DOMAIN Writes(q)
      BY NeedsFacts, Uncontended
    <3>2. LocksOK(r)
      BY CallFacts
    <3> QED
      BY <1>2, <3>1, <3>2 DEF LocksOK
  <2>3. PendingIn(w) \subseteq Primaries(rows)
    <3> SUFFICES ASSUME NEW j \in PendingIn(w)
                 PROVE  j \in Primaries(rows)
      OBVIOUS
    <3>1. j \in D \cup {i} /\ w[j].primary
      BY <1>8 DEF PendingIn
    <3>2. w[j].primary = rows[j].primary
      BY <1>13, <3>1 DEF Row
    <3> QED
      BY <2>1, <3>1, <3>2 DEF Primaries
  <2>4. PendingIn(w) \subseteq D \cup {i}
    BY <1>8 DEF PendingIn
  <2>5. ASSUME NEW j \in PendingIn(w)
        PROVE  /\ Primaries(rows) \subseteq D \cup {i}
               /\ \A q \in Calls \ {r} : Pending(q) = {}
               /\ \A a, b \in PendingIn(w) : a = b
    <3>1. \A a, b \in Primaries(rows) : a = b
      BY TableFacts
    <3>2. Primaries(rows) \subseteq D \cup {i}
      BY <2>3, <2>4, <3>1
    <3>3. ASSUME NEW q \in Calls \ {r}, Pending(q) # {}
          PROVE  FALSE
      <4>1. Primaries(rows) \subseteq DOMAIN Writes(q)
        BY <3>3, CallFacts DEF LocksOK
      <4> QED
        BY <2>2, <2>3, <2>4, <4>1
    <3> QED
      BY <2>3, <3>1, <3>2, <3>3
  <2>6. l.pc \in Transacting
    BY <1>10, <1>11 DEF Transacting
  <2> QED
    BY <1>8, <1>11, <2>1, <2>2, <2>5, <2>6 DEF OwnWrites
<1>16. TransactionOK(r)'
  <2>1. calls'[r] = l /\ rows' = rows /\ used' = used /\ stock' = stock
    BY <1>1, SameTable DEF history
  <2>2. \A j, k \in D \cup {i} : j # k => w[j].sort # w[k].sort
    <3>1. \A j, k \in D : j # k => w[j].sort # w[k].sort
      BY <1>3, <1>8 DEF Places
    <3>2. w[i].sort = n /\ n \notin 0 .. n - 1
      BY <1>6, <1>7, <1>8
    <3> QED
      BY <1>14, <3>1, <3>2
  <2>3. { w[j].sort : j \in D \cup {i} } = 0 .. Cardinality(D \cup {i}) - 1
    <3>1. { w[j].sort : j \in D } = 0 .. n - 1
      <4>1. { calls[r].writes[j].sort : j \in D } = 0 .. n - 1
        BY <1>3 DEF Places
      <4> QED
        BY <1>8, <4>1
    <3>2. { w[j].sort : j \in D \cup {i} } = { w[j].sort : j \in D } \cup {n}
      BY <1>7, <1>8
    <3>3. (0 .. n - 1) \cup {n} = 0 .. (n + 1) - 1
      BY <1>6
    <3> QED
      BY <1>6, <3>1, <3>2, <3>3
  <2>4. Places(r)'
    <3>1. calls'[r].writes = w /\ DOMAIN w = D \cup {i} /\ rows' = rows
      BY <1>8, <1>11, <2>1
    <3>2. \A j \in DOMAIN w : w[j] = [rows[j] EXCEPT !.sort = w[j].sort]
      BY <1>13, <3>1
    <3>3. \A j, k \in DOMAIN w : j # k => w[j].sort # w[k].sort
      BY <2>2, <3>1
    <3>4. { w[j].sort : j \in DOMAIN w } = 0 .. Cardinality(DOMAIN w) - 1
      BY <2>3, <3>1
    <3> QED
      BY <3>1, <3>2, <3>3, <3>4 DEF Places
  <2>5. (D \cup {i}) \cap ToSet(Tail(order)) = {}
    BY <1>3, <1>4
  <2>6. used = stock => Present(rows) \subseteq (D \cup {i}) \cup ToSet(Tail(order))
    BY <1>3, <1>4
  <2>7. CASE Len(order) = 1
    <3>1. ToSet(Tail(order)) = {}
      BY <1>4, <2>7 DEF ToSet
    <3>2. Arranges(r)'
      BY <1>8, <1>11, <2>1, <2>4, <2>6, <3>1 DEF Arranges
    <3> QED
      BY <1>10, <1>11, <2>1, <2>7, <3>2 DEF TransactionOK
  <2>8. CASE Len(order) # 1
    BY <1>4, <1>8, <1>10, <1>11, <2>1, <2>4, <2>5, <2>6, <2>8 DEF TransactionOK, Present
  <2> QED
    BY <2>7, <2>8
<1> QED
  BY <1>1, <1>2, <1>8, <1>11, <1>15, <1>16, StatementStep

LEMMA SetSortOrderStep ==
    ASSUME IInv, NEW r \in Calls, SetSortOrder(r)
    PROVE  IInv'
<1>1. /\ calls[r].pc = "sort" /\ Granted(r) /\ UNCHANGED <<rows, objects, used, history>>
      /\ calls[r].pc \notin {"insert", "compensate", "unlink"}
  BY DEF SetSortOrder, At
<1>2. CASE View(r)[Head(calls[r].order)] = Absent
  <2>1. Answer(r, "IMAGE_NOT_FOUND")
    BY <1>2 DEF SetSortOrder, Refuse
  <2> QED
    BY <1>1, <2>1, AnswerStep DEF Codes
<1>3. CASE View(r)[Head(calls[r].order)] # Absent
  BY <1>1, <1>3, SetSortOrderWrites DEF SetSortOrder
<1> QED
  BY <1>2, <1>3

-----------------------------------------------------------------------------
(***************************************************************************)
(* Steps that change the object store.                                     *)
(***************************************************************************)
\* The call that will settle what becomes of object i.
Settles(c, i) ==
    \/ c.pc \in {"insert", "compensate"} /\ Head(c.keys) = i
    \/ c.pc = "unlink" /\ c.image = i

LEMMA OrphansStep ==
    ASSUME IInv, NEW r \in Calls, NEW l, calls' = [calls EXCEPT ![r] = l],
           \A i \in objects' \ (Present(rows') \cup leaked') :
             \/ Settles(l, i)
             \/ i \in objects \ (Present(rows) \cup leaked) /\ ~Settles(calls[r], i)
    PROVE  NoOrphan'
<1>1. calls'[r] = l /\ \A q \in Calls \ {r} : calls'[q] = calls[q]
  BY CallFacts
<1>2. \A i \in objects \ (Present(rows) \cup leaked) : \E q \in Calls : Settles(calls[q], i)
  BY DEF IInv, NoOrphan, At, Settles
<1>3. \A i \in objects' \ (Present(rows') \cup leaked') : \E q \in Calls : Settles(calls'[q], i)
  BY <1>1, <1>2
<1> QED
  BY <1>3 DEF NoOrphan, At, Settles

LEMMA StoreStep ==
    ASSUME IInv, NEW r \in Calls, NEW l, calls' = [calls EXCEPT ![r] = l],
           UNCHANGED <<rows, stock, doubted>>, used \subseteq used', used' \subseteq Images,
           objects' \subseteq used', l \in Call, l.pc # "unlink",
           \A q \in Calls \ {r} : calls[q].pc \in Uploading =>
              \A i \in ToSet(calls[q].keys) :
                /\ i \in objects /\ calls[q].pc # "compensate" => i \in objects'
                /\ l.pc \in Uploading => i \notin ToSet(l.keys),
           UploadOK(r)', RowHasObject', NoOrphan'
    PROVE  IInv'
<1>1. calls'[r] = l /\ \A q \in Calls \ {r} : calls'[q] = calls[q]
  BY CallFacts
<1>2. l.pc \notin Transacting
  BY DEF Call, Uploading, Transacting
<1>3. Undisturbed(r, l)
  <2>1. \A q \in Calls : calls[q].pc = "unlink" => rows[calls[q].image] = Absent
    BY CallFacts DEF UnlinkOK, At
  <2> QED
    BY <2>1 DEF Undisturbed
<1>4. Locked(r, l, NoWrites)
  <2>1. \A q \in Calls \ {r} : LocksOK(q)
    BY CallFacts
  <2> QED
    BY <1>2, <2>1 DEF Locked, LocksOK, NoWrites, PendingIn
<1>5. GalleryKeepsShape' /\ IsFiniteSet(Present(rows'))
  <2>1. GalleryKeepsShape /\ IsFiniteSet(Present(rows)) /\ stock \subseteq used
    BY DEF IInv
  <2>2. used' = stock' => used = stock
    BY <2>1
  <2>3. Present(rows') = Present(rows) /\ Primaries(rows') = Primaries(rows)
    OBVIOUS
  <2>4. TypeOK'
    BY <2>1, <2>3 DEF GalleryKeepsShape, TypeOK
  <2>5. OnePrimary' /\ OrderIsTotal'
    BY <2>1, <2>2, <2>3 DEF GalleryKeepsShape, OnePrimary, OrderIsTotal
  <2> QED
    BY <2>1, <2>3, <2>4, <2>5 DEF GalleryKeepsShape
<1>6. CallOK(r)' /\ UnlinkOK(r)' /\ TransactionOK(r)'
  BY <1>1, <1>2 DEF CallOK, UnlinkOK, At, TransactionOK, Transacting
<1> QED
  BY <1>3, <1>4, <1>5, <1>6, AnyStep

\* What the invariant says of an upload.
LEMMA UploadFacts ==
    ASSUME IInv, NEW r \in Calls, calls[r].pc \in Uploading
    PROVE  /\ calls[r] \in [pc : Uploading, keys : Seq(Images), sort : Nat, primary : BOOLEAN]
           /\ calls[r].keys # << >> /\ IsInjective(calls[r].keys)
           /\ ToSet(calls[r].keys) \subseteq used \ stock
           /\ Head(calls[r].keys) \in ToSet(calls[r].keys) /\ Head(calls[r].keys) \in Images
           /\ \A q \in Calls : q # r /\ calls[q].pc \in Uploading =>
                ToSet(calls[r].keys) \cap ToSet(calls[q].keys) = {}
           /\ calls[r].pc # "compensate" =>
                \A i \in ToSet(calls[r].keys) : rows[i] = Absent /\ ~Unlinking(i)
           /\ calls[r].pc = "insert" => Head(calls[r].keys) \in objects
           /\ calls[r].pc = "compensate" =>
                rows[Head(calls[r].keys)] = Absent \/ Head(calls[r].keys) \in doubted
<1>1. UploadOK(r) /\ calls[r] \in [pc : Uploading, keys : Seq(Images), sort : Nat, primary : BOOLEAN]
  BY CallFacts
<1>2. calls[r].keys \in Seq(Images) /\ calls[r].keys # << >> /\ IsInjective(calls[r].keys)
  BY <1>1 DEF UploadOK
<1>3. Head(calls[r].keys) \in ToSet(calls[r].keys) /\ Head(calls[r].keys) \in Images
  BY <1>2, TailFacts
<1> QED
  BY <1>1, <1>2, <1>3 DEF UploadOK

LEMMA CallUploadStep ==
    ASSUME IInv, NEW r \in Calls, CallUpload(r)
    PROVE  IInv'
<1>1. /\ calls[r].pc = "idle" /\ UNCHANGED <<rows, objects, history>>
      /\ calls[r].pc \notin {"insert", "compensate", "unlink"}
  BY DEF CallUpload, At
<1>2. PICK n \in 1 .. MaxBatch : \E keys \in { k \in [1 .. n -> Images \ used] : IsInjective(k) } :
         IF WithinLimit(Cardinality(Present(rows)), n)
         THEN /\ Goto(r, [pc |-> "store", keys |-> keys,
                          sort |-> Cardinality(Present(rows)),
                          primary |-> Primaries(rows) = {}])
              /\ used' = used \cup ToSet(keys)
         ELSE /\ Refuse(r, "VALIDATION_FAILED")
              /\ UNCHANGED used
  BY DEF CallUpload
<1>3. PICK keys \in { k \in [1 .. n -> Images \ used] : IsInjective(k) } :
         IF WithinLimit(Cardinality(Present(rows)), n)
         THEN /\ Goto(r, [pc |-> "store", keys |-> keys,
                          sort |-> Cardinality(Present(rows)),
                          primary |-> Primaries(rows) = {}])
              /\ used' = used \cup ToSet(keys)
         ELSE /\ Refuse(r, "VALIDATION_FAILED")
              /\ UNCHANGED used
  BY <1>2
<1>4. CASE ~WithinLimit(Cardinality(Present(rows)), n)
  <2>1. Answer(r, "VALIDATION_FAILED") /\ UNCHANGED <<rows, objects, used, history>>
    BY <1>1, <1>3, <1>4 DEF Refuse
  <2> QED
    BY <1>1, <2>1, AnswerStep DEF Codes
<1>5. CASE WithinLimit(Cardinality(Present(rows)), n)
  <2> DEFINE none == Primaries(rows) = {}
             l == [pc |-> "store", keys |-> keys, sort |-> Cardinality(Present(rows)),
                   primary |-> none]
  <2>1. calls' = [calls EXCEPT ![r] = l] /\ used' = used \cup ToSet(keys)
    BY <1>3, <1>5 DEF Goto
  <2>2. none \in BOOLEAN
    OBVIOUS
  <2> HIDE DEF none
  <2>3. n \in Nat /\ n >= 1 /\ keys \in [1 .. n -> Images \ used] /\ IsInjective(keys)
    BY LimitsAreNat
  <2>4. /\ keys \in Seq(Images) /\ keys # << >> /\ ToSet(keys) \subseteq Images
        /\ ToSet(keys) \cap used = {}
    <3>1. keys \in Seq(Images \ used) /\ Len(keys) = n /\ DOMAIN keys = 1 .. n
      BY <2>3
    <3>2. ToSet(keys) \subseteq Images \ used
      BY <2>3, <3>1 DEF ToSet
    <3> QED
      BY <2>3, <3>1, <3>2
  <2>5. l \in Call /\ l.pc = "store" /\ l.keys = keys
    BY <2>2, <2>4, TableFacts DEF Call, Uploading
  <2> HIDE DEF l
  <2>6. calls'[r] = l /\ \A q \in Calls \ {r} : calls'[q] = calls[q]
    BY <2>1, CallFacts
  <2>7. rows' = rows /\ objects' = objects /\ leaked' = leaked /\ doubted' = doubted /\ stock' = stock
    BY <1>1 DEF history
  <2>8. /\ \A q \in Calls \ {r} : calls[q].pc \in Uploading => ToSet(calls[q].keys) \subseteq used
        /\ \A q \in Calls : calls[q].pc = "unlink" => calls[q].image \in used
    <3>1. \A q \in Calls : UnlinkOK(q)
      BY CallFacts
    <3> QED
      BY <3>1, UploadFacts DEF UnlinkOK, At
  <2>9. UploadOK(r)'
    <3>1. \A i \in ToSet(keys) : rows[i] = Absent
      BY <2>4, TableFacts
    <3>2. \A i \in ToSet(keys) : ~Unlinking(i)'
      BY <2>4, <2>5, <2>6, <2>8 DEF Unlinking, At
    <3>3. \A q \in Calls : q # r /\ calls'[q].pc \in Uploading =>
             ToSet(keys) \cap ToSet(calls'[q].keys) = {}
      BY <2>4, <2>6, <2>8
    <3>4. ToSet(keys) \subseteq used' \ stock'
      BY <2>1, <2>4, <2>7, TableFacts
    <3> QED
      BY <2>3, <2>4, <2>5, <2>6, <2>7, <3>1, <3>2, <3>3, <3>4 DEF UploadOK
  <2>10. NoOrphan'
    BY <1>1, <2>1, <2>7, OrphansStep DEF Settles
  <2>11. RowHasObject'
    BY <2>7 DEF IInv, RowHasObject
  <2>12. used \subseteq used' /\ used' \subseteq Images /\ objects' \subseteq used'
    BY <2>1, <2>4, <2>7, TableFacts
  <2>13. \A q \in Calls \ {r} : calls[q].pc \in Uploading =>
            \A i \in ToSet(calls[q].keys) :
              /\ i \in objects /\ calls[q].pc # "compensate" => i \in objects'
              /\ l.pc \in Uploading => i \notin ToSet(l.keys)
    BY <2>4, <2>5, <2>7, <2>8
  <2> QED
    BY <2>1, <2>5, <2>7, <2>9, <2>10, <2>11, <2>12, <2>13, StoreStep
<1> QED
  BY <1>4, <1>5

LEMMA StoreObjectStep ==
    ASSUME IInv, NEW r \in Calls, StoreObject(r)
    PROVE  IInv'
<1> DEFINE k == Head(calls[r].keys)
           l == [calls[r] EXCEPT !.pc = "insert"]
<1>1. /\ calls[r].pc = "store" /\ calls[r].pc \in Uploading
      /\ calls' = [calls EXCEPT ![r] = l] /\ objects' = objects \cup {k}
      /\ rows' = rows /\ used' = used /\ stock' = stock /\ leaked' = leaked /\ doubted' = doubted
  BY DEF StoreObject, At, Goto, PutObject, history, Uploading
<1>2. calls[r] \in [pc : Uploading, keys : Seq(Images), sort : Nat, primary : BOOLEAN]
  BY <1>1, UploadFacts
<1>3. l \in Call /\ l.pc = "insert" /\ l.keys = calls[r].keys
  BY <1>2 DEF Call, Uploading
<1> HIDE DEF l
<1>4. calls'[r] = l /\ \A q \in Calls \ {r} : calls'[q] = calls[q]
  BY <1>1, CallFacts
<1>5. UploadOK(r)'
  <2>1. \A i \in ToSet(l.keys) : rows[i] = Absent /\ ~Unlinking(i)
    BY <1>1, <1>3, UploadFacts
  <2>2. \A i \in ToSet(l.keys) : ~Unlinking(i)'
    BY <1>3, <1>4, <2>1 DEF Unlinking, At
  <2>3. /\ l.keys # << >> /\ IsInjective(l.keys) /\ ToSet(l.keys) \subseteq used \ stock
        /\ \A q \in Calls : q # r /\ calls'[q].pc \in Uploading =>
              ToSet(l.keys) \cap ToSet(calls'[q].keys) = {}
    BY <1>1, <1>3, <1>4, UploadFacts
  <2> QED
    BY <1>1, <1>3, <1>4, <2>1, <2>2, <2>3 DEF UploadOK
<1>6. RowHasObject'
  BY <1>1 DEF IInv, RowHasObject
<1>7. NoOrphan'
  BY <1>1, <1>3, OrphansStep DEF Settles
<1>8. used \subseteq used' /\ used' \subseteq Images /\ objects' \subseteq used'
  BY <1>1, UploadFacts, TableFacts
<1>9. \A q \in Calls \ {r} : calls[q].pc \in Uploading =>
          \A i \in ToSet(calls[q].keys) :
            /\ i \in objects /\ calls[q].pc # "compensate" => i \in objects'
            /\ l.pc \in Uploading => i \notin ToSet(l.keys)
  BY <1>1, <1>3, UploadFacts
<1> QED
  BY <1>1, <1>3, <1>5, <1>6, <1>7, <1>8, <1>9, StoreStep

\* An upload or a deletion ends, whatever has become of its object k.
LEMMA ObjectAnswer ==
    ASSUME IInv, NEW r \in Calls, NEW code \in Codes, Answer(r, code),
           UNCHANGED <<rows, used, stock, doubted>>, NEW k,
           k \in used, k \notin Present(rows) \/ k \in doubted \/ k \in objects',
           \A q \in Calls \ {r} : calls[q].pc \in Uploading \ {"compensate"} =>
              k \notin ToSet(calls[q].keys) \/ k \in objects',
           \A i \in objects' \ {k} : i \in objects, \A i \in objects \ {k} : i \in objects',
           leaked \subseteq leaked', k \in objects' => k \in leaked',
           \A i : Settles(calls[r], i) => i = k
    PROVE  IInv'
<1> DEFINE l == [pc |-> "done", code |-> code]
<1>1. calls' = [calls EXCEPT ![r] = l] /\ l.pc = "done" /\ l \in Call
  BY DEF Answer, Goto, Call
<1> HIDE DEF l
<1>2. calls'[r] = l
  BY <1>1, CallFacts
<1>3. UploadOK(r)'
  BY <1>1, <1>2 DEF UploadOK, Uploading
<1>4. RowHasObject'
  BY DEF IInv, RowHasObject
<1>5. NoOrphan'
  BY <1>1, OrphansStep
<1>6. used \subseteq used' /\ used' \subseteq Images /\ objects' \subseteq used'
  BY TableFacts
<1>7. \A q \in Calls \ {r} : calls[q].pc \in Uploading =>
          \A i \in ToSet(calls[q].keys) :
            /\ i \in objects /\ calls[q].pc # "compensate" => i \in objects'
            /\ l.pc \in Uploading => i \notin ToSet(l.keys)
  BY <1>1 DEF Uploading
<1> QED
  BY <1>1, <1>3, <1>4, <1>5, <1>6, <1>7, StoreStep

LEMMA LoseObjectStep ==
    ASSUME IInv, NEW r \in Calls, LoseObject(r)
    PROVE  IInv'
<1> DEFINE k == Head(calls[r].keys)
<1>1. /\ calls[r].pc = "store" /\ calls[r].pc \in Uploading /\ Answer(r, "INTERNAL_ERROR")
      /\ objects' = objects \cup {k} /\ leaked' = leaked \cup {k}
      /\ UNCHANGED <<rows, used, stock, doubted>>
  BY DEF LoseObject, At, PutObject, Uploading
<1>2. k \in used
  BY <1>1, UploadFacts
<1>3. \A i : ~Settles(calls[r], i)
  BY <1>1 DEF Settles
<1> QED
  BY <1>1, <1>2, <1>3, ObjectAnswer DEF Codes

LEMMA CompensateStep ==
    ASSUME IInv, NEW r \in Calls, Compensate(r)
    PROVE  IInv'
<1> DEFINE k == Head(calls[r].keys)
<1>1. /\ calls[r].pc = "compensate" /\ calls[r].pc \in Uploading /\ Answer(r, "INTERNAL_ERROR")
      /\ \/ objects' = objects \ {k} /\ leaked' = leaked
         \/ leaked' = leaked \cup {k} /\ objects' = objects
      /\ UNCHANGED <<rows, used, stock, doubted>>
  BY DEF Compensate, At, RemoveObject, Uploading
<1>2. /\ k \in used /\ (k \notin Present(rows) \/ k \in doubted)
      /\ \A q \in Calls \ {r} : calls[q].pc \in Uploading => k \notin ToSet(calls[q].keys)
  <2>1. /\ k \in ToSet(calls[r].keys) /\ ToSet(calls[r].keys) \subseteq used \ stock
        /\ rows[k] = Absent \/ k \in doubted
    BY <1>1, UploadFacts
  <2>2. \A q \in Calls \ {r} : calls[q].pc \in Uploading =>
           ToSet(calls[r].keys) \cap ToSet(calls[q].keys) = {}
    BY <1>1, UploadFacts
  <2> QED
    BY <2>1, <2>2 DEF Present
<1>3. \A i : Settles(calls[r], i) => i = k
  BY <1>1 DEF Settles
<1> QED
  BY <1>1, <1>2, <1>3, ObjectAnswer DEF Codes

LEMMA UnlinkStep ==
    ASSUME IInv, NEW r \in Calls, Unlink(r)
    PROVE  IInv'
<1> DEFINE k == calls[r].image
<1>1. /\ calls[r].pc = "unlink" /\ Answer(r, "OK")
      /\ \/ objects' = objects \ {k} /\ leaked' = leaked
         \/ leaked' = leaked \cup {k} /\ objects' = objects
      /\ UNCHANGED <<rows, used, stock, doubted>>
  BY DEF Unlink, At, RemoveObject
<1>2. k \in used /\ k \notin Present(rows) /\ Unlinking(k)
  BY <1>1, CallFacts DEF UnlinkOK, At, Present, Unlinking
<1>3. \A q \in Calls \ {r} : calls[q].pc \in Uploading \ {"compensate"} => k \notin ToSet(calls[q].keys)
  BY <1>2, UploadFacts
<1>4. \A i : Settles(calls[r], i) => i = k
  BY <1>1 DEF Settles
<1> QED
  BY <1>1, <1>2, <1>3, <1>4, ObjectAnswer DEF Codes

LEMMA DieStep ==
    ASSUME IInv, NEW r \in Calls, Die(r)
    PROVE  IInv'
<1> DEFINE k == IF calls[r].pc = "unlink" THEN calls[r].image ELSE Head(calls[r].keys)
<1>1. /\ calls[r].pc \in {"insert", "compensate", "unlink"} /\ Answer(r, "INTERNAL_ERROR")
      /\ leaked' = leaked \cup {k}
      /\ UNCHANGED <<rows, objects, used, stock, doubted>>
  BY DEF Die, At
<1>2. CASE calls[r].pc \in {"insert", "compensate"}
  <2>1. calls[r].pc \in Uploading /\ k = Head(calls[r].keys)
    BY <1>2 DEF Uploading
  <2>2. /\ k \in ToSet(calls[r].keys) /\ ToSet(calls[r].keys) \subseteq used \ stock
        /\ calls[r].pc = "insert" => rows[k] = Absent
        /\ calls[r].pc = "compensate" => rows[k] = Absent \/ k \in doubted
        /\ \A q \in Calls \ {r} : calls[q].pc \in Uploading =>
              ToSet(calls[r].keys) \cap ToSet(calls[q].keys) = {}
    BY <1>2, <2>1, UploadFacts
  <2>3. /\ k \in used /\ (k \notin Present(rows) \/ k \in doubted)
        /\ \A q \in Calls \ {r} : calls[q].pc \in Uploading => k \notin ToSet(calls[q].keys)
    BY <1>2, <2>2 DEF Present
  <2>4. \A i : Settles(calls[r], i) => i = k
    BY <1>2, <2>1 DEF Settles
  <2> HIDE DEF k
  <2> QED
    BY <1>1, <2>3, <2>4, ObjectAnswer DEF Codes
<1>3. CASE calls[r].pc = "unlink"
  <2>1. k = calls[r].image
    BY <1>3
  <2>2. k \in used /\ k \notin Present(rows) /\ Unlinking(k)
    BY <1>3, <2>1, CallFacts DEF UnlinkOK, At, Present, Unlinking
  <2>3. \A q \in Calls \ {r} : calls[q].pc \in Uploading \ {"compensate"} => k \notin ToSet(calls[q].keys)
    BY <2>2, UploadFacts
  <2>4. \A i : Settles(calls[r], i) => i = k
    BY <1>3, <2>1 DEF Settles
  <2> HIDE DEF k
  <2> QED
    BY <1>1, <2>2, <2>3, <2>4, ObjectAnswer DEF Codes
<1> QED
  BY <1>1, <1>2, <1>3

-----------------------------------------------------------------------------
(***************************************************************************)
(* Steps that change the table.                                            *)
(***************************************************************************)
\* The INSERT takes effect; l is what its call does next.
LEMMA Insertion ==
    ASSUME IInv, NEW r \in Calls, calls[r].pc = "insert", Granted(r),
           ~(calls[r].primary /\ Conflicts(Head(calls[r].keys), rows)), Inserted(r),
           NEW l, calls' = [calls EXCEPT ![r] = l], l \in Call, l.pc # "unlink",
           UNCHANGED <<objects, used, stock, leaked>>, doubted \subseteq doubted',
           l.pc \in Uploading => ToSet(l.keys) \subseteq ToSet(calls[r].keys),
           UploadOK(r)'
    PROVE  IInv'
<1> DEFINE k == Head(calls[r].keys)
           row == [sort |-> calls[r].sort, primary |-> calls[r].primary]
<1>1. /\ k \in ToSet(calls[r].keys) /\ k \in Images /\ k \in used \ stock /\ rows[k] = Absent
      /\ ~Unlinking(k) /\ k \in objects
      /\ \A q \in Calls : q # r /\ calls[q].pc \in Uploading =>
            ToSet(calls[r].keys) \cap ToSet(calls[q].keys) = {}
  BY UploadFacts DEF Uploading
<1>2. row \in Row /\ row # Absent /\ row.primary = calls[r].primary
  <2>1. row \in Row
    BY UploadFacts DEF Row, Uploading
  <2> QED
    BY <2>1, AbsentIsNoRow
<1>3. rows' = [rows EXCEPT ![k] = row]
  BY DEF Inserted
<1> HIDE DEF row
<1>4. /\ rows' \in [Images -> Row \cup {Absent}] /\ rows'[k] = row
      /\ \A i \in Images \ {k} : rows'[i] = rows[i]
  BY <1>1, <1>2, <1>3, TableFacts
<1>5. Present(rows') = Present(rows) \cup {k} /\ k \notin Present(rows)
  BY <1>1, <1>2, <1>4 DEF Present
<1>6. calls[r].primary => Primaries(rows) = {} /\ \A q \in Calls \ {r} : Pending(q) = {}
  <2>1. ASSUME calls[r].primary
        PROVE  \A q \in Calls \ {r} : Pending(q) = {}
    BY <2>1, NeedsFacts, PendingIsAnEntry
  <2>2. k \notin Primaries(rows)
    BY <1>5 DEF Primaries
  <2> QED
    BY <2>1, <2>2 DEF Conflicts
<1>7. Primaries(rows') = IF calls[r].primary THEN {k} ELSE Primaries(rows)
  <2>1. \A i \in Images \ {k} : i \in Primaries(rows') <=> i \in Primaries(rows)
    BY <1>4 DEF Primaries, Present
  <2>2. k \in Primaries(rows') <=> calls[r].primary
    BY <1>2, <1>4, <1>5 DEF Primaries
  <2>3. Primaries(rows) \subseteq Images /\ Primaries(rows') \subseteq Images /\ k \notin Primaries(rows)
    BY <1>1, <1>5 DEF Primaries, Present
  <2>4. CASE calls[r].primary
    BY <1>6, <2>1, <2>2, <2>3, <2>4
  <2>5. CASE ~calls[r].primary
    BY <2>1, <2>2, <2>3, <2>5
  <2> QED
    BY <2>4, <2>5
<1>8. calls'[r] = l /\ \A q \in Calls \ {r} : calls'[q] = calls[q]
  BY CallFacts
<1>9. l.pc \notin Transacting
  BY DEF Call, Uploading, Transacting
<1>10. Undisturbed(r, l)
  <2>1. \A q \in Calls : DOMAIN Writes(q) \subseteq Present(rows) /\ Present(rows) \subseteq Images
    BY WritesFacts, TableFacts
  <2>2. \A q \in Calls : \A i \in DOMAIN Writes(q) : rows'[i] = rows[i]
    BY <1>4, <1>5, <2>1
  <2>3. \A q \in Calls \ {r} : calls[q].pc \in Uploading =>
           k \notin ToSet(calls[q].keys) /\ ToSet(calls[q].keys) \subseteq Images
    BY <1>1, UploadFacts, TableFacts
  <2>4. \A q \in Calls : calls[q].pc = "unlink" =>
           calls[q].image # k /\ calls[q].image \in Images /\ rows[calls[q].image] = Absent
    BY <1>1, CallFacts, TableFacts DEF UnlinkOK, At, Unlinking
  <2>5. \A q \in Calls : calls[q].pc = "unlink" => rows'[calls[q].image] = Absent
    BY <1>4, <2>4
  <2>6. ASSUME NEW q \in Calls \ {r}, calls[q].pc \in Uploading, NEW i \in ToSet(calls[q].keys)
        PROVE  /\ rows[i] = Absent => rows'[i] = Absent
               /\ i \in objects /\ calls[q].pc # "compensate" => i \in objects'
               /\ l.pc = "unlink" /\ calls[q].pc # "compensate" => l.image # i
               /\ l.pc \in Uploading => i \notin ToSet(l.keys)
    BY <1>1, <1>4, <2>3, <2>6
  <2>7. used' = stock => Present(rows') \subseteq Present(rows)
    BY <1>1
  <2> QED
    BY <2>2, <2>5, <2>6, <2>7 DEF Undisturbed
<1>11. Locked(r, l, NoWrites)
  <2>1. \A q \in Calls \ {r} : LocksOK(q)
    BY CallFacts
  <2>2. \A q \in Calls \ {r} : Pending(q) # {} => Primaries(rows') \subseteq DOMAIN Writes(q)
    BY <1>6, <1>7, <2>1 DEF LocksOK
  <2> QED
    BY <1>5, <1>9, <2>1, <2>2 DEF Locked, LocksOK, NoWrites, PendingIn
<1>12. IsFiniteSet(Present(rows'))
  BY <1>5, TableFacts, FS_AddElement
<1>13. GalleryKeepsShape'
  <2>1. used' # stock'
    BY <1>1
  <2>2. IsFiniteSet(Primaries(rows'))
    BY <1>12, FS_Subset DEF Primaries
  <2>3. \A i, j \in Primaries(rows') : i = j
    BY <1>7, TableFacts
  <2>4. Cardinality(Primaries(rows')) <= 1
    BY <2>2, <2>3, AtMostOne
  <2>5. Present(rows') \subseteq used' /\ objects' \subseteq used' /\ used' \subseteq Images
    BY <1>1, <1>5, TableFacts
  <2>6. TypeOK'
    BY <1>4, <2>4, <2>5 DEF TypeOK
  <2> QED
    BY <2>1, <2>6 DEF GalleryKeepsShape, OnePrimary, OrderIsTotal
<1>14. RowHasObject'
  BY <1>1, <1>5 DEF IInv, RowHasObject
<1>15. NoOrphan'
  BY <1>5, OrphansStep DEF Settles
<1>16. CallOK(r)' /\ UnlinkOK(r)' /\ TransactionOK(r)'
  BY <1>8, <1>9 DEF CallOK, UnlinkOK, At, TransactionOK, Transacting
<1> QED
  BY <1>10, <1>11, <1>12, <1>13, <1>14, <1>15, <1>16, AnyStep

LEMMA InsertRowStep ==
    ASSUME IInv, NEW r \in Calls, InsertRow(r)
    PROVE  IInv'
<1> DEFINE c == calls[r]
<1>1. /\ c.pc = "insert" /\ c.pc \in Uploading /\ Granted(r) /\ UNCHANGED <<objects, used, history>>
  BY DEF InsertRow, At, Uploading
<1>2. CASE c.primary /\ Conflicts(Head(c.keys), rows)
  <2>1. UNCHANGED <<rows, objects, used, history>> /\ Goto(r, [c EXCEPT !.pc = "compensate"])
    BY <1>1, <1>2 DEF InsertRow
  <2> QED
    BY <1>1, <2>1, InsertFailed
<1>3. CASE ~(c.primary /\ Conflicts(Head(c.keys), rows))
  <2>1. /\ Inserted(r)
        /\ IF Len(c.keys) = 1
           THEN Answer(r, "OK")
           ELSE Goto(r, [c EXCEPT !.pc = "store", !.keys = Tail(c.keys),
                                  !.sort = c.sort + 1, !.primary = FALSE])
    BY <1>3 DEF InsertRow
  <2>2. UNCHANGED <<objects, used, stock, leaked>> /\ doubted \subseteq doubted'
    BY <1>1 DEF history
  <2>3. CASE Len(c.keys) = 1
    <3> DEFINE l == [pc |-> "done", code |-> "OK"]
    <3>1. calls' = [calls EXCEPT ![r] = l] /\ l.pc = "done" /\ l \in Call
      BY <2>1, <2>3 DEF Answer, Goto, Call, Codes
    <3> HIDE DEF l
    <3>2. calls'[r] = l
      BY <3>1, CallFacts
    <3>3. UploadOK(r)' /\ l.pc \notin Uploading
      BY <3>1, <3>2 DEF UploadOK, Uploading
    <3> QED
      BY <1>1, <1>3, <2>1, <2>2, <3>1, <3>3, Insertion
  <2>4. CASE Len(c.keys) # 1
    <3> DEFINE l == [c EXCEPT !.pc = "store", !.keys = Tail(c.keys),
                              !.sort = c.sort + 1, !.primary = FALSE]
    <3>1. calls' = [calls EXCEPT ![r] = l]
      BY <2>1, <2>4 DEF Goto
    <3>2. /\ c \in [pc : Uploading, keys : Seq(Images), sort : Nat, primary : BOOLEAN]
          /\ c.keys # << >> /\ IsInjective(c.keys) /\ c.keys \in Seq(Images)
          /\ ToSet(c.keys) \subseteq used \ stock
      BY <1>1, UploadFacts
    <3>3. /\ Tail(c.keys) \in Seq(Images) /\ Tail(c.keys) # << >> /\ IsInjective(Tail(c.keys))
          /\ ToSet(c.keys) = {Head(c.keys)} \cup ToSet(Tail(c.keys))
          /\ Head(c.keys) \notin ToSet(Tail(c.keys))
      BY <2>4, <3>2, TailFacts
    <3>4. l \in Call /\ l.pc = "store" /\ l.keys = Tail(c.keys)
      <4>1. c.sort + 1 \in Nat /\ "store" \in Uploading
        BY <3>2 DEF Uploading
      <4>2. /\ l \in [pc : Uploading, keys : Seq(Images), sort : Nat, primary : BOOLEAN]
            /\ l.pc = "store" /\ l.keys = Tail(c.keys)
        BY <3>2, <3>3, <4>1
      <4> QED
        BY <4>2 DEF Call
    <3> HIDE DEF l
    <3>5. calls'[r] = l /\ \A q \in Calls \ {r} : calls'[q] = calls[q]
      BY <3>1, CallFacts
    <3>6. \A i \in ToSet(l.keys) : rows'[i] = Absent
      <4>1. \A i \in ToSet(l.keys) : i \in Images /\ i # Head(c.keys) /\ rows[i] = Absent
        BY <1>1, <3>2, <3>3, <3>4, UploadFacts, TableFacts
      <4> QED
        BY <2>1, <4>1, TableFacts DEF Inserted
    <3>7. \A i \in ToSet(l.keys) : ~Unlinking(i)'
      <4>1. \A i \in ToSet(l.keys) : ~Unlinking(i)
        BY <1>1, <3>3, <3>4, UploadFacts
      <4> QED
        BY <3>4, <3>5, <4>1 DEF Unlinking, At
    <3>8. \A q \in Calls : q # r /\ calls'[q].pc \in Uploading =>
             ToSet(l.keys) \cap ToSet(calls'[q].keys) = {}
      <4>1. \A q \in Calls : q # r /\ calls[q].pc \in Uploading =>
             ToSet(c.keys) \cap ToSet(calls[q].keys) = {}
        BY <1>1, UploadFacts
      <4> QED
        BY <3>3, <3>4, <3>5, <4>1
    <3>9. UploadOK(r)'
      BY <2>2, <3>2, <3>3, <3>4, <3>5, <3>6, <3>7, <3>8 DEF UploadOK
    <3> QED
      BY <1>1, <1>3, <2>1, <2>2, <3>1, <3>3, <3>4, <3>9, Insertion
  <2> QED
    BY <2>3, <2>4
<1> QED
  BY <1>2, <1>3

LEMMA LoseInsertResultStep ==
    ASSUME IInv, NEW r \in Calls, LoseInsertResult(r)
    PROVE  IInv'
<1> DEFINE c == calls[r]
           l == [c EXCEPT !.pc = "compensate"]
<1>1. /\ c.pc = "insert" /\ c.pc \in Uploading /\ Granted(r)
      /\ ~(c.primary /\ Conflicts(Head(c.keys), rows)) /\ Inserted(r)
      /\ calls' = [calls EXCEPT ![r] = l]
      /\ doubted' = doubted \cup {Head(c.keys)} /\ UNCHANGED <<objects, used, stock, leaked>>
  BY DEF LoseInsertResult, At, Goto, Uploading
<1>2. /\ c \in [pc : Uploading, keys : Seq(Images), sort : Nat, primary : BOOLEAN]
      /\ c.keys # << >> /\ IsInjective(c.keys) /\ ToSet(c.keys) \subseteq used \ stock
      /\ \A q \in Calls : q # r /\ calls[q].pc \in Uploading =>
            ToSet(c.keys) \cap ToSet(calls[q].keys) = {}
  BY <1>1, UploadFacts
<1>3. l \in Call /\ l.pc = "compensate" /\ l.keys = c.keys
  BY <1>2 DEF Call, Uploading
<1> HIDE DEF l
<1>4. calls'[r] = l /\ \A q \in Calls \ {r} : calls'[q] = calls[q]
  BY <1>1, CallFacts
<1>5. UploadOK(r)'
  BY <1>1, <1>2, <1>3, <1>4 DEF UploadOK
<1> QED
  BY <1>1, <1>3, <1>5, Insertion

LEMMA DeleteRowStep ==
    ASSUME IInv, NEW r \in Calls, DeleteRow(r)
    PROVE  IInv'
<1> DEFINE k == calls[r].image
<1>1. /\ calls[r].pc = "delete" /\ Granted(r) /\ UNCHANGED <<objects, used, stock, doubted>>
      /\ calls[r].pc \notin {"insert", "compensate", "unlink"}
  BY DEF DeleteRow, At
<1>2. CASE rows[k] = Absent
  <2>1. Answer(r, "IMAGE_NOT_FOUND") /\ UNCHANGED <<rows, objects, used, history>>
    BY <1>1, <1>2 DEF DeleteRow, Refuse, history
  <2> QED
    BY <1>1, <2>1, AnswerStep DEF Codes
<1>3. CASE rows[k] # Absent
  <2>1. /\ rows' = [rows EXCEPT ![k] = Absent] /\ Learn(r, [pc |-> "unlink", image |-> k], {k})
        /\ objects' = objects /\ used' = used /\ stock' = stock /\ doubted' = doubted
    BY <1>1, <1>3 DEF DeleteRow
  <2>2. k \in Images
    BY <1>1, CallFacts DEF Transaction, Transacting
  <2>3. PICK l \in Call :
           /\ calls' = [calls EXCEPT ![r] = l] /\ l.pc \in {"done", "unlink"}
           /\ l.pc = "unlink" => l.image = k
           /\ leaked \subseteq leaked' /\ (k \in leaked' \/ Settles(l, k))
    <3>1. /\ [pc |-> "unlink", image |-> k] \in Call
          /\ [pc |-> "done", code |-> "INTERNAL_ERROR"] \in Call
      BY <2>2 DEF Call, Codes
    <3>2. CASE Goto(r, [pc |-> "unlink", image |-> k]) /\ leaked' = leaked
      BY <3>1, <3>2 DEF Goto, Settles
    <3>3. CASE Answer(r, "INTERNAL_ERROR") /\ leaked' = leaked \cup {k}
      BY <3>1, <3>3 DEF Answer, Goto
    <3> QED
      BY <2>1, <3>2, <3>3 DEF Learn
  <2>4. calls'[r] = l /\ \A q \in Calls \ {r} : calls'[q] = calls[q]
    BY <2>3, CallFacts
  <2>5. /\ rows' \in [Images -> Row \cup {Absent}] /\ rows'[k] = Absent
        /\ \A i \in Images \ {k} : rows'[i] = rows[i]
    BY <2>1, <2>2, TableFacts
  <2>6. Present(rows') = Present(rows) \ {k} /\ k \in Present(rows)
    BY <1>3, <2>2, <2>5 DEF Present
  <2>7. Primaries(rows') \subseteq Primaries(rows)
    BY <2>5, <2>6 DEF Primaries, Present
  <2>8. \A q \in Calls \ {r} : k \notin DOMAIN Writes(q)
    BY <1>1, NeedsFacts, Uncontended
  <2>9. Undisturbed(r, l)
    <3>1. \A q \in Calls \ {r} : \A i \in DOMAIN Writes(q) : rows'[i] = rows[i]
      BY <2>5, <2>8, WritesFacts, TableFacts
    <3>2. \A i \in Images : rows[i] = Absent => rows'[i] = Absent
      BY <2>5
    <3>3. \A q \in Calls : calls[q].pc = "unlink" => rows'[calls[q].image] = Absent
      BY <3>2, CallFacts, TableFacts DEF UnlinkOK, At
    <3>4. ASSUME NEW q \in Calls \ {r}, calls[q].pc \in Uploading, NEW i \in ToSet(calls[q].keys)
          PROVE  /\ rows[i] = Absent => rows'[i] = Absent
                 /\ calls[q].pc # "compensate" => rows[i] = Absent
      BY <3>2, <3>4, UploadFacts, TableFacts
    <3>5. l.pc \notin Uploading
      BY <2>3 DEF Uploading
    <3> QED
      <4>1. \A q \in Calls \ {r} : calls[q].pc \in Uploading =>
               \A i \in ToSet(calls[q].keys) :
                 /\ rows[i] = Absent => rows'[i] = Absent
                 /\ i \in objects /\ calls[q].pc # "compensate" => i \in objects'
                 /\ l.pc = "unlink" /\ calls[q].pc # "compensate" => l.image # i
                 /\ l.pc \in Uploading => i \notin ToSet(l.keys)
        BY <1>3, <2>1, <2>3, <3>4, <3>5
      <4>2. used' = stock => Present(rows') \subseteq Present(rows)
        BY <2>6
      <4> QED
        BY <2>1, <2>3, <3>1, <3>3, <4>1, <4>2 DEF Undisturbed
  <2>10. Locked(r, l, NoWrites)
    <3>1. \A q \in Calls \ {r} : LocksOK(q)
      BY CallFacts
    <3>2. l.pc \notin Transacting
      BY <2>3 DEF Transacting
    <3> QED
      BY <2>6, <2>7, <2>8, <3>1, <3>2 DEF Locked, LocksOK, NoWrites, PendingIn
  <2>11. IsFiniteSet(Present(rows'))
    BY <2>6, TableFacts, FS_Subset
  <2>12. GalleryKeepsShape'
    <3>1. IsFiniteSet(Primaries(rows')) /\ \A i, j \in Primaries(rows') : i = j
      BY <2>7, TableFacts, FS_Subset
    <3>2. Cardinality(Primaries(rows')) <= 1
      BY <3>1, AtMostOne
    <3>3. TypeOK'
      BY <2>1, <2>5, <2>6, <3>2, TableFacts DEF TypeOK
    <3>4. ~(used' = stock' /\ Present(rows') = stock')
      BY <2>1, <2>6, TableFacts
    <3>5. OrderIsTotal'
      <4>1. OrderIsTotal
        BY DEF IInv, GalleryKeepsShape
      <4>2. \A i \in Present(rows') : i \in Present(rows) /\ rows'[i] = rows[i]
        BY <2>5, <2>6, TableFacts
      <4> QED
        BY <2>1, <4>1, <4>2 DEF OrderIsTotal
    <3> QED
      BY <3>3, <3>4, <3>5 DEF GalleryKeepsShape, OnePrimary
  <2>13. RowHasObject'
    BY <2>1, <2>6 DEF IInv, RowHasObject
  <2>14. NoOrphan'
    BY <1>1, <2>1, <2>3, <2>6, OrphansStep DEF Settles
  <2>15. UnlinkOK(r)'
    BY <2>1, <2>3, <2>4, <2>5, <2>6, TableFacts DEF UnlinkOK, At
  <2>16. CallOK(r)' /\ UploadOK(r)' /\ TransactionOK(r)'
    BY <2>3, <2>4 DEF CallOK, UploadOK, Uploading, TransactionOK
  <2> QED
    BY <2>1, <2>9, <2>10, <2>11, <2>12, <2>13, <2>14, <2>15, <2>16, AnyStep
<1> QED
  BY <1>2, <1>3

\* The table after a commit.
LEMMA CommitFacts ==
    ASSUME IInv, NEW r \in Calls, Commit(r)
    PROVE  /\ calls[r].pc = "commit" /\ rows' = View(r) /\ Writes(r) = calls[r].writes
           /\ calls[r] \in Transaction(DOMAIN calls[r].writes)
           /\ DOMAIN calls[r].writes \subseteq Present(rows) /\ Present(rows) \subseteq Images
           /\ Promotes(r) \/ Arranges(r) \/ Removes(r)
           /\ rows' \in [Images -> Row \cup {Absent}]
           /\ \A i \in Images : /\ i \in DOMAIN calls[r].writes => rows'[i] = calls[r].writes[i]
                                /\ i \notin DOMAIN calls[r].writes => rows'[i] = rows[i]
           /\ Present(rows') \subseteq Present(rows)
           /\ \A i \in Present(rows) \ Present(rows') :
                Removes(r) /\ calls[r].then = "unlink" /\ calls[r].image = i
           /\ \A i, j \in Primaries(rows') : i = j
           /\ calls[r].next \in Images /\ calls[r].then \in {"done", "unlink"}
<1> DEFINE D == DOMAIN calls[r].writes
<1>1. calls[r].pc = "commit" /\ rows' = View(r) /\ calls[r].pc \in Transacting
  BY DEF Commit, At, Transacting
<1>2. /\ Writes(r) = calls[r].writes /\ calls[r] \in Transaction(D) /\ D \subseteq Present(rows)
      /\ Present(rows) \subseteq Images /\ (Promotes(r) \/ Arranges(r) \/ Removes(r))
  BY <1>1, CallFacts, WritesFacts, TableFacts DEF TransactionOK
<1>3. /\ rows' \in [Images -> Row \cup {Absent}]
      /\ \A i \in Images : /\ i \in D => rows'[i] = calls[r].writes[i]
                           /\ i \notin D => rows'[i] = rows[i]
  BY <1>1, <1>2, WritesFacts
<1>4. Present(rows') \subseteq Present(rows)
  BY <1>2, <1>3 DEF Present
<1>5. \A i \in D : rows[i] \in Row
  BY <1>2, TableFacts
<1>6. \A i \in D : \A b \in BOOLEAN : [rows[i] EXCEPT !.primary = b] # Absent
  BY <1>5, AbsentIsNoRow DEF Row
<1>7. ASSUME NEW i \in Present(rows) \ Present(rows')
      PROVE  Removes(r) /\ calls[r].then = "unlink" /\ calls[r].image = i
  <2>1. i \in Images /\ i \in D /\ calls[r].writes[i] = Absent
    BY <1>2, <1>3 DEF Present
  <2>2. ~Promotes(r)
    <3>1. (i \in {calls[r].next}) \in BOOLEAN
      OBVIOUS
    <3> QED
      BY <1>6, <2>1, <3>1 DEF Promotes, Flags
  <2>3. ~Arranges(r)
    <3>1. ASSUME Arranges(r)
          PROVE  FALSE
      <4>1. calls[r].writes[i] = [rows[i] EXCEPT !.sort = calls[r].writes[i].sort]
        BY <2>1, <3>1 DEF Arranges, Places
      <4>2. calls[r].writes[i].sort \in Nat
        <5>1. { calls[r].writes[j].sort : j \in D } = 0 .. Cardinality(D) - 1
          BY <3>1 DEF Arranges, Places
        <5>2. calls[r].writes[i].sort \in 0 .. Cardinality(D) - 1
          BY <2>1, <5>1
        <5> QED
          BY <5>2
      <4>3. calls[r].writes[i] \in Row
        BY <1>5, <2>1, <4>1, <4>2 DEF Row
      <4> QED
        BY <2>1, <4>3, AbsentIsNoRow
    <3> QED
      BY <3>1
  <2>4. Removes(r)
    BY <1>2, <2>2, <2>3
  <2>5. i = calls[r].image
    BY <1>6, <2>1, <2>4 DEF Removes
  <2> QED
    BY <2>4, <2>5 DEF Removes
<1>8. \A i, j \in Primaries(rows') : i = j
  <2>1. \A i \in Primaries(rows') : i \in D => i \in Pending(r)
    BY <1>2, <1>3 DEF Primaries, Present, Pending
  <2>2. \A i \in Primaries(rows') : i \notin D => i \in Primaries(rows)
    BY <1>3 DEF Primaries, Present
  <2>3. Pending(r) # {} => Primaries(rows) \subseteq D /\ \A i, j \in Pending(r) : i = j
    BY <1>2, CallFacts DEF LocksOK
  <2>4. \A i, j \in Primaries(rows) : i = j
    BY TableFacts
  <2> QED
    BY <2>1, <2>2, <2>3, <2>4
<1> QED
  BY <1>1, <1>2, <1>3, <1>4, <1>7, <1>8 DEF Transaction

\* What a committed transaction has kept of each row.
LEMMA CommitKeeps ==
    ASSUME IInv, NEW r \in Calls, Commit(r)
    PROVE  /\ Promotes(r) \/ Removes(r) =>
                \A i \in Present(rows') : rows'[i].sort = rows[i].sort
           /\ Promotes(r) => calls[r].next \in Primaries(rows')
           /\ Arranges(r) => \A i \in Present(rows') : rows'[i].primary = rows[i].primary
<1> DEFINE D == DOMAIN calls[r].writes
<1>1. /\ D \subseteq Present(rows) /\ Present(rows) \subseteq Images /\ Present(rows') \subseteq Present(rows)
      /\ \A i \in Images : /\ i \in D => rows'[i] = calls[r].writes[i]
                           /\ i \notin D => rows'[i] = rows[i]
  BY CommitFacts
<1>2. \A i \in Present(rows) : rows[i] \in Row
  BY TableFacts
<1>3. ASSUME Promotes(r), NEW i \in D
      PROVE  /\ rows'[i].sort = rows[i].sort /\ rows'[i] # Absent
             /\ rows'[i].primary = (i \in {calls[r].next})
  <2>1. calls[r].writes[i] = [rows[i] EXCEPT !.primary = (i \in {calls[r].next})]
    BY <1>3 DEF Promotes, Flags
  <2>2. rows[i] \in Row /\ i \in Images
    BY <1>1, <1>2
  <2>3. (i \in {calls[r].next}) \in BOOLEAN
    OBVIOUS
  <2>4. calls[r].writes[i] \in Row
    BY <2>1, <2>2, <2>3 DEF Row
  <2> QED
    BY <1>1, <2>1, <2>2, <2>4, AbsentIsNoRow DEF Row
<1>4. ASSUME Removes(r), NEW i \in D, i # calls[r].image
      PROVE  rows'[i].sort = rows[i].sort
  <2>1. calls[r].writes[i] = [rows[i] EXCEPT !.primary = TRUE]
    BY <1>4 DEF Removes
  <2> QED
    BY <1>1, <1>2, <2>1 DEF Row
<1>5. Removes(r) => calls[r].image \notin Present(rows')
  BY <1>1 DEF Removes, Present
<1>6. ASSUME Arranges(r), NEW i \in D
      PROVE  rows'[i].primary = rows[i].primary
  <2>1. calls[r].writes[i] = [rows[i] EXCEPT !.sort = calls[r].writes[i].sort]
    BY <1>6 DEF Arranges, Places
  <2> QED
    BY <1>1, <1>2, <2>1 DEF Row
<1>7. Promotes(r) => calls[r].next \in Primaries(rows')
  <2>1. Promotes(r) => calls[r].next \in D
    BY DEF Promotes
  <2> QED
    BY <1>1, <1>3, <2>1 DEF Primaries, Present
<1> QED
  BY <1>1, <1>3, <1>4, <1>5, <1>6, <1>7

LEMMA CommitShape ==
    ASSUME IInv, NEW r \in Calls, Commit(r)
    PROVE  GalleryKeepsShape' /\ IsFiniteSet(Present(rows'))
<1>1. objects' = objects /\ used' = used /\ stock' = stock
  BY DEF Commit
<1>2. /\ rows' \in [Images -> Row \cup {Absent}] /\ Present(rows') \subseteq Present(rows)
      /\ Present(rows) \subseteq Images /\ \A i, j \in Primaries(rows') : i = j
      /\ Promotes(r) \/ Arranges(r) \/ Removes(r)
  BY CommitFacts
<1>3. IsFiniteSet(Present(rows')) /\ IsFiniteSet(Primaries(rows'))
  BY <1>2, TableFacts, FS_Subset DEF Primaries
<1>4. Cardinality(Primaries(rows')) <= 1
  BY <1>2, <1>3, AtMostOne
<1>5. TypeOK'
  BY <1>1, <1>2, <1>4, TableFacts DEF TypeOK
<1>6. OnePrimary'
  <2> SUFFICES ASSUME used = stock, Present(rows') = stock, stock # {}
               PROVE  Cardinality(Primaries(rows')) = 1
    BY <1>1 DEF OnePrimary
  <2>1. Present(rows) = stock
    BY <1>2, TableFacts
  <2>2. Primaries(rows) # {}
    <3>1. Cardinality(Primaries(rows)) = 1
      BY <2>1 DEF IInv, GalleryKeepsShape, OnePrimary
    <3> QED
      BY <3>1, FS_EmptySet
  <2>3. Primaries(rows') # {}
    <3>1. CASE Promotes(r)
      BY <3>1, CommitKeeps
    <3>2. CASE Arranges(r)
      BY <2>1, <2>2, <3>2, CommitKeeps DEF Primaries
    <3>3. CASE Removes(r)
      <4>1. calls[r].image \in Present(rows) /\ rows'[calls[r].image] = Absent
        BY <3>3, CommitFacts DEF Removes
      <4> QED
        BY <2>1, <4>1 DEF Present
    <3> QED
      BY <1>2, <3>1, <3>2, <3>3
  <2>4. PICK x : x \in Primaries(rows')
    BY <2>3
  <2>5. Primaries(rows') = {x}
    BY <1>2, <2>4
  <2> QED
    BY <2>5, ExactlyOne
<1>7. OrderIsTotal'
  <2> SUFFICES ASSUME used = stock, NEW i \in Present(rows'), NEW j \in Present(rows'), i # j
               PROVE  rows'[i].sort # rows'[j].sort
    BY <1>1 DEF OrderIsTotal
  <2>1. i \in Present(rows) /\ j \in Present(rows) /\ rows[i].sort # rows[j].sort
    BY <1>2 DEF IInv, GalleryKeepsShape, OrderIsTotal
  <2>2. CASE Promotes(r) \/ Removes(r)
    BY <2>1, <2>2, CommitKeeps
  <2>3. CASE Arranges(r)
    <3>1. Present(rows) \subseteq DOMAIN calls[r].writes
      BY <2>3 DEF Arranges
    <3>2. rows'[i] = calls[r].writes[i] /\ rows'[j] = calls[r].writes[j]
      BY <1>2, <2>1, <3>1, CommitFacts
    <3> QED
      BY <2>1, <2>3, <3>1, <3>2 DEF Arranges, Places
  <2> QED
    BY <1>2, <2>2, <2>3
<1> QED
  BY <1>3, <1>5, <1>6, <1>7 DEF GalleryKeepsShape

LEMMA CommitStep ==
    ASSUME IInv, NEW r \in Calls, Commit(r)
    PROVE  IInv'
<1> DEFINE D == DOMAIN calls[r].writes
           gone == Present(rows) \ Present(rows')
<1>1. objects' = objects /\ used' = used /\ stock' = stock /\ doubted' = doubted
  BY DEF Commit
<1>2. /\ calls[r].pc = "commit" /\ Writes(r) = calls[r].writes
      /\ D \subseteq Present(rows) /\ Present(rows) \subseteq Images
      /\ rows' \in [Images -> Row \cup {Absent}]
      /\ \A i \in Images : /\ i \in D => rows'[i] = calls[r].writes[i]
                           /\ i \notin D => rows'[i] = rows[i]
      /\ Present(rows') \subseteq Present(rows)
      /\ \A i \in Present(rows) \ Present(rows') :
           Removes(r) /\ calls[r].then = "unlink" /\ calls[r].image = i
      /\ calls[r].image \in Images /\ calls[r].then \in {"done", "unlink"}
  BY CommitFacts DEF Transaction
<1>3. PICK l \in Call :
         /\ calls' = [calls EXCEPT ![r] = l] /\ l.pc \in {"done", "unlink"}
         /\ l.pc = "unlink" => l.image = calls[r].image /\ calls[r].then = "unlink"
         /\ leaked \subseteq leaked'
         /\ calls[r].then = "unlink" =>
               (l.pc = "unlink" /\ l.image = calls[r].image) \/ gone \subseteq leaked'
  <2> DEFINE next == IF calls[r].then = "done"
                     THEN [pc |-> "done", code |-> "OK"]
                     ELSE [pc |-> "unlink", image |-> calls[r].image]
  <2>1. Learn(r, next, { i \in Present(rows) : View(r)[i] = Absent })
    BY DEF Commit
  <2>2. { i \in Present(rows) : View(r)[i] = Absent } = gone
    BY <1>2, CommitFacts DEF Present
  <2>3. next \in Call /\ [pc |-> "done", code |-> "INTERNAL_ERROR"] \in Call
    BY <1>2 DEF Call, Codes
  <2>4. CASE calls' = [calls EXCEPT ![r] = next] /\ leaked' = leaked
    BY <1>2, <2>3, <2>4
  <2>5. CASE /\ calls' = [calls EXCEPT ![r] = [pc |-> "done", code |-> "INTERNAL_ERROR"]]
             /\ leaked' = leaked \cup gone
    BY <2>3, <2>5
  <2> QED
    BY <2>1, <2>2, <2>4, <2>5 DEF Learn, Answer, Goto
<1>4. calls'[r] = l /\ \A q \in Calls \ {r} : calls'[q] = calls[q]
  BY <1>3, CallFacts
<1>5. \A q \in Calls \ {r} : DOMAIN Writes(q) \cap D = {} /\ DOMAIN Writes(q) \subseteq Images
  <2>1. LocksOK(r)
    BY CallFacts
  <2> QED
    BY <1>2, <2>1, WritesFacts DEF LocksOK
<1>6. l.pc = "unlink" => calls[r].image \in D /\ rows'[calls[r].image] = Absent
  <2>1. calls[r].then = "unlink" => Removes(r)
    BY CommitFacts DEF Promotes, Arranges
  <2> QED
    BY <1>2, <1>3, <2>1 DEF Removes
<1>7. \A i \in Images : rows[i] = Absent => rows'[i] = Absent /\ i \notin D
  BY <1>2 DEF Present
<1>8. Undisturbed(r, l)
  <2>1. \A q \in Calls \ {r} : \A i \in DOMAIN Writes(q) : rows'[i] = rows[i]
    BY <1>2, <1>5
  <2>2. \A q \in Calls : calls[q].pc = "unlink" => rows'[calls[q].image] = Absent
    BY <1>7, CallFacts, TableFacts DEF UnlinkOK, At
  <2>3. ASSUME NEW q \in Calls \ {r}, calls[q].pc \in Uploading, NEW i \in ToSet(calls[q].keys)
        PROVE  /\ rows[i] = Absent => rows'[i] = Absent
               /\ l.pc = "unlink" /\ calls[q].pc # "compensate" => l.image # i
    BY <1>3, <1>6, <1>7, <2>3, UploadFacts, TableFacts
  <2>4. l.pc \notin Uploading
    BY <1>3 DEF Uploading
  <2> QED
    BY <1>1, <1>2, <1>3, <2>1, <2>2, <2>3, <2>4 DEF Undisturbed
<1>9. Locked(r, l, NoWrites)
  <2>1. ASSUME NEW q \in Calls \ {r}
        PROVE  /\ DOMAIN Writes(q) \subseteq Present(rows')
               /\ Pending(q) # {} => Primaries(rows') \subseteq DOMAIN Writes(q)
    <3>1. LocksOK(q)
      BY CallFacts
    <3>2. DOMAIN Writes(q) \subseteq Present(rows')
      BY <1>2, <1>5, <3>1 DEF LocksOK, Present
    <3>3. ASSUME Pending(q) # {}, NEW i \in Primaries(rows')
          PROVE  i \in DOMAIN Writes(q)
      <4>1. Pending(r) = {} /\ Primaries(rows) \subseteq DOMAIN Writes(q)
        BY <3>1, <3>3 DEF LocksOK
      <4>2. i \notin D
        BY <1>2, <3>3, <4>1 DEF Primaries, Present, Pending
      <4>3. i \in Primaries(rows)
        BY <1>2, <3>3, <4>2 DEF Primaries, Present
      <4> QED
        BY <4>1, <4>3
    <3> QED
      BY <3>2, <3>3
  <2>2. l.pc \notin Transacting
    BY <1>3 DEF Transacting
  <2> QED
    BY <2>1, <2>2 DEF Locked, NoWrites, PendingIn
<1>10. RowHasObject'
  BY <1>1, <1>2 DEF IInv, RowHasObject
<1>11. NoOrphan'
  BY <1>1, <1>2, <1>3, OrphansStep DEF Settles
<1>12. UnlinkOK(r)'
  BY <1>1, <1>2, <1>3, <1>4, <1>6, TableFacts DEF UnlinkOK, At
<1>13. CallOK(r)' /\ UploadOK(r)' /\ TransactionOK(r)'
  BY <1>3, <1>4 DEF CallOK, UploadOK, Uploading, TransactionOK
<1> QED
  BY <1>1, <1>8, <1>9, <1>10, <1>11, <1>12, <1>13, CommitShape, AnyStep

-----------------------------------------------------------------------------
(***************************************************************************)
(* The inductive invariant.                                                *)
(***************************************************************************)
LEMMA InitialTable ==
    ASSUME Init
    PROVE  /\ rows \in [Images -> Row \cup {Absent}] /\ Present(rows) = stock
           /\ stock \subseteq Images /\ IsFiniteSet(stock)
           /\ stock # {} => \E m \in stock : Primaries(rows) = {m}
           /\ stock = {} => Primaries(rows) = {}
           /\ \A i, j \in stock : i # j => rows[i].sort # rows[j].sort
<1> DEFINE row(i) == [sort |-> Cardinality({ j \in stock : j < i }), primary |-> i = Min(stock)]
<1>1. /\ stock \subseteq Images /\ IsFiniteSet(stock) /\ Images \subseteq Nat
      /\ rows = [i \in Images |-> IF i \in stock THEN row(i) ELSE Absent]
  BY ImagesAreOrdered DEF Init
<1>2. ASSUME NEW i \in stock
      PROVE  row(i) \in Row /\ row(i) # Absent
  <2>1. IsFiniteSet({ j \in stock : j < i })
    BY <1>1, FS_Subset
  <2>2. Cardinality({ j \in stock : j < i }) \in Nat /\ (i = Min(stock)) \in BOOLEAN
    BY <2>1, FS_CardinalityType
  <2>3. row(i) \in Row
    BY <2>2 DEF Row
  <2> QED
    BY <2>3, AbsentIsNoRow
<1>3. /\ \A i \in stock : rows[i].sort = Cardinality({ j \in stock : j < i })
      /\ \A i \in stock : rows[i].primary = (i = Min(stock))
  BY <1>1
<1> HIDE DEF row
<1>4. rows \in [Images -> Row \cup {Absent}] /\ Present(rows) = stock
  BY <1>1, <1>2 DEF Present
<1>5. stock # {} => \E m \in stock : Primaries(rows) = {m}
  <2> SUFFICES ASSUME stock # {}
               PROVE  \E m \in stock : Primaries(rows) = {m}
    OBVIOUS
  <2>1. \E m \in stock : \A k \in stock : m <= k
    BY <1>1, Smallest
  <2>2. Min(stock) \in stock
    BY <2>1 DEF Min
  <2>3. \A i \in Primaries(rows) : i = Min(stock)
    BY <1>3, <1>4 DEF Primaries
  <2>4. Min(stock) \in Primaries(rows)
    BY <1>3, <1>4, <2>2 DEF Primaries
  <2> QED
    BY <2>2, <2>3, <2>4
<1>6. ASSUME NEW i \in stock, NEW j \in stock, i < j
      PROVE  rows[i].sort # rows[j].sort
  <2> DEFINE before(k) == { x \in stock : x < k }
  <2>1. i \in Nat /\ j \in Nat /\ \A x \in stock : x \in Nat
    BY <1>1
  <2>2. IsFiniteSet(before(j))
    BY <1>1, FS_Subset
  <2>3. before(i) \in SUBSET before(j)
    <3>1. \A x \in stock : x < i => x < j
      BY <1>6, <2>1
    <3> QED
      BY <3>1
  <2>4. i \in before(j) /\ i \notin before(i)
    BY <1>6, <2>1
  <2> HIDE DEF before
  <2>5. Cardinality(before(i)) # Cardinality(before(j))
    BY <2>2, <2>3, <2>4, Smaller
  <2> QED
    BY <1>3, <2>5 DEF before
<1>7. \A i, j \in stock : i # j => rows[i].sort # rows[j].sort
  <2> SUFFICES ASSUME NEW i \in stock, NEW j \in stock, i # j
               PROVE  rows[i].sort # rows[j].sort
    OBVIOUS
  <2>1. i < j \/ j < i
    BY <1>1
  <2> QED
    BY <1>6, <2>1
<1> QED
  BY <1>1, <1>4, <1>5, <1>7 DEF Primaries

LEMMA InitialInvariant ==
    ASSUME Init
    PROVE  IInv
<1>1. /\ objects = stock /\ used = stock /\ leaked = {} /\ doubted = {}
      /\ calls = [r \in Calls |-> Idle]
  BY DEF Init
<1>2. \A r \in Calls : calls[r].pc = "idle" /\ calls[r] \in Call
  BY <1>1 DEF Idle, Call
<1>3. calls = [r \in Calls |-> calls[r]]
  BY <1>1
<1>4. \A r \in Calls : DOMAIN Writes(r) = {} /\ Pending(r) = {}
  BY <1>2 DEF Writes, NoWrites, Transacting, Pending
<1>5. \A r \in Calls : CallOK(r) /\ UploadOK(r) /\ UnlinkOK(r) /\ LocksOK(r) /\ TransactionOK(r)
  BY <1>2, <1>4 DEF CallOK, UploadOK, Uploading, UnlinkOK, At, LocksOK, TransactionOK
<1>6. Cardinality(Primaries(rows)) <= 1 /\ (stock # {} => Cardinality(Primaries(rows)) = 1)
  <2>1. stock # {} => Cardinality(Primaries(rows)) = 1
    <3>1. stock # {} => \E m : Primaries(rows) = {m}
      BY InitialTable
    <3> QED
      BY <3>1, ExactlyOne
  <2>2. stock = {} => Cardinality(Primaries(rows)) = 0
    BY InitialTable, FS_EmptySet
  <2> QED
    BY <2>1, <2>2
<1>7. TypeOK /\ OnePrimary /\ OrderIsTotal
  BY <1>1, <1>6, InitialTable DEF TypeOK, OnePrimary, OrderIsTotal
<1>8. RowHasObject /\ NoOrphan
  BY <1>1, InitialTable DEF RowHasObject, NoOrphan
<1> QED
  BY <1>1, <1>3, <1>5, <1>7, <1>8, InitialTable DEF IInv, GalleryKeepsShape

LEMMA NextStep ==
    ASSUME IInv, NEW r \in Calls,
           \/ PostImages(r) \/ StoreObject(r) \/ LoseObject(r) \/ InsertRow(r) \/ Compensate(r)
           \/ PatchImage(r) \/ DeleteImage(r) \/ PutOrder(r)
           \/ UpdateAltText(r) \/ ChooseTargets(r) \/ ClearPrimary(r) \/ SetPrimary(r) \/ Commit(r)
           \/ DeleteRow(r) \/ TxDelete(r) \/ ListRemaining(r) \/ Unlink(r)
           \/ SetSortOrder(r)
           \/ Fail(r) \/ LoseInsertResult(r) \/ Die(r) \/ Deliver(r)
    PROVE  IInv'
<1>1. CASE PostImages(r)
  BY <1>1, CallUploadStep DEF PostImages
<1>2. CASE StoreObject(r) \/ LoseObject(r) \/ Compensate(r) \/ Unlink(r)
  BY <1>2, StoreObjectStep, LoseObjectStep, CompensateStep, UnlinkStep
<1>3. CASE InsertRow(r) \/ LoseInsertResult(r) \/ DeleteRow(r) \/ Commit(r)
  BY <1>3, InsertRowStep, LoseInsertResultStep, DeleteRowStep, CommitStep
<1>4. CASE PatchImage(r)
  BY <1>4, CallPromoteStep, CallDescribeStep DEF PatchImage
<1>5. CASE DeleteImage(r)
  BY <1>5, CallDeleteStep DEF DeleteImage
<1>6. CASE PutOrder(r)
  BY <1>6, CallReorderStep DEF PutOrder
<1>7. CASE UpdateAltText(r) \/ ChooseTargets(r) \/ ClearPrimary(r) \/ SetPrimary(r)
  BY <1>7, UpdateAltTextStep, ChooseTargetsStep, ClearPrimaryStep, SetPrimaryStep
<1>8. CASE TxDelete(r) \/ ListRemaining(r) \/ SetSortOrder(r)
  BY <1>8, TxDeleteStep, ListRemainingStep, SetSortOrderStep
<1>9. CASE Fail(r) \/ Die(r) \/ Deliver(r)
  BY <1>9, FailStep, DieStep, DeliverStep
<1> QED
  BY <1>1, <1>2, <1>3, <1>4, <1>5, <1>6, <1>7, <1>8, <1>9

LEMMA UnchangedStep ==
    ASSUME IInv, UNCHANGED vars
    PROVE  IInv'
<1>1. /\ rows' = rows /\ objects' = objects /\ used' = used /\ stock' = stock
      /\ leaked' = leaked /\ doubted' = doubted /\ calls' = calls
  BY DEF vars
<1>2. (GalleryKeepsShape /\ RowHasObject /\ NoOrphan)'
  BY <1>1 DEF IInv, GalleryKeepsShape, TypeOK, OnePrimary, OrderIsTotal, RowHasObject, NoOrphan, At
<1>3. \A r \in Calls : CallOK(r)' /\ UploadOK(r)' /\ UnlinkOK(r)'
  <2> SUFFICES ASSUME NEW r \in Calls
               PROVE  CallOK(r)' /\ UploadOK(r)' /\ UnlinkOK(r)'
    OBVIOUS
  <2>1. CallOK(r)' /\ UnlinkOK(r)'
    BY <1>1, CallFacts DEF CallOK, UnlinkOK, At
  <2>2. \A i : Unlinking(i)' => Unlinking(i)
    BY <1>1 DEF Unlinking, At
  <2>3. UploadOK(r)'
    BY <1>1, <2>2, CallFacts DEF UploadOK
  <2> QED
    BY <2>1, <2>3
<1>4. \A r \in Calls : LocksOK(r)'
  BY <1>1, CallFacts DEF LocksOK, Pending, Writes
<1>5. \A r \in Calls : TransactionOK(r)'
  <2> SUFFICES ASSUME NEW r \in Calls
               PROVE  TransactionOK(r)'
    OBVIOUS
  <2>1. Flags(r, {}) => Flags(r, {})'
    BY <1>1 DEF Flags
  <2>2. Places(r) => Places(r)'
    BY <1>1 DEF Places
  <2>3. Promotes(r) => Promotes(r)'
    BY <1>1 DEF Promotes, Flags
  <2>4. Arranges(r) => Arranges(r)'
    BY <1>1, <2>2 DEF Arranges
  <2>5. Removes(r) => Removes(r)'
    BY <1>1 DEF Removes
  <2> QED
    BY <1>1, <2>1, <2>2, <2>3, <2>4, <2>5, CallFacts DEF TransactionOK
<1> QED
  BY <1>1, <1>2, <1>3, <1>4, <1>5 DEF IInv

(***************************************************************************)
(* Whatever requests meet and whatever fails: no two transactions write    *)
(* one row, whoever has a new primary pending holds every row that is one, *)
(* and a batch of updates is half written only where nobody sees it.       *)
(***************************************************************************)
THEOREM ImagesInvariant == Spec => []IInv
<1>1. IInv /\ [Next]_vars => IInv'
  BY NextStep, UnchangedStep DEF Next
<1> QED
  BY <1>1, InitialInvariant, PTL DEF Spec

(***************************************************************************)
(* At most one image is primary and nothing stands under an id that was    *)
(* never generated; until an image comes or goes, exactly one is primary   *)
(* and no two share a place.                                               *)
(***************************************************************************)
THEOREM ImagesGalleryKeepsShape == Spec => []GalleryKeepsShape
<1>1. IInv => GalleryKeepsShape
  BY DEF IInv
<1> QED
  BY <1>1, ImagesInvariant, PTL

(***************************************************************************)
(* No visitor is shown a broken image: a committed row's object is stored, *)
(* except where Upload was told that an INSERT which took effect failed.   *)
(***************************************************************************)
THEOREM ImagesRowsHaveObjects == Spec => []RowHasObject
<1>1. IInv => RowHasObject
  BY DEF IInv
<1> QED
  BY <1>1, ImagesInvariant, PTL

(***************************************************************************)
(* An object without a row is some running request's to settle, unless a   *)
(* storage call failed on it, or the result of the DELETE or COMMIT that   *)
(* took its row away was lost, or the process died between the two         *)
(* systems.  No failed statement, rollback, deadlock or race orphans one.  *)
(***************************************************************************)
THEOREM ImagesLeaveNoOrphan == Spec => []NoOrphan
<1>1. IInv => NoOrphan
  BY DEF IInv
<1> QED
  BY <1>1, ImagesInvariant, PTL

-----------------------------------------------------------------------------
(***************************************************************************)
(* Every change of the table is one operation of Gallery.tla.              *)
(***************************************************************************)
LEMMA GalleryVocabulary ==
    /\ G!Shown = Present(rows)
    /\ G!Primaries = Primaries(rows)
    /\ \A S : G!Cardinality(S) = Cardinality(S)
<1>1. G!Shown = Present(rows) /\ G!Primaries = Primaries(rows)
  BY DEF G!Shown, G!Primaries, Present, Primaries
<1>2. ASSUME NEW S
      PROVE  G!Cardinality(S) = Cardinality(S)
  BY DEF G!Cardinality, Cardinality
<1> QED
  BY <1>1, <1>2

LEMMA InsertedIsAdded ==
    ASSUME IInv, NEW r \in Calls, calls[r].pc = "insert",
           ~(calls[r].primary /\ Conflicts(Head(calls[r].keys), rows)), Inserted(r)
    PROVE  [G!Next]_rows
<1> DEFINE k == Head(calls[r].keys)
           row == [sort |-> calls[r].sort, primary |-> calls[r].primary]
<1>1. k \in Images /\ rows[k] = Absent
  BY UploadFacts DEF Uploading
<1>2. row \in [sort : Nat, primary : BOOLEAN]
  BY UploadFacts DEF Uploading
<1>3. rows' = [rows EXCEPT ![k] = row] /\ rows'[k] = row
  BY <1>1, TableFacts DEF Inserted
<1>4. rows'[k].primary => Primaries(rows) = {}
  <2>1. k \notin Primaries(rows)
    BY <1>1 DEF Primaries, Present
  <2> QED
    BY <1>3, <2>1 DEF Conflicts
<1> HIDE DEF row
<1>5. G!Add(k)
  BY <1>1, <1>2, <1>3, <1>4, GalleryVocabulary DEF G!Add
<1> QED
  BY <1>1, <1>5 DEF G!Next

LEMMA PromotionIsPromoted ==
    ASSUME IInv, NEW r \in Calls, Commit(r), Promotes(r)
    PROVE  [G!Next]_rows
<1> DEFINE m == calls[r].next
           D == DOMAIN calls[r].writes
<1>1. /\ m \in D /\ \A i \in D : calls[r].writes[i] = [rows[i] EXCEPT !.primary = (i \in {m})]
  BY DEF Promotes, Flags
<1>2. /\ D \subseteq Present(rows) /\ Present(rows) \subseteq Images /\ m \in Images
      /\ rows' \in [Images -> Row \cup {Absent}] /\ Writes(r) = calls[r].writes
      /\ \A i \in Images : /\ i \in D => rows'[i] = calls[r].writes[i]
                           /\ i \notin D => rows'[i] = rows[i]
  BY CommitFacts
<1>3. \A i \in Present(rows) : rows[i] \in Row
  BY TableFacts
<1>4. Primaries(rows) \subseteq D
  <2>1. (m \in {m}) = TRUE /\ rows[m] \in Row
    BY <1>1, <1>2, <1>3
  <2>2. calls[r].writes[m] \in Row /\ calls[r].writes[m].primary = TRUE
    BY <1>1, <2>1 DEF Row
  <2>3. m \in Pending(r)
    BY <1>1, <1>2, <2>2, AbsentIsNoRow DEF Pending
  <2> QED
    BY <1>2, <2>3, CallFacts DEF LocksOK
<1>5. ASSUME NEW i \in Images
      PROVE  rows'[i] = IF i \in Present(rows) THEN [rows[i] EXCEPT !.primary = (i = m)] ELSE Absent
  <2>1. CASE i \in D
    <3>1. (i \in {m}) = (i = m)
      OBVIOUS
    <3> QED
      BY <1>1, <1>2, <2>1, <3>1
  <2>2. CASE i \in Present(rows) \ D
    <3>1. rows[i].primary = FALSE
      BY <1>3, <1>4, <2>2 DEF Primaries, Row
    <3>2. (i = m) = FALSE
      BY <1>1, <2>2
    <3>3. [rows[i] EXCEPT !.primary = (i = m)] = rows[i]
      BY <1>3, <2>2, <3>1, <3>2 DEF Row
    <3> QED
      BY <1>2, <2>2, <3>3
  <2>3. CASE i \notin Present(rows)
    BY <1>2, <2>3, TableFacts
  <2> QED
    BY <2>1, <2>2, <2>3
<1>6. G!Promote(m)
  BY <1>1, <1>2, <1>5, GalleryVocabulary DEF G!Promote
<1> QED
  BY <1>2, <1>6 DEF G!Next

LEMMA ReorderIsArranged ==
    ASSUME IInv, NEW r \in Calls, Commit(r), Arranges(r)
    PROVE  [G!Next]_rows
<1> DEFINE D == DOMAIN calls[r].writes
<1>1. /\ \A i \in D : calls[r].writes[i] = [rows[i] EXCEPT !.sort = calls[r].writes[i].sort]
      /\ { calls[r].writes[i].sort : i \in D } = 0 .. Cardinality(D) - 1
  BY DEF Arranges, Places
<1>2. /\ D \subseteq Present(rows) /\ Present(rows) \subseteq Images
      /\ rows' \in [Images -> Row \cup {Absent}]
      /\ \A i \in Images : /\ i \in D => rows'[i] = calls[r].writes[i]
                           /\ i \notin D => rows'[i] = rows[i]
      /\ \A i \in Present(rows) \ Present(rows') : calls[r].then = "unlink"
  BY CommitFacts
<1>3. Present(rows) \subseteq Present(rows')
  BY <1>2 DEF Arranges
<1>4. \A i \in D : rows'[i] = calls[r].writes[i] /\ rows'[i] # Absent
  BY <1>2, <1>3 DEF Present
<1>5. { rows'[i].sort : i \in D } = 0 .. Cardinality(D) - 1
  BY <1>1, <1>4
<1>6. rows' = [i \in Images |-> IF i \in D THEN [rows[i] EXCEPT !.sort = rows'[i].sort] ELSE rows[i]]
  BY <1>1, <1>2, <1>4
<1>7. G!Arrange(D)
  <2> HIDE DEF D
  <2> QED
    BY <1>4, <1>5, <1>6, GalleryVocabulary DEF G!Arrange
<1> QED
  BY <1>2, <1>7, GalleryVocabulary DEF G!Next

LEMMA RemovalIsRemoved ==
    ASSUME IInv, NEW r \in Calls, Commit(r), Removes(r)
    PROVE  [G!Next]_rows
<1> DEFINE i == calls[r].image
           D == DOMAIN calls[r].writes
<1>1. /\ i \in D /\ calls[r].writes[i] = Absent
      /\ \A j \in D \ {i} : D = {i, j} /\ calls[r].writes[j] = [rows[j] EXCEPT !.primary = TRUE]
  BY DEF Removes
<1>2. /\ D \subseteq Present(rows) /\ Present(rows) \subseteq Images
      /\ rows' \in [Images -> Row \cup {Absent}] /\ Writes(r) = calls[r].writes
      /\ \A k \in Images : /\ k \in D => rows'[k] = calls[r].writes[k]
                           /\ k \notin D => rows'[k] = rows[k]
  BY CommitFacts
<1>3. CASE D = {i}
  <2>1. rows' = [rows EXCEPT ![i] = Absent]
    BY <1>1, <1>2, <1>3, TableFacts
  <2>2. G!Remove(i)
    BY <1>1, <1>2, <2>1, GalleryVocabulary DEF G!Remove
  <2> QED
    BY <1>1, <1>2, <2>2 DEF G!Next
<1>4. ASSUME NEW j \in D, j # i
      PROVE  [G!Next]_rows
  <2>1. D = {i, j} /\ calls[r].writes[j] = [rows[j] EXCEPT !.primary = TRUE] /\ rows[j] \in Row
    BY <1>1, <1>2, <1>4, TableFacts
  <2>2. rows' = [rows EXCEPT ![i] = Absent, ![j].primary = TRUE]
    BY <1>1, <1>2, <1>4, <2>1, TableFacts
  <2>3. j \in Pending(r)
    <3>1. calls[r].writes[j] \in Row /\ calls[r].writes[j].primary
      BY <2>1 DEF Row
    <3> QED
      BY <1>2, <1>4, <3>1, AbsentIsNoRow DEF Pending
  <2>4. Primaries(rows) \subseteq {i, j}
    BY <1>2, <2>1, <2>3, CallFacts DEF LocksOK
  <2>5. G!Succeed(i, j)
    BY <1>1, <1>2, <1>4, <2>2, <2>4, GalleryVocabulary DEF G!Succeed
  <2> QED
    BY <1>1, <1>2, <2>5 DEF G!Next
<1> QED
  BY <1>1, <1>3, <1>4

LEMMA DeletedIsRemoved ==
    ASSUME IInv, NEW r \in Calls, DeleteRow(r)
    PROVE  [G!Next]_rows
<1> DEFINE i == calls[r].image
<1>1. i \in Images
  BY CallFacts DEF DeleteRow, At, Transaction, Transacting
<1>2. CASE rows' = rows
  BY <1>2
<1>3. CASE rows[i] # Absent /\ rows' = [rows EXCEPT ![i] = Absent]
  <2>1. G!Remove(i)
    BY <1>1, <1>3, GalleryVocabulary DEF G!Remove, Present
  <2> QED
    BY <1>1, <2>1 DEF G!Next
<1> QED
  BY <1>2, <1>3 DEF DeleteRow

LEMMA EveryStep ==
    ASSUME IInv, [Next]_vars
    PROVE  [G!Next]_rows
<1>1. CASE UNCHANGED vars
  BY <1>1 DEF vars
<1>2. ASSUME NEW r \in Calls, InsertRow(r)
      PROVE  [G!Next]_rows
  <2>1. rows' = rows \/ (calls[r].pc = "insert" /\ Inserted(r) /\
          ~(calls[r].primary /\ Conflicts(Head(calls[r].keys), rows)))
    BY <1>2 DEF InsertRow, At
  <2> QED
    BY <2>1, InsertedIsAdded
<1>3. ASSUME NEW r \in Calls, LoseInsertResult(r)
      PROVE  [G!Next]_rows
  BY <1>3, InsertedIsAdded DEF LoseInsertResult, At
<1>4. ASSUME NEW r \in Calls, Commit(r)
      PROVE  [G!Next]_rows
  BY <1>4, CommitFacts, PromotionIsPromoted, ReorderIsArranged, RemovalIsRemoved
<1>5. ASSUME NEW r \in Calls,
             \/ PostImages(r) \/ StoreObject(r) \/ LoseObject(r) \/ Compensate(r)
             \/ PatchImage(r) \/ DeleteImage(r) \/ PutOrder(r)
             \/ UpdateAltText(r) \/ ChooseTargets(r) \/ ClearPrimary(r) \/ SetPrimary(r)
             \/ TxDelete(r) \/ ListRemaining(r) \/ Unlink(r)
             \/ SetSortOrder(r) \/ Fail(r) \/ Die(r) \/ Deliver(r)
      PROVE  rows' = rows
  BY <1>5 DEF PostImages, CallUpload, StoreObject, LoseObject, Compensate, PatchImage, CallPromote,
     CallDescribe, DeleteImage, CallDelete, PutOrder, CallReorder, UpdateAltText, ChooseTargets,
     ClearPrimary, SetPrimary, TxDelete, ListRemaining, Unlink, SetSortOrder, Fail, Die, Deliver
<1> QED
  BY <1>1, <1>2, <1>3, <1>4, <1>5, DeletedIsRemoved DEF Next

(***************************************************************************)
(* Every change of the table is one whole operation of the abstract        *)
(* gallery: uploads, promotions, deletions and reorders of any number of   *)
(* requests, failing anywhere, take effect at one statement or not at all. *)
(***************************************************************************)
THEOREM ImagesImplementGallery == Spec => ImplementsGallery
<1>1. Init => G!Init
  <2> SUFFICES ASSUME Init
               PROVE  G!Init
    OBVIOUS
  <2>1. stock # {} => Cardinality(Primaries(rows)) = 1
    <3>1. stock # {} => \E m : Primaries(rows) = {m}
      BY InitialTable
    <3> QED
      BY <3>1, ExactlyOne
  <2> QED
    BY <2>1, InitialTable, GalleryVocabulary DEF G!Init, Row
<1>2. IInv /\ [Next]_vars => [G!Next]_rows
  BY EveryStep
<1> QED
  BY <1>1, <1>2, ImagesInvariant, PTL DEF Spec, ImplementsGallery, G!Spec

=============================================================================
