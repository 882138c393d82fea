--------------------------- MODULE ServiceImages ---------------------------
(***************************************************************************)
(* The image gallery of one service: ServiceImageService over the          *)
(* service_images table and the object store, which share no transaction.  *)
(* Uploads write object then row, one file after another; promotion,       *)
(* deletion of the primary and reordering are transactions under READ      *)
(* COMMITTED whose uncommitted writes lock the rows they touch.            *)
(*                                                                         *)
(* An image's id stands for its storage key too: both are generated        *)
(* together and never reused.  Alt texts, sizes and types are left out.    *)
(***************************************************************************)
EXTENDS Integers, FiniteSets, Sequences, FiniteSetsExt, SequencesExt

CONSTANTS
    Images,       \* image ids, ordered, as the tie-break of the listing needs
    Calls, Absent,
    MaxImages,    \* model.MaxImagesPerService
    MaxBatch,     \* bound: files in one upload
    Stocks,       \* the galleries the model starts from, in the order of their ids
    Operations    \* which of "upload", "promote", "delete", "reorder" are called

ASSUME ImagesAreOrdered ==
    Images \subseteq Nat /\ \A s \in Stocks : s \subseteq Images /\ IsFiniteSet(s)
ASSUME LimitsAreNat == MaxImages \in Nat /\ MaxBatch \in Nat

VARIABLES
    rows,      \* Images -> Row or Absent: the committed table
    objects,   \* the storage keys that hold an object
    used,      \* ids generated so far
    stock,     \* history: the gallery the model started from
    leaked,    \* history: objects a storage call failed on, or whose request was cut off
    doubted,   \* history: rows whose INSERT took effect but was reported failed
    calls

\* What only the properties look at.
history == <<stock, leaked, doubted>>

vars == <<rows, objects, used, stock, leaked, doubted, calls>>

Row == [sort : Nat, primary : BOOLEAN]

ASSUME AbsentIsNoRow == Absent \notin Row

NoWrites == [i \in {} |-> Absent]

\* A transaction's writes with one more: i's row becomes row.
With(writes, i, row) ==
    [j \in DOMAIN writes \cup {i} |-> IF j = i THEN row ELSE writes[j]]

\* Where an upload is, and where a request that may write in a transaction is.
Uploading == {"store", "insert", "compensate"}

Transacting == {"begin", "clear", "set", "commit", "delete", "tx_delete", "list", "sort"}

At(r, pc) == calls[r].pc = pc

Idle == [pc |-> "idle"]

Running(r) == calls[r].pc \notin {"idle", "done"}

Goto(r, call) == calls' = [calls EXCEPT ![r] = call]

Answer(r, code) == Goto(r, [pc |-> "done", code |-> code])

\* An answer that ends the call's transaction, if it has one, by rollback.
Refuse(r, code) == Answer(r, code)

-----------------------------------------------------------------------------
(***************************************************************************)
(* Reads, uncommitted writes and the row locks that go with them.          *)
(***************************************************************************)
Present(table) == { i \in Images : table[i] # Absent }

Primaries(table) == { i \in Present(table) : table[i].primary }

\* ORDER BY sort_order, id.
First(table) ==
    CHOOSE i \in Present(table) : \A j \in Present(table) :
        \/ table[i].sort < table[j].sort
        \/ table[i].sort = table[j].sort /\ i <= j

Writes(r) == IF calls[r].pc \in Transacting THEN calls[r].writes ELSE NoWrites

\* What a transaction sees: the committed table under its own writes.
View(r) == [i \in Images |-> IF i \in DOMAIN Writes(r) THEN Writes(r)[i] ELSE rows[i]]

\* Rows with an entry, old or new, in the partial unique index on primaries.
PrimaryEntries ==
    Primaries(rows) \cup
    { i \in Images : \E q \in Calls :
        i \in DOMAIN Writes(q) /\ Writes(q)[i] # Absent /\ Writes(q)[i].primary }

\* The rows whose locks the next statement of a call needs.
Needs(r) ==
    CASE At(r, "clear")                 -> calls[r].targets
      [] At(r, "set")                   -> {calls[r].next} \cup PrimaryEntries
      [] At(r, "insert")                -> IF calls[r].primary THEN PrimaryEntries ELSE {}
      [] At(r, "sort")                  -> {Head(calls[r].order)}
      [] At(r, "delete")                -> {calls[r].image}
      [] At(r, "describe")              -> {calls[r].image}
      [] At(r, "tx_delete")             -> {calls[r].image}
      [] OTHER                          -> {}

Blocks(q, r) == q # r /\ DOMAIN Writes(q) \cap Needs(r) # {}

Granted(r) == \A q \in Calls : ~Blocks(q, r)

\* service_images_service_primary_unique, for a statement that makes i primary.
Conflicts(i, table) == Primaries(table) \ {i} # {}

-----------------------------------------------------------------------------
Init ==
    /\ stock \in Stocks
    /\ rows = [i \in Images |-> IF i \in stock
                 THEN [sort |-> Cardinality({ j \in stock : j < i }), primary |-> i = Min(stock)]
                 ELSE Absent]
    /\ objects = stock
    /\ used = stock
    /\ leaked = {} /\ doubted = {}
    /\ calls = [r \in Calls |-> Idle]

(***************************************************************************)
(* Upload: the listing decides the limit and who is primary; then, file    *)
(* by file, the object and the row.                                        *)
(***************************************************************************)
WithinLimit(existing, files) == existing + files <= MaxImages

CallUpload(r) ==
    /\ "upload" \in Operations /\ At(r, "idle")
    /\ \E n \in 1 .. MaxBatch :
       \E keys \in { k \in [1 .. n -> Images \ used] : IsInjective(k) } :
         IF WithinLimit(Cardinality(Present(rows)), n)
         THEN /\ Goto(r, [pc |-> "store", keys |-> keys,
                          sort |-> Cardinality(Present(rows)),
                          primary |-> Primaries(rows) = {}])
              /\ used' = used \cup ToSet(keys)
         ELSE /\ Refuse(r, "VALIDATION_FAILED")
              /\ UNCHANGED used
    /\ UNCHANGED <<rows, objects, history>>

\* A picture is served whole or not at all: the file is renamed into place.
PutObject(i) == objects' = objects \cup {i}

StoreObject(r) ==
    /\ At(r, "store")
    /\ PutObject(Head(calls[r].keys))
    /\ Goto(r, [calls[r] EXCEPT !.pc = "insert"])
    /\ UNCHANGED <<rows, used, history>>

\* The store has the object and its answer is lost, or the process dies
\* before the row is written: nobody removes the object.
LoseObject(r) ==
    /\ At(r, "store")
    /\ PutObject(Head(calls[r].keys))
    /\ leaked' = leaked \cup {Head(calls[r].keys)}
    /\ Answer(r, "INTERNAL_ERROR")
    /\ UNCHANGED <<rows, used, stock, doubted>>

Inserted(r) ==
    rows' = [rows EXCEPT ![Head(calls[r].keys)] =
               [sort |-> calls[r].sort, primary |-> calls[r].primary]]

InsertRow(r) ==
    /\ At(r, "insert") /\ Granted(r)
    /\ LET c == calls[r] IN
       \/ /\ c.primary /\ Conflicts(Head(c.keys), rows)
          /\ Goto(r, [c EXCEPT !.pc = "compensate"])
          /\ UNCHANGED rows
       \/ /\ ~(c.primary /\ Conflicts(Head(c.keys), rows))
          /\ Inserted(r)
          /\ IF Len(c.keys) = 1
             THEN Answer(r, "OK")
             ELSE Goto(r, [c EXCEPT !.pc = "store", !.keys = Tail(c.keys),
                                    !.sort = c.sort + 1, !.primary = FALSE])
    /\ UNCHANGED <<objects, used, history>>

\* The object store deletes the object, or fails to.  One that is gone already
\* counts as deleted.
RemoveObject(i) ==
    \/ objects' = objects \ {i} /\ UNCHANGED leaked
    \/ leaked' = leaked \cup {i} /\ UNCHANGED objects

\* Mutant: a failed insert returns without removing the object.
CompensateNothing(r) ==
    /\ At(r, "compensate")
    /\ Answer(r, "INTERNAL_ERROR")
    /\ UNCHANGED <<rows, objects, used, history>>

\* The row was not written: its object goes, unless that fails too.
Compensate(r) ==
    /\ At(r, "compensate")
    /\ RemoveObject(Head(calls[r].keys))
    /\ Answer(r, "INTERNAL_ERROR")
    /\ UNCHANGED <<rows, used, stock, doubted>>

(***************************************************************************)
(* promoteToPrimary: clear, set, commit.  ClearPrimary's UPDATE chooses    *)
(* its rows from its snapshot, waits for those that are locked, and skips  *)
(* the ones that are no longer primary when it gets them.                  *)
(***************************************************************************)
CallPromote(r, i) ==
    /\ "promote" \in Operations /\ At(r, "idle") /\ i \in used
    /\ IF rows[i] = Absent
       THEN Refuse(r, "IMAGE_NOT_FOUND")
       ELSE Goto(r, [pc |-> "begin", image |-> i, next |-> i, then |-> "done",
                     targets |-> {}, order |-> << >>, writes |-> NoWrites])
    /\ UNCHANGED <<rows, objects, used, history>>

\* A patch of the alt text alone is a plain UPDATE.
CallDescribe(r, i) ==
    /\ "promote" \in Operations /\ At(r, "idle") /\ i \in Present(rows)
    /\ Goto(r, [pc |-> "describe", image |-> i])
    /\ UNCHANGED <<rows, objects, used, history>>

UpdateAltText(r) ==
    /\ At(r, "describe") /\ Granted(r)
    /\ Answer(r, IF rows[calls[r].image] = Absent THEN "IMAGE_NOT_FOUND" ELSE "OK")
    /\ UNCHANGED <<rows, objects, used, history>>

ChooseTargets(r) ==
    /\ At(r, "begin")
    /\ Goto(r, [calls[r] EXCEPT !.pc = "clear", !.targets = Primaries(rows)])
    /\ UNCHANGED <<rows, objects, used, history>>

\* Mutant: the old primary is cleared outside the transaction.
ClearPrimaryAutocommit(r) ==
    /\ At(r, "clear") /\ Granted(r)
    /\ rows' = [i \in Images |-> IF i \in calls[r].targets \cap Primaries(rows)
                                 THEN [rows[i] EXCEPT !.primary = FALSE] ELSE rows[i]]
    /\ Goto(r, [calls[r] EXCEPT !.pc = "set"])
    /\ UNCHANGED <<objects, used, history>>

ClearPrimary(r) ==
    /\ At(r, "clear") /\ Granted(r)
    /\ LET hit == calls[r].targets \cap Primaries(rows) IN
       Goto(r, [calls[r] EXCEPT !.pc = "set",
                  !.writes = [i \in hit |-> [rows[i] EXCEPT !.primary = FALSE]]])
    /\ UNCHANGED <<rows, objects, used, history>>

SetPrimary(r) ==
    /\ At(r, "set") /\ Granted(r)
    /\ LET i == calls[r].next IN
       \/ View(r)[i] = Absent /\ Refuse(r, "IMAGE_NOT_FOUND")
       \/ View(r)[i] # Absent /\ Conflicts(i, View(r)) /\ Refuse(r, "INTERNAL_ERROR")
       \/ /\ View(r)[i] # Absent /\ ~Conflicts(i, View(r))
          /\ Goto(r, [calls[r] EXCEPT !.pc = "commit",
                        !.writes = With(@, i, [View(r)[i] EXCEPT !.primary = TRUE])])
    /\ UNCHANGED <<rows, objects, used, history>>

\* The statement that took the rows of gone away has run.  Its result may be
\* lost: the request then fails, and never comes to their objects.
Learn(r, next, gone) ==
    \/ Goto(r, next) /\ UNCHANGED leaked
    \/ Answer(r, "INTERNAL_ERROR") /\ leaked' = leaked \cup gone

Commit(r) ==
    /\ At(r, "commit")
    /\ rows' = View(r)
    /\ Learn(r, IF calls[r].then = "done"
                THEN [pc |-> "done", code |-> "OK"]
                ELSE [pc |-> "unlink", image |-> calls[r].image],
             { i \in Present(rows) : View(r)[i] = Absent })
    /\ UNCHANGED <<objects, used, stock, doubted>>

(***************************************************************************)
(* Delete: a primary image goes in a transaction that promotes the next    *)
(* one, any other by a plain DELETE, as the row was when it was read.      *)
(***************************************************************************)
CallDelete(r, i) ==
    /\ "delete" \in Operations /\ At(r, "idle") /\ i \in used
    /\ IF rows[i] = Absent
       THEN Refuse(r, "IMAGE_NOT_FOUND")
       ELSE Goto(r, [pc |-> IF rows[i].primary THEN "tx_delete" ELSE "delete",
                     image |-> i, next |-> i, then |-> "unlink",
                     targets |-> {}, order |-> << >>, writes |-> NoWrites])
    /\ UNCHANGED <<rows, objects, used, history>>

DeleteRow(r) ==
    /\ At(r, "delete") /\ Granted(r)
    /\ LET i == calls[r].image IN
       \/ /\ rows[i] = Absent
          /\ Refuse(r, "IMAGE_NOT_FOUND")
          /\ UNCHANGED <<rows, leaked>>
       \/ /\ rows[i] # Absent
          /\ rows' = [rows EXCEPT ![i] = Absent]
          /\ Learn(r, [pc |-> "unlink", image |-> i], {i})
    /\ UNCHANGED <<objects, used, stock, doubted>>

\* Mutant: the object goes before the transaction has committed.
TxDeleteObjectFirst(r) ==
    /\ At(r, "tx_delete") /\ Granted(r)
    /\ LET i == calls[r].image IN
       IF rows[i] = Absent
       THEN Refuse(r, "IMAGE_NOT_FOUND") /\ UNCHANGED objects
       ELSE /\ Goto(r, [calls[r] EXCEPT !.pc = "list", !.writes = With(@, i, Absent)])
            /\ objects' = objects \ {i}
    /\ UNCHANGED <<rows, used, history>>

TxDelete(r) ==
    /\ At(r, "tx_delete") /\ Granted(r)
    /\ LET i == calls[r].image IN
       IF rows[i] = Absent
       THEN Refuse(r, "IMAGE_NOT_FOUND")
       ELSE Goto(r, [calls[r] EXCEPT !.pc = "list", !.writes = With(@, i, Absent)])
    /\ UNCHANGED <<rows, objects, used, history>>

ListRemaining(r) ==
    /\ At(r, "list")
    /\ IF Present(View(r)) = {}
       THEN Goto(r, [calls[r] EXCEPT !.pc = "commit"])
       ELSE Goto(r, [calls[r] EXCEPT !.pc = "set", !.next = First(View(r))])
    /\ UNCHANGED <<rows, objects, used, history>>

\* Best effort: a failure is logged, and the answer is a success.
Unlink(r) ==
    /\ At(r, "unlink")
    /\ RemoveObject(calls[r].image)
    /\ Answer(r, "OK")
    /\ UNCHANGED <<rows, used, stock, doubted>>

(***************************************************************************)
(* Reorder: a permutation of the images as listed, one UPDATE per image.   *)
(***************************************************************************)
CallReorder(r) ==
    /\ "reorder" \in Operations /\ At(r, "idle") /\ Present(rows) # {}
    /\ \E order \in SetToSeqs(Present(rows)) :
         Goto(r, [pc |-> "sort", image |-> order[1], next |-> order[1], then |-> "done",
                  targets |-> {}, order |-> order, writes |-> NoWrites])
    /\ UNCHANGED <<rows, objects, used, history>>

\* Mutant: every UPDATE commits on its own.
SetSortOrderAutocommit(r) ==
    /\ At(r, "sort") /\ Granted(r)
    /\ LET c == calls[r]
           i == Head(c.order) IN
       /\ rows' = [rows EXCEPT ![i].sort = Cardinality(Present(rows)) - Len(c.order)]
       /\ Goto(r, [c EXCEPT !.pc = IF Len(c.order) = 1 THEN "commit" ELSE "sort",
                            !.order = Tail(@)])
    /\ UNCHANGED <<objects, used, history>>

SetSortOrder(r) ==
    /\ At(r, "sort") /\ Granted(r)
    /\ LET c == calls[r]
           i == Head(c.order) IN
       IF View(r)[i] = Absent
       THEN Refuse(r, "IMAGE_NOT_FOUND")
       ELSE Goto(r, [c EXCEPT !.pc = IF Len(c.order) = 1 THEN "commit" ELSE "sort",
                       !.order = Tail(@),
                       !.writes = With(@, i, [View(r)[i] EXCEPT
                                                !.sort = Cardinality(DOMAIN c.writes)])])
    /\ UNCHANGED <<rows, objects, used, history>>

-----------------------------------------------------------------------------
\* A statement fails without effect, as any may, and as one of two
\* transactions waiting for each other does.  A transaction rolls back; a
\* failed insert is compensated for.  A statement that took effect and is
\* reported failed is Learn's and LoseInsertResult's, a failed storage
\* deletion Compensate's and Unlink's.
Fail(r) ==
    /\ Running(r) /\ calls[r].pc \notin {"compensate", "unlink"}
    /\ IF At(r, "insert")
       THEN Goto(r, [calls[r] EXCEPT !.pc = "compensate"])
       ELSE Answer(r, "INTERNAL_ERROR")
    /\ UNCHANGED <<rows, objects, used, history>>

\* The connection is lost after the INSERT has taken effect.
LoseInsertResult(r) ==
    /\ At(r, "insert") /\ Granted(r) /\ ~(calls[r].primary /\ Conflicts(Head(calls[r].keys), rows))
    /\ Inserted(r)
    /\ Goto(r, [calls[r] EXCEPT !.pc = "compensate"])
    /\ doubted' = doubted \cup {Head(calls[r].keys)}
    /\ UNCHANGED <<objects, used, stock, leaked>>

\* The process dies with an object in the request's hands.  Before and after,
\* Fail stands for its death: the server rolls back what was not committed.
Die(r) ==
    /\ calls[r].pc \in {"insert", "compensate", "unlink"}
    /\ leaked' = leaked \cup {IF At(r, "unlink") THEN calls[r].image ELSE Head(calls[r].keys)}
    /\ Answer(r, "INTERNAL_ERROR")
    /\ UNCHANGED <<rows, objects, used, stock, doubted>>

Deliver(r) ==
    /\ At(r, "done")
    /\ Goto(r, Idle)
    /\ UNCHANGED <<rows, objects, used, history>>

\* The routes.
PostImages(r) == CallUpload(r)

PatchImage(r) == \E i \in Images : CallPromote(r, i) \/ CallDescribe(r, i)

DeleteImage(r) == \E i \in Images : CallDelete(r, i)

PutOrder(r) == CallReorder(r)

Next ==
    \E r \in Calls :
        \/ PostImages(r) \/ StoreObject(r) \/ LoseObject(r) \/ InsertRow(r) \/ Compensate(r)
        \/ PatchImage(r) \/ DeleteImage(r) \/ PutOrder(r)
        \/ UpdateAltText(r) \/ ChooseTargets(r) \/ ClearPrimary(r) \/ SetPrimary(r) \/ Commit(r)
        \/ DeleteRow(r) \/ TxDelete(r) \/ ListRemaining(r) \/ Unlink(r)
        \/ SetSortOrder(r)
        \/ Fail(r) \/ LoseInsertResult(r) \/ Die(r) \/ Deliver(r)

Spec == Init /\ [][Next]_vars

-----------------------------------------------------------------------------
\* At most one primary, and nothing under an id that was never generated.
TypeOK ==
    /\ rows \in [Images -> Row \cup {Absent}]
    /\ Cardinality(Primaries(rows)) <= 1
    /\ Present(rows) \subseteq used /\ objects \subseteq used /\ used \subseteq Images

\* No visitor is shown a broken image, whichever statement of whichever
\* request fails: a committed row's object is stored, except where an INSERT
\* took effect and Upload, told that it failed, removed the object.
RowHasObject == Present(rows) \ doubted \subseteq objects

\* An object outlives its row, or precedes it, only while a request that will
\* settle the matter is running.  The exceptions are each one a fault at the
\* very step that concerns the object: a storage call failed or its result was
\* lost, the result of the DELETE or COMMIT that took its row away was lost, or
\* the process died between the two systems.  A statement that failed, a
\* rollback, a broken deadlock and a race orphan nothing.
NoOrphan ==
    \A i \in objects \ (Present(rows) \cup leaked) :
        \E r \in Calls :
            \/ calls[r].pc \in {"insert", "compensate"} /\ Head(calls[r].keys) = i
            \/ At(r, "unlink") /\ calls[r].image = i

\* Until an image comes or goes, exactly one is primary, whatever promotions
\* and reorders run, and whatever of an upload or a deletion has failed.
OnePrimary == used = stock /\ Present(rows) = stock /\ stock # {} => Cardinality(Primaries(rows)) = 1

\* Concurrent reorders, promotions and deletions leave an order in which no
\* two images share a place.
OrderIsTotal ==
    used = stock => \A i, j \in Present(rows) : i # j => rows[i].sort # rows[j].sort

\* A gallery always looks like one, whatever meets and whatever fails.
GalleryKeepsShape == TypeOK /\ OnePrimary /\ OrderIsTotal

G == INSTANCE Gallery WITH gallery <- rows

\* Every change of the table is one whole operation of the abstract gallery:
\* no batch of UPDATEs is ever half applied, a promotion and a reorder that
\* write the same rows do not undo each other, and a promotion leaves exactly
\* the picture it names.
ImplementsGallery == G!Spec

\* As UpdateMeta's comment has it: once a service has a primary image, it
\* has one as long as it has images.
PrimaryStays ==
    [][Primaries(rows) # {} /\ Present(rows)' # {} => Primaries(rows)' # {}]_vars

-----------------------------------------------------------------------------
(***************************************************************************)
(* The inductive invariant.                                                *)
(***************************************************************************)
Codes == {"OK", "IMAGE_NOT_FOUND", "VALIDATION_FAILED", "INTERNAL_ERROR"}

Call ==
    [pc : {"idle"}] \cup [pc : {"done"}, code : Codes]
    \cup [pc : Uploading, keys : Seq(Images), sort : Nat, primary : BOOLEAN]
    \cup [pc : {"describe", "unlink"}, image : Images]

Transaction(written) ==
    [pc : Transacting, image : Images, next : Images, then : {"done", "unlink"},
     targets : SUBSET Images, order : Seq(Images), writes : [written -> Row \cup {Absent}]]

CallOK(r) ==
    calls[r] \in Call \/ \E written \in SUBSET Images : calls[r] \in Transaction(written)

Unlinking(i) == \E q \in Calls : At(q, "unlink") /\ calls[q].image = i

\* The keys of an upload are its own, and none has a row before its INSERT.
UploadOK(r) ==
    LET c == calls[r] IN
    c.pc \in Uploading =>
      /\ c.keys # << >> /\ IsInjective(c.keys) /\ ToSet(c.keys) \subseteq used \ stock
      /\ \A q \in Calls : q # r /\ calls[q].pc \in Uploading =>
             ToSet(c.keys) \cap ToSet(calls[q].keys) = {}
      /\ c.pc # "compensate" =>
             \A i \in ToSet(c.keys) : rows[i] = Absent /\ ~Unlinking(i)
      /\ c.pc = "insert" => Head(c.keys) \in objects
      /\ c.pc = "compensate" => rows[Head(c.keys)] = Absent \/ Head(c.keys) \in doubted

UnlinkOK(r) == At(r, "unlink") => calls[r].image \in used /\ rows[calls[r].image] = Absent

\* What the locks are for: no two transactions write one row, what is written
\* is there, and whoever is about to make a row the primary one, or keeps it
\* so, holds all that are.
Pending(r) == { i \in DOMAIN Writes(r) : Writes(r)[i] # Absent /\ Writes(r)[i].primary }

LocksOK(r) ==
    /\ DOMAIN Writes(r) \subseteq Present(rows)
    /\ \A q \in Calls : q # r => DOMAIN Writes(q) \cap DOMAIN Writes(r) = {}
    /\ Pending(r) # {} => /\ Primaries(rows) \subseteq DOMAIN Writes(r)
                          /\ \A q \in Calls : q # r => Pending(q) = {}
                          /\ \A i, j \in Pending(r) : i = j

\* What a transaction has written so far: flags, places or a removal.
Flags(r, chosen) ==
    \A i \in DOMAIN calls[r].writes :
        calls[r].writes[i] = [rows[i] EXCEPT !.primary = (i \in chosen)]

Places(r) ==
    LET w == calls[r].writes IN
    /\ \A i \in DOMAIN w : w[i] = [rows[i] EXCEPT !.sort = w[i].sort]
    /\ \A i, j \in DOMAIN w : i # j => w[i].sort # w[j].sort
    /\ { w[i].sort : i \in DOMAIN w } = 0 .. Cardinality(DOMAIN w) - 1

Promotes(r) ==
    /\ calls[r].then = "done" /\ calls[r].next \in DOMAIN calls[r].writes
    /\ Flags(r, {calls[r].next})

Arranges(r) ==
    /\ calls[r].then = "done" /\ Places(r)
    /\ used = stock => Present(rows) \subseteq DOMAIN calls[r].writes

Removes(r) ==
    LET c == calls[r]
        D == DOMAIN c.writes IN
    /\ c.then = "unlink" /\ c.image \in D /\ c.writes[c.image] = Absent
    /\ \A j \in D \ {c.image} :
          D = {c.image, j} /\ c.writes[j] = [rows[j] EXCEPT !.primary = TRUE]

TransactionOK(r) ==
    LET c == calls[r] IN
    /\ c.pc \in {"begin", "clear", "delete", "tx_delete"} => c.writes = NoWrites
    /\ c.pc \in {"begin", "clear", "sort"} => c.then = "done"
    /\ c.pc \in {"tx_delete", "list"} => c.then = "unlink"
    /\ c.pc = "list" \/ (c.pc = "set" /\ c.then = "unlink") =>
          DOMAIN c.writes = {c.image} /\ c.writes[c.image] = Absent
    /\ c.pc = "set" /\ c.then = "done" => Flags(r, {})
    /\ c.pc = "sort" =>
          /\ c.order # << >> /\ IsInjective(c.order) /\ Places(r)
          /\ DOMAIN c.writes \cap ToSet(c.order) = {}
          /\ used = stock => Present(rows) \subseteq DOMAIN c.writes \cup ToSet(c.order)
    /\ c.pc = "commit" => Promotes(r) \/ Arranges(r) \/ Removes(r)

IInv ==
    /\ GalleryKeepsShape /\ RowHasObject /\ NoOrphan
    /\ IsFiniteSet(Present(rows)) /\ stock \subseteq used
    /\ calls = [r \in Calls |-> calls[r]]
    /\ \A r \in Calls : CallOK(r) /\ UploadOK(r) /\ UnlinkOK(r) /\ LocksOK(r) /\ TransactionOK(r)

=============================================================================
