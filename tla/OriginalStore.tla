---------------------------- MODULE OriginalStore ----------------------------
(***************************************************************************)
(* OriginalFileStore: the content-addressed blobs of one project and the   *)
(* receipts that prove their preservation, with the manual ingestion that  *)
(* reads a blob back through its receipt.                                  *)
(*                                                                         *)
(* A store object serialises its own preservations with a lock; the        *)
(* program makes several store objects over one root, so two of them may   *)
(* be inside preserve at the same time.  Every file operation may fail,    *)
(* those of the handler that cleans up after a failure too, and the        *)
(* process may be killed between any two of them.                          *)
(*                                                                         *)
(* Each attempt names its temporary files anew.  Here the files of one     *)
(* upload and kind are one member of `leftovers', so that a later attempt  *)
(* that clears its own also clears what an earlier one left; `abandoned'   *)
(* keeps the record of that.                                               *)
(***************************************************************************)
EXTENDS Integers, FiniteSets

CONSTANTS
  Uploads,      \* preservations, each with its reserved receipt id
  Contents,     \* what the bytes of a source can be
  FirstContent, \* Uploads -> the bytes of its source at first
  StoreOf,      \* Uploads -> the store object that preserves it
  MaxFileFaults, MaxKills, MaxEdits   \* bounds on what may go wrong

ASSUME StoreAssumption ==
  /\ FirstContent \in [Uploads -> Contents]
  /\ MaxFileFaults \in Nat /\ MaxKills \in Nat /\ MaxEdits \in Nat

VARIABLES
  source,    \* Uploads -> the bytes of the source now
  at,        \* Uploads -> the step its preservation stands at
  hashed,    \* Uploads -> the digest taken before the lock
  copied,    \* Uploads -> the digest of the temporary copy
  made,      \* Uploads -> whether it put the blob there
  holder,    \* stores -> the upload that holds the lock, or Nobody
  blobs,     \* contents with a blob
  receipts,  \* receipts: upload and content
  leftovers, \* temporary files: of which upload, and a copy or a receipt to be
  abandoned, \* history: the clean-ups that failed, and where
  mishaps    \* faults, kills and edits so far

files == <<blobs, receipts, leftovers>>
storeVars == <<source, at, hashed, copied, made, holder, files, abandoned, mishaps>>

Nobody == [nobody |-> TRUE]
Stores == {StoreOf[u] : u \in Uploads}
Held(u) == holder[StoreOf[u]] = [by |-> u]
HasReceipt(x) == \E r \in receipts : r.content = x
Temp(u, f) == [upload |-> u, file |-> f]
Without(u, f) == leftovers' = leftovers \ {Temp(u, f)}

StoreInit ==
  /\ source = FirstContent
  /\ at = [u \in Uploads |-> "idle"]
  /\ hashed = FirstContent /\ copied = FirstContent
  /\ made = [u \in Uploads |-> FALSE]
  /\ holder = [s \in Stores |-> Nobody]
  /\ blobs = {} /\ receipts = {} /\ leftovers = {} /\ abandoned = {}
  /\ mishaps = [faults |-> 0, kills |-> 0, edits |-> 0]

Goto(u, from, to) == at[u] = from /\ at' = [at EXCEPT ![u] = to]

\* preserve: the source is hashed and its package examined before the lock.
HashSource(u) ==
  /\ Goto(u, "idle", "lock")
  /\ hashed' = [hashed EXCEPT ![u] = source[u]]
  /\ made' = [made EXCEPT ![u] = FALSE]
  /\ UNCHANGED <<source, copied, holder, files, abandoned, mishaps>>

\* Fault: preserve without its lock.
AcquireNothing(u) ==
  /\ Goto(u, "lock", "open")
  /\ holder' = [holder EXCEPT ![StoreOf[u]] = [by |-> u]]
  /\ UNCHANGED <<source, hashed, copied, made, files, abandoned, mishaps>>

Acquire(u) ==
  /\ Goto(u, "lock", "open") /\ holder[StoreOf[u]] = Nobody
  /\ holder' = [holder EXCEPT ![StoreOf[u]] = [by |-> u]]
  /\ UNCHANGED <<source, hashed, copied, made, files, abandoned, mishaps>>

\* _copy_source_to_temp creates the temporary file, then fills it.
OpenCopy(u) ==
  /\ Goto(u, "open", "copy")
  /\ leftovers' = leftovers \cup {Temp(u, "copy")}
  /\ UNCHANGED <<source, hashed, copied, made, holder, blobs, receipts, abandoned, mishaps>>

Copy(u) ==
  /\ Goto(u, "copy", "compare")
  /\ copied' = [copied EXCEPT ![u] = source[u]]
  /\ UNCHANGED <<source, hashed, made, holder, files, abandoned, mishaps>>

\* The source is hashed again: a source that changed is not preserved.
Compare(u) ==
  /\ Goto(u, "compare", IF hashed[u] = copied[u] /\ copied[u] = source[u]
                          THEN "look" ELSE "undo")
  /\ UNCHANGED <<source, hashed, copied, made, holder, files, abandoned, mishaps>>

\* A blob that is there is kept and the copy removed; else the copy will
\* become the blob, whatever another store does before the replace.
LookForBlob(u) ==
  /\ Goto(u, "look", IF hashed[u] \in blobs THEN "receipt" ELSE "place")
  /\ IF hashed[u] \in blobs THEN Without(u, "copy") ELSE UNCHANGED leftovers
  /\ UNCHANGED <<source, hashed, copied, made, holder, blobs, receipts, abandoned, mishaps>>

PlaceBlob(u) ==
  /\ Goto(u, "place", "receipt")
  /\ blobs' = blobs \cup {copied[u]} /\ Without(u, "copy")
  /\ made' = [made EXCEPT ![u] = TRUE]
  /\ UNCHANGED <<source, hashed, copied, holder, receipts, abandoned, mishaps>>

\* The reserved receipt of this content: the one that is there is returned
\* (a different one cannot be), a missing one written through a temporary
\* file and an atomic replace.
Receipt(u) == [upload |-> u, content |-> hashed[u]]
WriteReceipt(u) ==
  /\ Goto(u, "receipt", IF Receipt(u) \in receipts THEN "stored" ELSE "replace")
  /\ leftovers' = IF Receipt(u) \in receipts THEN leftovers
                                             ELSE leftovers \cup {Temp(u, "receipt")}
  /\ UNCHANGED <<source, hashed, copied, made, holder, blobs, receipts, abandoned, mishaps>>

PutReceipt(u) ==
  /\ Goto(u, "replace", "stored")
  /\ receipts' = receipts \cup {Receipt(u)} /\ Without(u, "receipt")
  /\ UNCHANGED <<source, hashed, copied, made, holder, blobs, abandoned, mishaps>>

\* Any file operation inside the lock fails, and a handler takes over: the
\* one of the copying first, if it was at that.
Fault(u) ==
  /\ at[u] \in {"open", "copy", "compare", "look", "place", "receipt", "replace"}
  /\ mishaps.faults < MaxFileFaults
  /\ mishaps' = [mishaps EXCEPT !.faults = @ + 1]
  /\ at' = [at EXCEPT ![u] = IF at[u] = "copy" THEN "discard" ELSE "undo"]
  /\ UNCHANGED <<source, hashed, copied, made, holder, files, abandoned>>

DropCopy(u) ==
  /\ Goto(u, "discard", "undo") /\ Without(u, "copy")
  /\ UNCHANGED <<source, hashed, copied, made, holder, blobs, receipts, abandoned, mishaps>>

\* The handler of preserve: the temporary files go, first the copy.
Undo(u) ==
  /\ Goto(u, "undo", "withdraw") /\ Without(u, "copy")
  /\ UNCHANGED <<source, hashed, copied, made, holder, blobs, receipts, abandoned, mishaps>>

\* Fault: the blob stays.
WithdrawReceiptOnly(u) ==
  /\ Goto(u, "withdraw", "failed") /\ Without(u, "receipt")
  /\ UNCHANGED <<source, hashed, copied, made, holder, blobs, receipts, abandoned, mishaps>>

\* A blob this call made goes too, unless a receipt for its content is found.
Withdraw(u) ==
  /\ Goto(u, "withdraw", IF made[u] /\ ~HasReceipt(hashed[u]) THEN "unlink" ELSE "failed")
  /\ Without(u, "receipt")
  /\ UNCHANGED <<source, hashed, copied, made, holder, blobs, receipts, abandoned, mishaps>>

Unlink(u) ==
  /\ Goto(u, "unlink", "failed")
  /\ blobs' = blobs \ {hashed[u]}
  /\ UNCHANGED <<source, hashed, copied, made, holder, receipts, leftovers>>
  /\ UNCHANGED <<abandoned, mishaps>>

Abandonment(u) == [upload |-> u, step |-> at[u], content |-> hashed[u], made |-> made[u]]

\* A removal of the handler of preserve fails: what was still to be removed
\* stays.  The handler of the copying leaves its file to the other one.
ClearingFails(u) ==
  /\ at[u] \in {"discard", "undo", "withdraw", "unlink"}
  /\ mishaps.faults < MaxFileFaults
  /\ mishaps' = [mishaps EXCEPT !.faults = @ + 1]
  /\ at' = [at EXCEPT ![u] = IF at[u] = "discard" THEN "undo" ELSE "failed"]
  /\ abandoned' = IF at[u] = "discard" THEN abandoned ELSE abandoned \cup {Abandonment(u)}
  /\ UNCHANGED <<source, hashed, copied, made, holder, files>>

\* The lock is left; a failed preservation may be asked for again, a stored
\* one is read back (ingest: on_preserved, open_source, scan).
Release(u) ==
  /\ at[u] \in {"stored", "failed"} /\ Held(u)
  /\ at' = [at EXCEPT ![u] = IF at[u] = "stored" THEN "reading" ELSE "idle"]
  /\ holder' = [holder EXCEPT ![StoreOf[u]] = Nobody]
  /\ UNCHANGED <<source, hashed, copied, made, files, abandoned, mishaps>>

\* open_source: the blob is there and matches the receipt, or the reader is
\* told that the stored source is gone.
OpenSource(u) ==
  /\ at[u] = "reading"
  /\ at' = [at EXCEPT ![u] = IF hashed[u] \in blobs THEN "scanned" ELSE "missing"]
  /\ UNCHANGED <<source, hashed, copied, made, holder, files, abandoned, mishaps>>

\* The owner of the source writes it while it is being preserved.
EditSource(u) ==
  /\ mishaps.edits < MaxEdits /\ at[u] \in {"lock", "open", "copy", "compare", "look"}
  /\ \E x \in Contents \ {source[u]} : source' = [source EXCEPT ![u] = x]
  /\ mishaps' = [mishaps EXCEPT !.edits = @ + 1]
  /\ UNCHANGED <<at, hashed, copied, made, holder, files, abandoned>>

\* The process is killed: no handler runs, the files stay as they are, and
\* after the restart every preservation is asked for again, with its own id.
Kill ==
  /\ mishaps.kills < MaxKills
  /\ mishaps' = [mishaps EXCEPT !.kills = @ + 1]
  /\ at' = [u \in Uploads |-> IF at[u] = "scanned" THEN "scanned" ELSE "idle"]
  /\ holder' = [s \in Stores |-> Nobody]
  /\ UNCHANGED <<source, hashed, copied, made, files, abandoned>>

StoreStep(u) ==
  \/ HashSource(u) \/ Acquire(u) \/ OpenCopy(u) \/ Copy(u) \/ Compare(u) \/ LookForBlob(u)
  \/ PlaceBlob(u) \/ WriteReceipt(u) \/ PutReceipt(u)
  \/ DropCopy(u) \/ Undo(u) \/ Withdraw(u) \/ Unlink(u) \/ Release(u) \/ OpenSource(u)

StoreNext ==
  \/ Kill
  \/ \E u \in Uploads : StoreStep(u) \/ Fault(u) \/ ClearingFails(u) \/ EditSource(u)

StoreSpec == StoreInit /\ [][StoreNext]_storeVars

(***************************************************************************)
(* Properties.                                                             *)
(***************************************************************************)
(* Where the preservations stand, who holds the locks, what the files are. *)
StoreTypeOK ==
  /\ source \in [Uploads -> Contents] /\ hashed \in [Uploads -> Contents]
  /\ copied \in [Uploads -> Contents] /\ made \in [Uploads -> BOOLEAN]
  /\ at \in [Uploads ->
       {"idle", "lock", "open", "copy", "compare", "look", "place", "receipt", "replace",
        "stored", "discard", "undo", "withdraw", "unlink", "failed", "reading", "scanned", "missing"}]
  /\ holder \in [Stores -> {Nobody} \cup {[by |-> u] : u \in Uploads}]
  /\ blobs \subseteq Contents
  /\ leftovers \subseteq [upload : Uploads, file : {"copy", "receipt"}]
  /\ abandoned \subseteq [upload : Uploads, step : {"undo", "withdraw", "unlink"},
                         content : Contents, made : BOOLEAN]
  /\ receipts \subseteq [upload : Uploads, content : Contents]
  /\ mishaps \in [faults : 0 .. MaxFileFaults, kills : 0 .. MaxKills, edits : 0 .. MaxEdits]

(* A receipt proves that its original is kept: whatever fails, is edited   *)
(* or is killed, a receipt never outlives or precedes its blob, and no     *)
(* reader of a receipt finds the original gone.                            *)
ReceiptHasBlob ==
  /\ \A r \in receipts : r.content \in blobs
  /\ \A u \in Uploads : at[u] # "missing"

\* What the failed clean-ups account for.
FileLeft(t) ==
  \E a \in abandoned :
    a.upload = t.upload /\ (a.step = "undo" \/ (t.file = "receipt" /\ a.step = "withdraw"))
BlobLeft(x) == \E a \in abandoned : a.content = x /\ a.made

(* A failed preservation leaves nothing behind but what its own clean-up   *)
(* failed to remove: outside a preservation in progress, and unless the    *)
(* process was killed, a temporary copy is there only if the clean-up of   *)
(* its preservation failed at that copy, a temporary receipt only if it    *)
(* failed at one of the two, and a blob without a receipt only if the      *)
(* clean-up of a preservation that had made it failed.                     *)
FailureLeavesNothing ==
  mishaps.kills = 0 /\ (\A u \in Uploads : ~Held(u)) =>
    /\ \A t \in leftovers : FileLeft(t)
    /\ \A x \in blobs : HasReceipt(x) \/ BlobLeft(x)
=============================================================================
