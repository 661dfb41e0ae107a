----------------------------- MODULE Transcript -----------------------------
(***************************************************************************)
(* The transcript of a conversation (semora/transcript.py over a           *)
(* `Transcript` store): rows that are only ever appended.  A message row   *)
(* chains to its parent; a leaf row moves the active tip, a tombstone      *)
(* hides one message.                                                      *)
(*                                                                         *)
(* The identifier of a message row is a hash of its parent's identifier    *)
(* and of the message's stable fields, so a conversation has one row for a *)
(* parent and a message.  Its place among the rows, which never changes,   *)
(* stands for it here.  Messages themselves are any values.                *)
(***************************************************************************)
EXTENDS Integers, Sequences, SequencesExt

Root == 0  \* the parent of a conversation's first message

MessageEntry(parent, message) == [type |-> "message", parent |-> parent, message |-> message]
Leaf(uuid) == [type |-> "leaf", leaf |-> uuid]
Tombstone(uuid) == [type |-> "tombstone", deleted |-> uuid]

(* A row's identifier, also of one that is yet to be appended.             *)
EntryId(rows, entry) ==
  IF Contains(rows, entry) THEN CHOOSE n \in DOMAIN rows : rows[n] = entry ELSE Len(rows) + 1

(* A store appends a row unless the conversation has its identifier.  Leaf *)
(* rows are told apart by the time they were made.                         *)
Appended(rows, row) ==
  IF row.type # "leaf" /\ Contains(rows, row) THEN rows ELSE Append(rows, row)

-----------------------------------------------------------------------------
(* Reading.                                                                *)

OfKind(rows, type) == {n \in DOMAIN rows : rows[n].type = type}
Buried(rows) == {rows[n].deleted : n \in OfKind(rows, "tombstone")}

(* The messages that were chained since the last leaf row.                 *)
Grown(rows) ==
  LET leaves == OfKind(rows, "leaf") IN {n \in OfKind(rows, "message") : \A m \in leaves : m < n}

(* Faulty variant: a leaf row counts for good.                             *)
TipOfLeaf(rows) ==
  IF OfKind(rows, "leaf") # {} THEN rows[Max(OfKind(rows, "leaf"))].leaf
  ELSE IF Grown(rows) # {} THEN Max(Grown(rows))
  ELSE Root

Tip(rows) ==
  LET grown == Grown(rows) IN
  IF grown # {} THEN Max(grown)
  ELSE IF OfKind(rows, "leaf") # {} THEN rows[Max(OfKind(rows, "leaf"))].leaf
  ELSE Root

(* The way from the root to an entry, without what is buried.              *)
Walk(rows, tip) ==
  LET buried == Buried(rows)
      way[n \in 0 .. Len(rows)] ==
        IF n = 0 \/ rows[n].type # "message" THEN <<>>
        ELSE IF n \in buried THEN way[rows[n].parent]
        ELSE Append(way[rows[n].parent], n)
  IN way[tip]

Bodies(rows, uuids) == [n \in DOMAIN uuids |-> rows[uuids[n]].message]

ActiveBranch(rows) == Walk(rows, Tip(rows))
MessagesOf(rows) == Bodies(rows, ActiveBranch(rows))

-----------------------------------------------------------------------------
(* Writing: an attempt holds the identifiers of its branch's messages; the *)
(* last one is the parent of the next.                                     *)

Parent(uuids) == IF uuids = <<>> THEN Root ELSE Last(uuids)

(* A message that is already on record moves the tip to it.  (The store's  *)
(* refusal and the leaf row are two awaits; nothing takes a row away in    *)
(* between.)                                                               *)
Record(rows, uuids, message) ==
  LET entry == MessageEntry(Parent(uuids), message) IN
  IF Contains(rows, entry) THEN Append(rows, Leaf(EntryId(rows, entry)))
  ELSE Appended(rows, entry)

Advanced(rows, uuids, message) ==
  Append(uuids, EntryId(rows, MessageEntry(Parent(uuids), message)))

(* Replacing a branch's history: back to the common prefix, then on.       *)
Rewound(rows, uuids, desired) ==
  SubSeq(uuids, 1, Len(LongestCommonPrefix({Bodies(rows, uuids), desired})))
=============================================================================
